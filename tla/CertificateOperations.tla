----------------------- MODULE CertificateOperations ------------------------
(***************************************************************************)
(* Certificates, certificate requests and issuance: infisical-api/src/     *)
(* pki_certificates.rs, pki_certificate_requests.rs and                    *)
(* pki_certificate_issuance.rs, with their tools in infisical-mcp/src/     *)
(* tools.rs.  One certificate or request is read by searching its project  *)
(* for its identifier: "project" is the facet that the search finds it     *)
(* there.  CertificateLifecycle has the interplay of several calls on one  *)
(* inventory.                                                              *)
(***************************************************************************)
EXTENDS ErrorFacts, TLC

Y == INSTANCE PolicyOperations

(* A read whose failures all say that the outcome is unknown.              *)
ReadBack(wire, unknown) == Together("observe", {wire}, {unknown})
-----------------------------------------------------------------------------
(* pki_certificates.rs *)
SearchCertificates(object, asks) == Wire(object, InScope, asks, asks \cup {"form"})
OfCertificate(object, asks, answers) == Wire(object, ById("certificate"), asks, answers)
RenewCertificate ==
    OfCertificate("certificate", {"new", "issuer", "subject"},
                  {"new", "issuer", "subject", "pair", "form"})
ImportCertificate ==
    Wire("certificate", InScope, {"certificate", "chain", "key"},
         {"certificate", "chain", "key", "serial", "form"})
RevokeCertificate == OfCertificate("certificate", {"serial"}, {"serial", "form"})
UpdateCertificateConfig ==
    OfCertificate("certificate", {"renewBeforeDays"}, {"renewBeforeDays", "form"})
DeleteCertificate ==
    OfCertificate("certificate", {"id", "serial", "status"}, {"id", "serial", "status", "form"})
PublicMaterial == {"serial", "subject", "kind"}
GetCertificatePublicMaterial(object) ==
    OfCertificate(object, PublicMaterial, PublicMaterial \cup {"form"})
GetCertificateBundle ==
    OfCertificate("bundle", {"keyPresent"} \cup PublicMaterial,
                  {"keyPresent", "pair", "form"} \cup PublicMaterial)
GetCertificatePrivateKey == OfCertificate("key", {"pair"}, {"pair", "form"})

InventoryFits(object, facets) == Require(object, facets, "InvalidCertificateInventoryResponse")
MaterialFits(object, facets) == Require(object, facets, "InvalidCertificateMaterialResponse")
LifecycleState(facets) == Require("certificate", facets, "InvalidCertificateLifecycleState")
certificate_is_end_entity == LifecycleState({"kind"})
certificate_supports_managed_renewal == LifecycleState({"status", "kind", "managed"})
certificate_supports_renewal_configuration == LifecycleState({"status", "kind", "managed"})
certificate_matches_request == InventoryFits("certificates", {"filters"})
public_material_from_wire(object) == MaterialFits(object, {"form"} \cup PublicMaterial)
bundle_from_wire == MaterialFits("answer", {"form", "pair", "keyPresent"} \cup PublicMaterial)
(* ClientError::Api(Server) and what leaves the request's fate open.       *)
lifecycle_unknown == Lost

list_certificates ==
    Observe(SearchCertificates("certificates", {"project", "page", "unique", "filters"}))
      \o InventoryFits("certificates", {"page", "project", "form", "unique"})
      \o certificate_matches_request
certificate_search(facets) ==
    Observe(SearchCertificates("certificate", {"project"} \cup facets))
      \o InventoryFits("certificate", {"form"})
      \o Require("certificate", {"project"}, "InvalidCertificateInventoryScope")
get_certificate == certificate_search({})
certificates_by_serial ==
    Observe(SearchCertificates("namesakes", {"page"})) \o InventoryFits("namesakes", {"form"})
      \o Require("namesakes", {"page"}, "InvalidCertificateInventoryScope")

(* The record of an imported certificate is the one with its serial number *)
(* that was not there before.                                              *)
ImportUnknown == "CertificateImportOutcomeUnknown"
import_response_matches_request ==
    Verify({"certificate", "chain", "key", "serial", "form"}, ImportUnknown)
imported_inventory_matches_request == {"one", "status", "serial", "key", "application", "name", "subject"}
import_certificate ==
    Consent("confirm") \o Check({"serial"}, "InvalidCertificateMaterialResponse")
      \o certificates_by_serial
      \o MutateUnsure(ImportCertificate, lifecycle_unknown, ImportUnknown)
      \o import_response_matches_request
      \o ReadBack(SearchCertificates("imported", imported_inventory_matches_request), ImportUnknown)
      \o Require("imported", imported_inventory_matches_request \cup {"form"}, ImportUnknown)

get_certificate_public_material ==
    get_certificate \o Observe(GetCertificatePublicMaterial("public"))
      \o public_material_from_wire("public")
reveal_certificate_bundle ==
    Consent("confirmReveal") \o get_certificate \o Reveal(GetCertificateBundle) \o bundle_from_wire
reveal_certificate_private_key ==
    Consent("confirmReveal") \o certificate_search({"key"})
      \o Require("certificate", {"key"}, "CertificatePrivateKeyUnavailable")
      \o Observe(GetCertificatePublicMaterial("public")) \o public_material_from_wire("public")
      \o Reveal(GetCertificatePrivateKey) \o MaterialFits("answer", {"form", "pair"})

(* A renewed certificate is found in the inventory as one of the same       *)
(* authority and profile.                                                  *)
RenewalUnknown == "CertificateRenewalOutcomeUnknown"
renewed_certificate_from_wire ==
    Verify({"new", "issuer", "subject", "pair", "form"}, RenewalUnknown)
renewed_inventory_matches_source == {"project", "status", "kind", "key", "ca", "profile", "serial"}
renew_certificate ==
    Consent("confirm") \o certificate_search({"status", "kind", "managed"})
      \o certificate_supports_managed_renewal
      \o MutateUnsure(RenewCertificate, lifecycle_unknown, RenewalUnknown)
      \o renewed_certificate_from_wire
      \o ReadBack(SearchCertificates("renewed", renewed_inventory_matches_source), RenewalUnknown)
      \o Require("renewed", {"form"} \cup renewed_inventory_matches_source, RenewalUnknown)
RevocationUnknown == "CertificateRevocationOutcomeUnknown"
revoke_certificate ==
    Consent("confirm") \o certificate_search({"status", "kind"})
      \o certificate_is_end_entity \o LifecycleState({"status"})
      \o MutateUnsure(RevokeCertificate, lifecycle_unknown, RevocationUnknown)
      \o Verify({"serial", "form"}, RevocationUnknown)
ConfigurationUnknown == "CertificateRenewalConfigurationOutcomeUnknown"
update_certificate_renewal_configuration ==
    certificate_search({"status", "kind", "managed"})
      \o certificate_supports_renewal_configuration
      \o MutateUnsure(UpdateCertificateConfig, lifecycle_unknown, ConfigurationUnknown)
      \o Verify({"renewBeforeDays", "form"}, ConfigurationUnknown)
DeletionUnknown == "CertificateDeletionOutcomeUnknown"
delete_certificate ==
    Consent("confirm") \o certificate_search({"kind"}) \o certificate_is_end_entity
      \o MutateUnsure(DeleteCertificate, lifecycle_unknown, DeletionUnknown)
      \o Verify({"id", "serial", "status", "form"}, DeletionUnknown)
-----------------------------------------------------------------------------
(* pki_certificate_requests.rs *)
SearchCertificateRequests(object, asks) == Wire(object, InScope, asks, asks \cup {"form"})
RequestResult == {"status", "certificateId", "serial", "commonName", "times", "subject"}
GetCertificateRequestResult ==
    Wire("result", ById("request"), RequestResult, {"pair", "form"} \cup RequestResult)
CancelCertificateRequest == Wire("request", ById("request"), {"status"}, {"status", "form"})

RequestsFit(object, facets) ==
    Require(object, facets, "InvalidCertificateRequestInventoryResponse")
RequestState(facets) == Require("request", facets, "InvalidCertificateRequestState")
list_certificate_requests ==
    Observe(SearchCertificateRequests("requests", {"page", "unique", "filters"}))
      \o RequestsFit("requests", {"page", "form", "unique", "filters"})
request_search(facets) ==
    Observe(SearchCertificateRequests("request", {"project"} \cup facets))
      \o RequestsFit("request", {"form"})
      \o Require("request", {"project"}, "InvalidCertificateRequestScope")
get_certificate_request == request_search({})
reveal_certificate_request_material ==
    Consent("confirmReveal") \o request_search({"status", "certificate"})
      \o RequestState({"status"}) \o RequestState({"certificate"})
      \o Reveal(GetCertificateRequestResult)
      \o Verify({"pair", "form"} \cup RequestResult, "InvalidCertificateRequestMaterialResponse")
cancel_certificate_request ==
    Consent("confirm") \o request_search({"status"}) \o RequestState({"status"})
      \o Mutate(CancelCertificateRequest)
      \o Verify({"status"}, "InvalidCertificateRequestCancellationResponse")
-----------------------------------------------------------------------------
(* pki_certificate_issuance.rs *)
IssuedCertificateWire == {"pair", "chain", "issuer", "bounded", "form"}
NotCompared == {"validity", "keyUsages", "algorithms", "basicConstraints"}
IssueCertificate(asks) ==
    Wire("certificate", ById("profile"), asks \cup NotCompared,
         asks \cup NotCompared \cup {"requestId"} \cup IssuedCertificateWire)
Unclear == {"Transport", "ResponseTooLarge", "InvalidMutationResponse"}
IssuanceUnknown == "CertificateIssuanceOutcomeUnknown"
Unverified(facets) == Verify(facets, "CertificateIssuanceResponseUnverified")
issued_outcome == Unverified(IssuedCertificateWire)
managed_subject_matches == Unverified({"subject", "sans"})
csr_matches_certificate == Unverified({"subject", "sans", "publicKey", "noKey"})
(* The request exists: its identifier is known before anything else of the *)
(* answer is looked at.                                                    *)
issue(asks) ==
    Consent("confirm") \o Y!to_change({"enrollmentType"})
      \o Require("profile", {"enrollmentType"}, "InvalidCertificateIssuanceProfile")
      \o MutateUnsure(IssueCertificate(asks), Unclear, IssuanceUnknown)
      \o Verify({"requestId"}, IssuanceUnknown)
issue_certificate == issue({"subject", "sans"}) \o issued_outcome \o managed_subject_matches
issue_for_csr ==
    issue({"subject", "sans", "publicKey", "noKey"}) \o issued_outcome \o csr_matches_certificate
(* Infisical has yet to issue it: only the request's identifier is shown.  *)
issue_pending == issue({}) \o Unverified({"form"})
-----------------------------------------------------------------------------
(* What the schemas of the inputs promise to refuse ...                    *)
PageInput == {"offset", "limit"}
CertificateTargetInput == {"projectId", "certificateId"}
CertificatesListInput ==
    {"projectId", "search", "profileIds", "caIds", "applicationIds", "keyAlgorithms"} \cup PageInput
CertificateRenewInput == CertificateTargetInput \cup {"confirm"}
CertificateRevokeInput == CertificateTargetInput \cup {"confirm"}
CertificateRenewalConfigurationUpdateInput == CertificateTargetInput \cup {"days"}
CertificateDeleteInput == CertificateTargetInput \cup {"confirm"}
CertificateImportInput ==
    {"projectId", "friendlyName", "pkiCollectionId", "applicationId", "confirm"}
CertificateMaterialRevealInput == CertificateTargetInput \cup {"confirmReveal"}
CertificateIssueAttributesInput ==
    {"commonName", "organization", "organizationalUnit", "country", "state", "locality",
     "keyUsages", "extendedKeyUsages", "alternativeNames"}
CertificateIssueInput ==
    {"projectId", "profileId", "applicationId", "csr", "ttl", "metadata", "confirm"}
      \cup CertificateIssueAttributesInput
CertificateRequestTargetInput == {"projectId", "requestId"}
CertificateRequestsListInput == {"projectId", "search", "profileIds"} \cup PageInput
CertificateRequestRevealInput == CertificateRequestTargetInput \cup {"confirmReveal"}
CertificateRequestCancelInput == CertificateRequestTargetInput \cup {"confirm"}
Declares ==
    [list_certificates |-> CertificatesListInput, get_certificate |-> CertificateTargetInput,
     import_certificate |-> CertificateImportInput,
     get_certificate_public_material |-> CertificateTargetInput,
     reveal_certificate_bundle |-> CertificateMaterialRevealInput,
     reveal_certificate_private_key |-> CertificateMaterialRevealInput,
     issue_certificate |-> CertificateIssueInput, renew_certificate |-> CertificateRenewInput,
     revoke_certificate |-> CertificateRevokeInput,
     update_certificate_renewal_configuration |-> CertificateRenewalConfigurationUpdateInput,
     delete_certificate |-> CertificateDeleteInput,
     list_certificate_requests |-> CertificateRequestsListInput,
     get_certificate_request |-> CertificateRequestTargetInput,
     reveal_certificate_request_material |-> CertificateRequestRevealInput,
     cancel_certificate_request |-> CertificateRequestCancelInput]

(* ... and what the conversions refuse before the operation is called.     *)
page_request == PageInput
normalize_profile_ids == {"profileIds"}
CertificateListRequest ==
    {"search", "caIds", "applicationIds", "keyAlgorithms"} \cup normalize_profile_ids
CertificateRequestListRequest == {"search", "dates"} \cup normalize_profile_ids
CertificateRenewBeforeDays == {"days"}
CertificateImport ==
    {"certificate", "privateKey", "certificateChain", "friendlyName", "pkiCollectionId",
     "applicationId"}
CertificateIssuanceSan == {"alternativeNames"}
CertificateIssuanceValidity == {"ttl", "window"}
CertificateIssuanceBasicConstraints == {"pathLength"}
CertificateIssuanceMetadata == {"metadata"}
CertificateIssuanceAttributes ==
    {"commonName", "organization", "organizationalUnit", "country", "state", "locality",
     "keyUsages", "extendedKeyUsages"}
validate_nested ==
    CertificateIssuanceSan \cup CertificateIssuanceValidity \cup CertificateIssuanceBasicConstraints
CertificateIssuanceMethod == {"csr"} \cup validate_nested
CertificateIssuance == {"applicationId"} \cup CertificateIssuanceMetadata
CertificateTarget == {"projectId", "certificateId"}
RequestTarget == {"projectId", "requestId"}

dispatch_certificate_workflow ==
    [list_certificates |-> {"projectId"} \cup page_request \cup CertificateListRequest,
     get_certificate |-> CertificateTarget,
     list_certificate_requests |-> {"projectId"} \cup page_request \cup CertificateRequestListRequest,
     get_certificate_request |-> RequestTarget,
     reveal_certificate_request_material |-> {"delivery"} \cup RequestTarget,
     cancel_certificate_request |-> RequestTarget]
dispatch_certificate_lifecycle_workflow ==
    [renew_certificate |-> {"delivery"} \cup CertificateTarget,
     revoke_certificate |-> CertificateTarget,
     update_certificate_renewal_configuration |-> CertificateTarget \cup CertificateRenewBeforeDays,
     delete_certificate |-> CertificateTarget]
(* A certificate request keeps its key: its issue has nothing to deliver.  *)
dispatch_certificate_issue ==
    [issue_certificate |->
        {"projectId", "profileId", "delivery"} \cup CertificateIssuanceAttributes
          \cup CertificateIssuanceMethod \cup CertificateIssuance]
dispatch_certificate_material_workflow ==
    [import_certificate |-> {"confirm", "projectId", "files"} \cup CertificateImport,
     get_certificate_public_material |-> CertificateTarget,
     reveal_certificate_bundle |-> {"delivery"} \cup CertificateTarget,
     reveal_certificate_private_key |-> {"delivery"} \cup CertificateTarget]
Handles == dispatch_certificate_workflow @@ dispatch_certificate_lifecycle_workflow
             @@ dispatch_certificate_issue @@ dispatch_certificate_material_workflow
Delivers == {"issue_certificate", "renew_certificate", "reveal_certificate_bundle",
             "reveal_certificate_private_key", "reveal_certificate_request_material"}

Operations ==
    [list_certificates |-> list_certificates, get_certificate |-> get_certificate,
     import_certificate |-> import_certificate,
     get_certificate_public_material |-> get_certificate_public_material,
     reveal_certificate_bundle |-> reveal_certificate_bundle,
     reveal_certificate_private_key |-> reveal_certificate_private_key,
     issue_certificate |-> issue_certificate, renew_certificate |-> renew_certificate,
     revoke_certificate |-> revoke_certificate,
     update_certificate_renewal_configuration |-> update_certificate_renewal_configuration,
     delete_certificate |-> delete_certificate,
     list_certificate_requests |-> list_certificate_requests,
     get_certificate_request |-> get_certificate_request,
     reveal_certificate_request_material |-> reveal_certificate_request_material,
     cancel_certificate_request |-> cancel_certificate_request]
Alternatives ==
    [issue_for_csr |-> Way("issue_certificate", issue_for_csr),
     issue_pending |-> Way("issue_certificate", issue_pending)]
(* What an issued certificate may be used for, and how long, is not         *)
(* compared with what was asked for; nor is anything of a pending one.     *)
Trusts == [issue_certificate |-> {"answer"} \X NotCompared]

certificate_tools ==
    [o \in DOMAIN dispatch_certificate_workflow \ {"cancel_certificate_request"} |-> "readAudited"]
    @@ [o \in {"get_certificate_public_material", "reveal_certificate_bundle",
               "reveal_certificate_private_key"} |-> "readAudited"]
    @@ [o \in {"issue_certificate", "renew_certificate", "import_certificate",
               "update_certificate_renewal_configuration"} |-> "write"]
    @@ [o \in {"revoke_certificate", "delete_certificate", "cancel_certificate_request"}
         |-> "destroy"]
Tiers == certificate_tools
=============================================================================
