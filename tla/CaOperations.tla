---------------------------- MODULE CaOperations ----------------------------
(***************************************************************************)
(* Certificate authorities and their certificates:                         *)
(* infisical-api/src/pki_certificate_authorities.rs and                    *)
(* pki_certificate_operations.rs, with their tools in infisical-mcp/src/   *)
(* tools.rs.  An authority is addressed by its bare identifier, and so is  *)
(* everything that belongs to one: the certificates of an authority carry  *)
(* no project.  "form" stands for the syntactic checks of an answer,       *)
(* "unique" for those of a list against repeated identifiers.              *)
(***************************************************************************)
EXTENDS ErrorFacts, TLC

P == INSTANCE ProjectOperations

Project(object, asks, answers) == Wire(object, InScope, asks, answers)
Exact(asks, answers) == Wire("ca", ById("ca"), asks, answers)
OfCa(object, asks, answers) == Wire(object, ById("ca"), asks, answers)
-----------------------------------------------------------------------------
(* pki_certificate_authorities.rs *)
InternalCertificateAuthorityConfigurationWire ==
    {"type", "subject", "validity", "algorithm", "parent", "activeCertificate", "crlUrls"}
InternalCertificateAuthorityWire ==
    {"id", "project", "name", "status", "direct", "form"}
      \cup InternalCertificateAuthorityConfigurationWire
CertificateAuthoritySummaryWire == {"project", "unique", "form"}
CreateInternalCertificateAuthorityConfiguration ==
    {"type", "subject", "validity", "algorithm", "crlUrls"}

ListCertificateAuthorities == Project("cas", {"project"}, CertificateAuthoritySummaryWire)
ListInternalCertificateAuthorities ==
    Project("cas", {"project"}, CertificateAuthoritySummaryWire)
GetInternalCertificateAuthority == Exact({"id", "project"}, InternalCertificateAuthorityWire)
(* What is not asked for is compared as well: a creation is not direct, has *)
(* no parent, and an active certificate only if it has a validity; an      *)
(* update or deletion shows everything else as it was read.                *)
Whole == InternalCertificateAuthorityWire \ {"form"}
CreateInternalCertificateAuthorityRequest ==
    {"project", "name", "status", "direct", "parent", "activeCertificate"}
      \cup CreateInternalCertificateAuthorityConfiguration
CreateInternalCertificateAuthority ==
    Project("ca", CreateInternalCertificateAuthorityRequest, InternalCertificateAuthorityWire)
UpdateInternalCertificateAuthority == Exact(Whole, InternalCertificateAuthorityWire)
DeleteInternalCertificateAuthority == Exact(Whole, InternalCertificateAuthorityWire)

CaScope(object, facets) == Require(object, facets, "InvalidCertificateAuthorityScope")
CaForm(object, facets) == Require(object, facets, "InvalidCertificateAuthorityResponse")
summary_from_wire == CaForm("cas", {"form"}) \o CaScope("cas", {"project"})
internal_ca_from_wire(object, scope) == CaForm(object, {"form"}) \o CaScope(object, scope)
created_internal_ca_from_wire ==
    internal_ca_from_wire("answer", {"project"})
      \o CaForm("answer", CreateInternalCertificateAuthorityRequest \ {"project"})
updated_internal_ca_from_wire ==
    internal_ca_from_wire("answer", {"id", "project"})
      \o CaForm("answer", Whole \ {"id", "project"})

ensure_certificate_manager_project ==
    P!get_project_for({"exists", "kind"}) \o CaScope("project", {"exists"})
      \o Require("project", {"kind"}, "InvalidCertificateAuthorityProjectKind")
list_certificate_authorities ==
    Observe(ListCertificateAuthorities) \o summary_from_wire \o CaForm("cas", {"unique"})
list_internal_certificate_authorities ==
    Observe(ListInternalCertificateAuthorities) \o internal_ca_from_wire("cas", {"project"})
      \o CaForm("cas", {"unique"})
get_internal_certificate_authority ==
    Observe(GetInternalCertificateAuthority) \o internal_ca_from_wire("ca", {"id", "project"})
create_internal_certificate_authority ==
    Consent("confirm") \o ensure_certificate_manager_project
      \o Mutate(CreateInternalCertificateAuthority) \o created_internal_ca_from_wire
update_internal_certificate_authority ==
    Consent("confirm") \o get_internal_certificate_authority
      \o Mutate(UpdateInternalCertificateAuthority) \o updated_internal_ca_from_wire
delete_internal_certificate_authority ==
    Consent("confirm") \o get_internal_certificate_authority
      \o Mutate(DeleteInternalCertificateAuthority)
      \o internal_ca_from_wire("answer", {"id", "project"})
      \o CaForm("answer", Whole \ {"id", "project"})
-----------------------------------------------------------------------------
(* pki_certificate_operations.rs *)
CertificateWire == {"certificateId", "version", "validity", "pathLength", "parent", "form"}
SignedIntermediateWire == {"key", "validity", "pathLength", "form"}
ImportReceiptWire == {"id", "form"}
GetCaCsr == OfCa("csr", {}, {"form"})
ListCaCertificates == OfCa("versions", {}, {"version", "unique", "form"})
GetCurrentCaCertificate == OfCa("current", {"certificateId"}, CertificateWire)
GetCaCertificateVersion == OfCa("version", {"certificateId"}, CertificateWire)
ListCaCrls == OfCa("crls", {}, {"unique", "form"})
GenerateCaCertificate == OfCa("certificate", {"validity", "pathLength", "parent"}, CertificateWire)
RenewCaCertificate == OfCa("certificate", {"validity"}, CertificateWire)
SignIntermediateCa ==
    OfCa("certificate", {"key", "validity", "pathLength"}, SignedIntermediateWire)
ImportCaCertificate == OfCa("ca", {"id"}, ImportReceiptWire)

certificate_from_wire(object) == CaForm(object, {"form"})
signed_intermediate_from_wire == CaForm("answer", {"form"})
crl_from_wire == CaForm("crls", {"form"})
import_receipt_from_wire == CaForm("answer", {"id", "form"})
CertificateState(object, facets) ==
    Require(object, facets, "InvalidCertificateAuthorityCertificateState")
has_active_certificate(object) == CertificateState(object, {"status", "activeCertificate"})
awaits_initial_certificate == CertificateState("ca", {"status", "activeCertificate"})

ensure_internal_ca_scope == get_internal_certificate_authority
get_internal_ca_csr == ensure_internal_ca_scope \o Observe(GetCaCsr) \o CaForm("csr", {"form"})
list_internal_ca_certificates ==
    ensure_internal_ca_scope \o Observe(ListCaCertificates)
      \o certificate_from_wire("versions") \o CaForm("versions", {"version", "unique"})
get_internal_ca_certificate ==
    ensure_internal_ca_scope \o Observe(GetCurrentCaCertificate)
      \o certificate_from_wire("current") \o CaScope("current", {"certificateId"})
get_internal_ca_certificate_version ==
    ensure_internal_ca_scope \o Observe(GetCaCertificateVersion)
      \o certificate_from_wire("version") \o CaScope("version", {"certificateId"})
list_internal_ca_crls ==
    ensure_internal_ca_scope \o Observe(ListCaCrls) \o crl_from_wire \o CaForm("crls", {"unique"})

(* A root signs itself; an intermediate is signed by a parent, which is     *)
(* looked at first.  The answers of generate, renew and sign are taken as   *)
(* they come once they have the form of a certificate.                     *)
Parent == Wire("parent", ById("parent"), {"id", "project"}, InternalCertificateAuthorityWire)
generate_root ==
    Consent("confirm") \o ensure_internal_ca_scope \o awaits_initial_certificate
      \o CertificateState("ca", {"type"}) \o Mutate(GenerateCaCertificate)
      \o certificate_from_wire("answer")
generate_internal_ca_certificate ==
    Consent("confirm") \o ensure_internal_ca_scope \o awaits_initial_certificate
      \o CertificateState("ca", {"type"})
      \o Observe(Parent) \o internal_ca_from_wire("parent", {"id", "project"})
      \o has_active_certificate("parent")
      \o Mutate([GenerateCaCertificate EXCEPT !.scope = @ \cup ById("parent")])
      \o certificate_from_wire("answer")
renew_internal_ca_certificate ==
    Consent("confirm") \o ensure_internal_ca_scope \o has_active_certificate("ca")
      \o Mutate(RenewCaCertificate) \o certificate_from_wire("answer")
sign_internal_ca_intermediate ==
    Consent("confirm") \o ensure_internal_ca_scope \o has_active_certificate("ca")
      \o Mutate(SignIntermediateCa) \o signed_intermediate_from_wire
import_internal_ca_certificate ==
    Consent("confirm") \o ensure_internal_ca_scope \o awaits_initial_certificate
      \o Mutate(ImportCaCertificate) \o import_receipt_from_wire
-----------------------------------------------------------------------------
(* What the schemas of the inputs promise to refuse ...                    *)
CaTargetInput == {"projectId", "caId"}
SubjectInput ==
    {"commonName", "organization", "organizationalUnit", "country", "province", "locality"}
CreateInput ==
    {"projectId", "name", "notBefore", "notAfter", "maxPathLength", "crlUrls", "confirm"}
      \cup SubjectInput
UpdateInput == CaTargetInput \cup {"name", "crlUrls", "empty", "confirm"}
DeleteInput == CaTargetInput \cup {"confirm"}
VersionInput == CaTargetInput \cup {"certificateId"}
GenerateInput ==
    CaTargetInput \cup {"notBefore", "notAfter", "maxPathLength", "parentCaId", "confirm"}
RenewInput == CaTargetInput \cup {"notAfter", "confirm"}
SignInput == CaTargetInput \cup {"csr", "notBefore", "notAfter", "maxPathLength", "confirm"}
ImportInput == CaTargetInput \cup {"certificate", "certificateChain", "confirm"}
Declares ==
    [list_certificate_authorities |-> {"projectId"},
     list_internal_certificate_authorities |-> {"projectId"},
     get_internal_certificate_authority |-> CaTargetInput,
     create_internal_certificate_authority |-> CreateInput,
     update_internal_certificate_authority |-> UpdateInput,
     delete_internal_certificate_authority |-> DeleteInput,
     get_internal_ca_csr |-> CaTargetInput, list_internal_ca_certificates |-> CaTargetInput,
     get_internal_ca_certificate |-> CaTargetInput,
     get_internal_ca_certificate_version |-> VersionInput,
     list_internal_ca_crls |-> CaTargetInput,
     generate_internal_ca_certificate |-> GenerateInput,
     renew_internal_ca_certificate |-> RenewInput,
     sign_internal_ca_intermediate |-> SignInput,
     import_internal_ca_certificate |-> ImportInput]

(* ... and what the conversions refuse before the operation is called.     *)
CertificateAuthorityProjectId == {"projectId"}
CertificateAuthorityId == {"caId"}
CertificateAuthorityName == {"name"}
CertificateAuthoritySubject == SubjectInput
validate_validity == {"notBefore", "notAfter"}
validate_max_path_length == {"maxPathLength"}
validate_distribution_points == {"crlUrls"}
InternalCertificateAuthorityCreation ==
    {"algorithm", "hierarchy"} \cup validate_validity \cup validate_max_path_length
      \cup validate_distribution_points
InternalCertificateAuthorityChange == {"empty"} \cup validate_distribution_points
CertificateAuthorityCertificateGeneration ==
    validate_validity \cup validate_max_path_length \cup {"selfParent"}
CertificateAuthorityCertificateRenewal == {"notAfter"}
CertificateAuthoritySigningRequest ==
    {"csr"} \cup validate_validity \cup validate_max_path_length
CertificateAuthorityCertificateImport == {"certificate", "certificateChain"}
CaTarget == CertificateAuthorityProjectId \cup CertificateAuthorityId
create_into_parts ==
    CertificateAuthorityProjectId \cup CertificateAuthorityName \cup CertificateAuthoritySubject
      \cup InternalCertificateAuthorityCreation
update_into_parts ==
    CaTarget \cup CertificateAuthorityName \cup InternalCertificateAuthorityChange
version_into_parts == CaTarget \cup {"certificateId"}
generate_into_parts == CaTarget \cup {"parentCaId"} \cup CertificateAuthorityCertificateGeneration
renew_into_parts == CaTarget \cup CertificateAuthorityCertificateRenewal
sign_into_parts == CaTarget \cup CertificateAuthoritySigningRequest
import_into_parts == CaTarget \cup CertificateAuthorityCertificateImport

dispatch_certificate_authority_workflow ==
    [list_certificate_authorities |-> CertificateAuthorityProjectId,
     list_internal_certificate_authorities |-> CertificateAuthorityProjectId,
     get_internal_certificate_authority |-> CaTarget,
     create_internal_certificate_authority |-> create_into_parts,
     update_internal_certificate_authority |-> update_into_parts,
     delete_internal_certificate_authority |-> CaTarget]
dispatch_internal_ca_certificate_read ==
    [get_internal_ca_csr |-> CaTarget, list_internal_ca_certificates |-> CaTarget,
     get_internal_ca_certificate |-> CaTarget,
     get_internal_ca_certificate_version |-> version_into_parts,
     list_internal_ca_crls |-> CaTarget]
dispatch_internal_ca_certificate_mutation ==
    [generate_internal_ca_certificate |-> generate_into_parts,
     renew_internal_ca_certificate |-> renew_into_parts,
     sign_internal_ca_intermediate |-> sign_into_parts,
     import_internal_ca_certificate |-> import_into_parts]
Handles == dispatch_certificate_authority_workflow @@ dispatch_internal_ca_certificate_read
             @@ dispatch_internal_ca_certificate_mutation
Delivers == {}

Operations ==
    [list_certificate_authorities |-> list_certificate_authorities,
     list_internal_certificate_authorities |-> list_internal_certificate_authorities,
     get_internal_certificate_authority |-> get_internal_certificate_authority,
     create_internal_certificate_authority |-> create_internal_certificate_authority,
     update_internal_certificate_authority |-> update_internal_certificate_authority,
     delete_internal_certificate_authority |-> delete_internal_certificate_authority,
     get_internal_ca_csr |-> get_internal_ca_csr,
     list_internal_ca_certificates |-> list_internal_ca_certificates,
     get_internal_ca_certificate |-> get_internal_ca_certificate,
     get_internal_ca_certificate_version |-> get_internal_ca_certificate_version,
     list_internal_ca_crls |-> list_internal_ca_crls,
     generate_internal_ca_certificate |-> generate_internal_ca_certificate,
     renew_internal_ca_certificate |-> renew_internal_ca_certificate,
     sign_internal_ca_intermediate |-> sign_internal_ca_intermediate,
     import_internal_ca_certificate |-> import_internal_ca_certificate]
Alternatives ==
    [generate_root_ca_certificate |-> Way("generate_internal_ca_certificate", generate_root)]
(* Answers handed on although they could be compared with the call.        *)
Trusts ==
    [generate_internal_ca_certificate |-> {"answer"} \X {"validity", "pathLength", "parent"},
     renew_internal_ca_certificate |-> {<<"answer", "validity">>},
     sign_internal_ca_intermediate |-> {"answer"} \X {"key", "validity", "pathLength"}]


certificate_authority_tools ==
    [o \in DOMAIN dispatch_internal_ca_certificate_read
             \cup {"list_certificate_authorities", "list_internal_certificate_authorities",
                   "get_internal_certificate_authority"} |-> "readAudited"]
    @@ [o \in {"create_internal_certificate_authority", "sign_internal_ca_intermediate"}
         |-> "write"]
    @@ [o \in {"update_internal_certificate_authority", "delete_internal_certificate_authority",
               "generate_internal_ca_certificate", "renew_internal_ca_certificate",
               "import_internal_ca_certificate"} |-> "destroy"]
Tiers == certificate_authority_tools
=============================================================================
