-------------------------- MODULE SignerOperations --------------------------
(***************************************************************************)
(* Code signers and their governance: infisical-api/src/code_signers.rs    *)
(* and code_signer_governance.rs, with their tools in infisical-mcp/src/   *)
(* tools.rs.  Everything of a signer is addressed by the signer's bare      *)
(* identifier, and every governance operation looks at the signer first.   *)
(***************************************************************************)
EXTENDS ErrorFacts, TLC

C == INSTANCE CaOperations
X == INSTANCE CertificateOperations

OfSigner(object, asks, answers) == Wire(object, ById("signer"), asks, answers)
-----------------------------------------------------------------------------
(* code_signers.rs *)
CodeSigner == {"id", "project", "name", "description", "status", "certificate", "ca",
               "commonName", "ttl", "renewBefore", "algorithm", "policy"}
CodeSignerWire == CodeSigner \cup {"active", "form"}
ListSigners == Wire("signers", InScope, {"project", "page", "unique", "search"},
                    {"project", "page", "unique", "search", "form"})
GetSigner == OfSigner("signer", {"id", "project"}, CodeSignerWire)
GetSignerPublicKey == OfSigner("publicKey", {"algorithm"}, {"algorithm", "form"})
ExportCertificateWire == {"name", "serial", "kind"}
ExportSignerCertificate ==
    OfSigner("export", ExportCertificateWire, {"key", "form"} \cup ExportCertificateWire)
CreateSignerRequest ==
    {"project", "name", "description", "status", "certificate", "ca", "commonName", "ttl",
     "renewBefore", "algorithm", "active"}
CreateSigner(scope) == Wire("signer", scope, CreateSignerRequest, CodeSignerWire)
UpdateSigner == OfSigner("signer", CodeSigner, CodeSignerWire)
DeleteSigner == OfSigner("signer", CodeSigner, CodeSignerWire)
UpdateSignerStatus == OfSigner("signer", CodeSigner, CodeSignerWire)
ReissueSignerCertificate ==
    Wire("signer", ById("signer") \cup ById("ca"), {"active"} \cup CodeSigner, CodeSignerWire)
SignData == OfSigner("signature", {"id", "algorithm"}, {"id", "algorithm", "form"})

SignerFits(object, facets) == Require(object, facets, "InvalidCodeSignerResponse")
CertificateState(object, facets) == Require(object, facets, "InvalidCodeSignerCertificateState")
signer_from_wire(object, scope) == SignerFits(object, {"form"} \cup scope)
Exact(object) == signer_from_wire(object, {"id", "project"})
created_signer_matches == SignerFits("answer", CreateSignerRequest \ {"project"})
updated_signer_matches ==
    SignerFits("answer", {"name", "description", "renewBefore", "status", "certificate", "ca",
                          "algorithm"})
status_updated_signer_matches ==
    SignerFits("answer", {"status", "certificate", "ca", "algorithm"})
reissued_signer_matches ==
    SignerFits("answer", {"status", "ca", "active", "commonName", "ttl", "certificate",
                          "algorithm"})
validate_public_key_response == SignerFits("publicKey", {"form", "algorithm"})
validated_exported_certificate == SignerFits("export", {"form"} \cup ExportCertificateWire)
signature_matches == SignerFits("answer", {"id", "algorithm", "form"})

SigningCertificate == {"status", "validity", "kind", "algorithm", "usage"}
preflight_existing_signer_certificate ==
    X!certificate_search({"key"} \cup SigningCertificate)
      \o Require("certificate", {"key"}, "MissingCodeSignerCertificatePrivateKey")
      \o CertificateState("certificate", SigningCertificate)
preflight_internal_signer_ca ==
    C!get_internal_certificate_authority \o CertificateState("ca", {"status"})

list_code_signers ==
    Observe(ListSigners) \o SignerFits("signers", {"page"})
      \o signer_from_wire("signers", {"project"})
      \o Require("signers", {"unique", "search"}, "InvalidCodeSignerScope")
get_code_signer == Observe(GetSigner) \o Exact("signer")
created(preflight, scope) ==
    Consent("confirm") \o C!ensure_certificate_manager_project \o preflight
      \o Mutate(CreateSigner(scope)) \o signer_from_wire("answer", {"project"})
      \o created_signer_matches
create_code_signer == created(preflight_internal_signer_ca, ById("ca"))
create_from_certificate ==
    created(preflight_existing_signer_certificate, ById("certificate"))
renew_before_fits == CertificateState("signer", {"ttl"})
update_code_signer ==
    Consent("confirm") \o get_code_signer \o renew_before_fits
      \o Mutate(UpdateSigner) \o Exact("answer") \o updated_signer_matches
delete_code_signer ==
    Consent("confirm") \o get_code_signer \o Mutate(DeleteSigner) \o Exact("answer")
status_transition_is_allowed == Require("signer", {"status", "certificate"}, "InvalidCodeSignerState")
update_code_signer_status ==
    Consent("confirm") \o get_code_signer \o status_transition_is_allowed
      \o Mutate(UpdateSignerStatus) \o Exact("answer") \o status_updated_signer_matches
(* Only a signer that never had a certificate may change its name or life.  *)
reissue_expectations == CertificateState("signer", {"status", "commonName", "renewBefore"})
reissue_code_signer_certificate ==
    Consent("confirm") \o get_code_signer \o preflight_internal_signer_ca
      \o reissue_expectations \o Mutate(ReissueSignerCertificate)
      \o Exact("answer") \o reissued_signer_matches
export_code_signer_certificate ==
    get_code_signer \o CertificateState("signer", {"certificate"})
      \o Observe(ExportSignerCertificate) \o validated_exported_certificate
get_code_signer_public_key ==
    get_code_signer \o CertificateState("signer", {"certificate"})
      \o Observe(GetSignerPublicKey) \o validate_public_key_response
      \o Observe(ExportSignerCertificate) \o validated_exported_certificate
      \o SignerFits("export", {"key"})
signer_can_sign == Require("signer", {"status", "certificate", "active", "algorithm"},
                           "InvalidCodeSignerState")
code_signer_sign ==
    Consent("confirm") \o Check({"digest"}, "InvalidCodeSigningInput") \o get_code_signer
      \o signer_can_sign \o Mutate(SignData) \o signature_matches
-----------------------------------------------------------------------------
(* code_signer_governance.rs: all its own errors are of one kind.           *)
MembershipWire == {"membership", "signer", "kind", "member", "role", "form"}
ListSignerMembers(object) ==
    OfSigner(object, {"signer", "kind", "unique"},
             {"signer", "kind", "unique", "member", "role", "approvers", "form"})
ListEffectiveSignerMembers(object) ==
    OfSigner(object, {"kind", "unique"}, {"kind", "unique", "grantee", "form"})
GetSignerPermissions == OfSigner("permissions", {}, {"form"})
PolicyStep == {"steps", "constraints", "approvers", "notify"}
PolicyWire == {"id", "signer", "form"} \cup PolicyStep
GetSignerApprovalPolicy == OfSigner("policy", {"signer"}, PolicyWire)
ListSignerApprovalRequests ==
    OfSigner("requests", {"page", "signer", "project", "statuses"},
             {"page", "signer", "project", "statuses", "form"})
ListSignerSigningOperations ==
    OfSigner("operations", {"page", "signer", "project", "status"},
             {"page", "signer", "project", "status", "form"})
AddSignerMember == OfSigner("membership", {"signer", "kind", "member", "role"}, MembershipWire)
(* Users are added by the list, of which some may be skipped.              *)
AddUserMemberRequest ==
    OfSigner("membership", {"signer", "kind", "member", "role", "one"},
             {"one"} \cup MembershipWire)
UpdateSignerMemberRole ==
    OfSigner("membership", {"membership", "signer", "kind", "member", "role"}, MembershipWire)
RemoveSignerMember == OfSigner("membership", {"membership", "signer"}, {"membership", "signer"})
ReplaceSignerApprovalPolicy == OfSigner("policy", {"id", "signer"} \cup PolicyStep, PolicyWire)
ApprovalRequest == {"project", "signer", "policy", "status", "justification", "limits"}
CreateSignerApprovalRequest ==
    OfSigner("request", ApprovalRequest, {"form"} \cup ApprovalRequest)
PreApproval == {"requester", "request", "grantee", "grantStatus", "grantLimits"} \cup ApprovalRequest
PreApproveSignerRequest == OfSigner("request", PreApproval, {"form"} \cup PreApproval)
RevokeSignerApprovalRequest == OfSigner("request", {"request"}, {"request"})

Governed(object, facets) == Require(object, facets, "InvalidCodeSignerGovernanceResponse")
memberships_from_wire(object) == Governed(object, {"form", "signer", "kind", "unique"})
effective_members_from_wire(object) == Governed(object, {"form", "kind", "unique"})
permissions_from_wire == Governed("permissions", {"form"})
policy_from_wire(object) == Governed(object, {"form", "signer"})
policy_matches_replacement == Governed("answer", PolicyStep)
approval_request_from_wire == Governed("answer", {"form", "project", "signer"})
request_matches_creation == Governed("answer", {"justification", "limits"})
approval_grant_from_wire == Governed("answer", {"request", "grantee", "grantStatus", "grantLimits"})
membership_from_wire == Governed("answer", {"form", "signer", "kind", "member"})
approval_requests_page_from_wire ==
    Governed("requests", {"page"}) \o Governed("requests", {"form", "signer", "project"})
      \o Governed("requests", {"statuses"})
signing_operations_page_from_wire ==
    Governed("operations", {"page"})
      \o Governed("operations", {"form", "signer", "project", "status"})

members(object) ==
    get_code_signer \o Observe(ListSignerMembers(object)) \o memberships_from_wire(object)
effective(object) ==
    get_code_signer \o Observe(ListEffectiveSignerMembers(object))
      \o effective_members_from_wire(object)
list_code_signer_members == members("members")
list_code_signer_effective_members == effective("members")
get_code_signer_permissions ==
    get_code_signer \o Observe(GetSignerPermissions) \o permissions_from_wire
get_code_signer_approval_policy ==
    get_code_signer \o Observe(GetSignerApprovalPolicy) \o policy_from_wire("policy")

(* The approvers must be members, and more than auditors, when the lists   *)
(* are read: each list only if the new policy names approvers of its kind. *)
approvers_are_active_members(object) == Governed(object, {"approvers"})
replaced(preflight) ==
    Consent("confirm") \o get_code_signer_approval_policy \o preflight
      \o Mutate(ReplaceSignerApprovalPolicy) \o policy_from_wire("answer")
      \o Governed("answer", {"id"}) \o policy_matches_replacement
replace_code_signer_approval_policy ==
    replaced(members("users") \o members("groups") \o approvers_are_active_members("users")
               \o approvers_are_active_members("groups"))
replace_with_user_approvers == replaced(members("users") \o approvers_are_active_members("users"))
replace_with_group_approvers ==
    replaced(members("groups") \o approvers_are_active_members("groups"))
replace_with_direct_signing == replaced(<<>>)

list_code_signer_approval_requests ==
    get_code_signer \o Observe(ListSignerApprovalRequests) \o approval_requests_page_from_wire
requested_limits_fit_policy == Governed("policy", {"steps", "constraints"})
create_code_signer_approval_request ==
    Consent("confirm") \o get_code_signer_approval_policy \o requested_limits_fit_policy
      \o Mutate(CreateSignerApprovalRequest) \o approval_request_from_wire
      \o Governed("answer", {"status", "policy"}) \o request_matches_creation
pre_approve_code_signer_request ==
    Consent("confirm") \o get_code_signer_approval_policy \o requested_limits_fit_policy
      \o effective("grantees") \o Governed("grantees", {"grantee"})
      \o Mutate(PreApproveSignerRequest) \o approval_request_from_wire
      \o Governed("answer", {"status", "policy", "requester"}) \o request_matches_creation
      \o approval_grant_from_wire
(* The request is not looked up: its signer is in the path it is sent to.   *)
revoke_code_signer_approval_request ==
    Consent("confirm") \o get_code_signer \o Mutate(RevokeSignerApprovalRequest)
      \o Governed("answer", {"request"})
list_code_signer_signing_operations ==
    get_code_signer \o Observe(ListSignerSigningOperations) \o signing_operations_page_from_wire
add_code_signer_member ==
    Consent("confirm") \o get_code_signer \o Mutate(AddSignerMember)
      \o membership_from_wire \o Governed("answer", {"role"})
add_user_member ==
    Consent("confirm") \o get_code_signer \o Mutate(AddUserMemberRequest)
      \o Governed("answer", {"one"}) \o membership_from_wire \o Governed("answer", {"role"})
update_code_signer_member_role ==
    Consent("confirm") \o members("members") \o Governed("members", {"member"})
      \o Governed("members", {"role"}) \o Mutate(UpdateSignerMemberRole)
      \o membership_from_wire \o Governed("answer", {"membership", "role"})
remove_code_signer_member ==
    Consent("confirm") \o members("members") \o Governed("members", {"member"})
      \o Mutate(RemoveSignerMember) \o Governed("answer", {"membership", "signer"})
-----------------------------------------------------------------------------
(* What the schemas of the inputs promise to refuse ...                    *)
PageInput == {"offset", "limit"}
CodeSignerTargetInput == {"projectId", "signerId"}
CodeSignersListInput == {"projectId", "search"} \cup PageInput
CodeSignerCertificateSourceInput ==
    {"certificateId", "caId", "commonName", "certificateTtlDays", "certificateRenewBeforeDays"}
CodeSignerCreateInput ==
    {"projectId", "name", "description", "confirm"} \cup CodeSignerCertificateSourceInput
CodeSignerUpdateInput ==
    CodeSignerTargetInput \cup {"name", "description", "certificateRenewBeforeDays", "confirm"}
CodeSignerDeleteInput == CodeSignerTargetInput \cup {"confirm"}
CodeSignerStatusUpdateInput == CodeSignerTargetInput \cup {"confirm"}
CodeSignerCertificateReissueInput ==
    CodeSignerTargetInput \cup {"caId", "commonName", "certificateTtlDays", "confirm"}
CodeSigningClientMetadataInput == {"tool", "hostname", "reportedIp"}
CodeSignerSignInput ==
    CodeSignerTargetInput \cup {"data", "confirm"} \cup CodeSigningClientMetadataInput
CodeSignerMemberRoleMutationInput == CodeSignerTargetInput \cup {"memberId", "confirm"}
CodeSignerMemberRemovalInput == CodeSignerTargetInput \cup {"memberId", "confirm"}
CodeSignerApprovalPolicyStepInput ==
    {"stepNumber", "stepName", "requiredApprovals", "approverUserIds", "approverGroupIds"}
CodeSignerApprovalPolicyReplaceInput ==
    CodeSignerTargetInput \cup CodeSignerApprovalPolicyStepInput
      \cup {"steps", "maxSignings", "maxWindowDuration", "confirm"}
CodeSignerApprovalRequestsListInput == CodeSignerTargetInput \cup {"statuses"} \cup PageInput
CodeSignerApprovalRequestCreateInput ==
    CodeSignerTargetInput \cup {"justification", "requestedSignings", "confirm"}
CodeSignerPreApprovalInput == CodeSignerApprovalRequestCreateInput \cup {"granteeId"}
CodeSignerApprovalRequestRevokeInput == CodeSignerTargetInput \cup {"requestId", "confirm"}
CodeSignerOperationsListInput == CodeSignerTargetInput \cup PageInput
Declares ==
    [list_code_signers |-> CodeSignersListInput, get_code_signer |-> CodeSignerTargetInput,
     create_code_signer |-> CodeSignerCreateInput, update_code_signer |-> CodeSignerUpdateInput,
     delete_code_signer |-> CodeSignerDeleteInput,
     update_code_signer_status |-> CodeSignerStatusUpdateInput,
     reissue_code_signer_certificate |-> CodeSignerCertificateReissueInput,
     export_code_signer_certificate |-> CodeSignerTargetInput,
     get_code_signer_public_key |-> CodeSignerTargetInput,
     code_signer_sign |-> CodeSignerSignInput,
     list_code_signer_members |-> CodeSignerTargetInput,
     list_code_signer_effective_members |-> CodeSignerTargetInput,
     get_code_signer_permissions |-> CodeSignerTargetInput,
     get_code_signer_approval_policy |-> CodeSignerTargetInput,
     replace_code_signer_approval_policy |-> CodeSignerApprovalPolicyReplaceInput,
     list_code_signer_approval_requests |-> CodeSignerApprovalRequestsListInput,
     create_code_signer_approval_request |-> CodeSignerApprovalRequestCreateInput,
     pre_approve_code_signer_request |-> CodeSignerPreApprovalInput,
     revoke_code_signer_approval_request |-> CodeSignerApprovalRequestRevokeInput,
     list_code_signer_signing_operations |-> CodeSignerOperationsListInput,
     add_code_signer_member |-> CodeSignerMemberRoleMutationInput,
     update_code_signer_member_role |-> CodeSignerMemberRoleMutationInput,
     remove_code_signer_member |-> CodeSignerMemberRemovalInput]

(* ... and what the conversions refuse before the operation is called.     *)
page_request == PageInput
into_parts == {"projectId", "signerId"}
validate_description == {"description"}
validate_certificate_settings == {"certificateTtlDays", "certificateRenewBeforeDays", "algorithm"}
internal_ca == {"commonName"} \cup validate_certificate_settings
CodeSignerCertificateSource == {"certificateId", "caId"} \cup internal_ca
CodeSignerCreation == {"name"} \cup validate_description \cup CodeSignerCertificateSource
CodeSignerChange ==
    {"empty", "name", "clear", "certificateRenewBeforeDays"} \cup validate_description
CodeSignerCertificateReissue == {"caId", "commonName", "certificateTtlDays"}
CodeSigningData == {"data"}
CodeSigningClientMetadata == {"tool", "hostname", "reportedIp", "noMetadata"}
code_signer_member_coordinates == into_parts \cup {"memberId"}
CodeSignerApprovalPolicyStepChange == CodeSignerApprovalPolicyStepInput
CodeSignerApprovalPolicyReplacement ==
    {"steps", "maxSignings", "maxWindowDuration", "noLimit"}
      \cup CodeSignerApprovalPolicyStepChange
code_signer_request_creation == {"justification", "requestedSignings", "window", "noLimit"}

dispatch_code_signer_read ==
    [list_code_signers |-> {"projectId", "search"} \cup page_request,
     get_code_signer |-> into_parts, export_code_signer_certificate |-> into_parts,
     get_code_signer_public_key |-> into_parts]
dispatch_code_signer_mutation ==
    [create_code_signer |-> {"projectId"} \cup CodeSignerCreation,
     update_code_signer |-> into_parts \cup CodeSignerChange,
     delete_code_signer |-> into_parts, update_code_signer_status |-> into_parts,
     reissue_code_signer_certificate |-> into_parts \cup CodeSignerCertificateReissue,
     code_signer_sign |-> into_parts \cup CodeSigningData \cup CodeSigningClientMetadata]
dispatch_code_signer_governance_read ==
    [list_code_signer_members |-> into_parts, list_code_signer_effective_members |-> into_parts,
     get_code_signer_permissions |-> into_parts, get_code_signer_approval_policy |-> into_parts,
     list_code_signer_approval_requests |-> into_parts \cup {"statuses"} \cup page_request,
     list_code_signer_signing_operations |-> into_parts \cup page_request]
dispatch_code_signer_governance_mutation ==
    [add_code_signer_member |-> code_signer_member_coordinates,
     update_code_signer_member_role |-> code_signer_member_coordinates,
     remove_code_signer_member |-> code_signer_member_coordinates,
     replace_code_signer_approval_policy |-> into_parts \cup CodeSignerApprovalPolicyReplacement,
     create_code_signer_approval_request |-> into_parts \cup code_signer_request_creation,
     pre_approve_code_signer_request |->
        into_parts \cup {"granteeId"} \cup code_signer_request_creation,
     revoke_code_signer_approval_request |-> into_parts \cup {"requestId"}]
Handles == dispatch_code_signer_read @@ dispatch_code_signer_mutation
             @@ dispatch_code_signer_governance_read @@ dispatch_code_signer_governance_mutation
Delivers == {}

SignerCalls ==
    [list_code_signers |-> list_code_signers, get_code_signer |-> get_code_signer,
     create_code_signer |-> create_code_signer, update_code_signer |-> update_code_signer,
     delete_code_signer |-> delete_code_signer,
     update_code_signer_status |-> update_code_signer_status,
     reissue_code_signer_certificate |-> reissue_code_signer_certificate,
     export_code_signer_certificate |-> export_code_signer_certificate,
     get_code_signer_public_key |-> get_code_signer_public_key,
     code_signer_sign |-> code_signer_sign]
GovernanceCalls ==
    [list_code_signer_members |-> list_code_signer_members,
     list_code_signer_effective_members |-> list_code_signer_effective_members,
     get_code_signer_permissions |-> get_code_signer_permissions,
     get_code_signer_approval_policy |-> get_code_signer_approval_policy,
     replace_code_signer_approval_policy |-> replace_code_signer_approval_policy,
     list_code_signer_approval_requests |-> list_code_signer_approval_requests,
     create_code_signer_approval_request |-> create_code_signer_approval_request,
     pre_approve_code_signer_request |-> pre_approve_code_signer_request,
     revoke_code_signer_approval_request |-> revoke_code_signer_approval_request,
     list_code_signer_signing_operations |-> list_code_signer_signing_operations,
     add_code_signer_member |-> add_code_signer_member,
     update_code_signer_member_role |-> update_code_signer_member_role,
     remove_code_signer_member |-> remove_code_signer_member]
Operations == SignerCalls @@ GovernanceCalls
Alternatives ==
    [create_from_certificate |-> Way("create_code_signer", create_from_certificate),
     add_user_member |-> Way("add_code_signer_member", add_user_member),
     replace_with_user_approvers |->
        Way("replace_code_signer_approval_policy", replace_with_user_approvers),
     replace_with_group_approvers |->
        Way("replace_code_signer_approval_policy", replace_with_group_approvers),
     replace_with_direct_signing |->
        Way("replace_code_signer_approval_policy", replace_with_direct_signing)]
(* What a change leaves alone is compared only in part with what was read. *)
Trusts ==
    [update_code_signer |-> {"answer"} \X {"commonName", "ttl", "policy"},
     update_code_signer_status |->
        {"answer"} \X {"name", "description", "commonName", "ttl", "renewBefore", "policy"},
     reissue_code_signer_certificate |->
        {"answer"} \X {"name", "description", "renewBefore", "policy"},
     delete_code_signer |-> {"answer"} \X (CodeSigner \ {"id", "project"})]

code_signer_tools ==
    [o \in DOMAIN dispatch_code_signer_read \cup DOMAIN dispatch_code_signer_governance_read
        |-> "readAudited"]
    @@ [o \in {"delete_code_signer", "remove_code_signer_member",
               "replace_code_signer_approval_policy", "revoke_code_signer_approval_request"}
         |-> "destroy"]
    @@ [o \in DOMAIN dispatch_code_signer_mutation
               \cup DOMAIN dispatch_code_signer_governance_mutation |-> "write"]
Tiers == code_signer_tools
=============================================================================
