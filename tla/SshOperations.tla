--------------------------- MODULE SshOperations ---------------------------
(***************************************************************************)
(* SSH certificate authorities, templates, certificates, hosts and groups: *)
(* infisical-api/src/ssh_*.rs and their tools in infisical-mcp/src/        *)
(* tools.rs.  An operation is named as its async function.  Everything but *)
(* a list and a creation is addressed by a bare identifier; a template     *)
(* does not show its project and is bound to it through its authority.     *)
(* "form" stands for the syntactic checks of an answer, "unique" for those *)
(* of a list against repeated identifiers.                                 *)
(***************************************************************************)
EXTENDS ErrorFacts, TLC

Project(object, asks, answers) == Wire(object, InScope, asks, answers)
Exact(object, asks, answers) == Wire(object, ById(object), asks, answers)
InCa == {<<"template", "ca">>} \cup ById("ca")
-----------------------------------------------------------------------------
(* ssh_certificate_authorities.rs *)
SshCaWire == {"id", "project", "name", "status", "algorithm", "source", "publicKey", "form"}
ListSshCertificateAuthorities == Project("cas", {"project"}, {"project", "unique", "form"})
GetSshCertificateAuthority == Exact("ca", {"id", "project"}, SshCaWire)
GetSshCertificateAuthorityPublicKey == Exact("caKey", {}, {"publicKey", "form"})
CreateSshCertificateAuthority ==
    Project("ca", {"project", "name", "status", "algorithm", "source", "publicKey"}, SshCaWire)
ReplaceSshCertificateAuthority ==
    Exact("ca", {"id", "project", "name", "status", "algorithm", "source", "publicKey"}, SshCaWire)
DeleteSshCertificateAuthority == Exact("ca", SshCaWire \ {"publicKey", "form"}, SshCaWire)

CaScope(object) ==
    Require(object, {"id", "project"}, "InvalidSshCertificateAuthorityScope")
CaForm(object) == Require(object, {"form"}, "InvalidSshCertificateAuthorityResponse")
summary_from_wire(object) == CaScope(object) \o CaForm(object)
authority_from_wire(object) == CaScope(object) \o CaForm(object)
CaFits(facets) == Verify(facets, "InvalidSshCertificateAuthorityResponse")

list_ssh_certificate_authorities ==
    Observe(ListSshCertificateAuthorities)
      \o Require("cas", {"project"}, "InvalidSshCertificateAuthorityScope")
      \o Require("cas", {"form", "unique"}, "InvalidSshCertificateAuthorityResponse")
get_ssh_certificate_authority == Observe(GetSshCertificateAuthority) \o authority_from_wire("ca")
get_ssh_certificate_authority_public_key ==
    get_ssh_certificate_authority \o Observe(GetSshCertificateAuthorityPublicKey)
      \o Require("caKey", {"form", "publicKey"}, "InvalidSshCertificateAuthorityResponse")
create_ssh_certificate_authority ==
    Consent("confirm") \o Mutate(CreateSshCertificateAuthority)
      \o Verify({"project"}, "InvalidSshCertificateAuthorityScope") \o CaForm("answer")
      \o CaFits({"name", "status", "source", "algorithm", "publicKey"})
replace_ssh_certificate_authority ==
    Consent("confirm") \o get_ssh_certificate_authority
      \o Mutate(ReplaceSshCertificateAuthority) \o authority_from_wire("answer")
      \o CaFits({"name", "status", "algorithm", "source", "publicKey"})
delete_ssh_certificate_authority ==
    Consent("confirm") \o get_ssh_certificate_authority
      \o Mutate(DeleteSshCertificateAuthority) \o summary_from_wire("answer")
      \o CaFits({"name", "status", "algorithm", "source"})
-----------------------------------------------------------------------------
(* ssh_certificate_templates.rs *)
SshCertificateTemplateWire == {"id", "ca", "status", "policy", "form"}
ListProjectSshCertificateTemplates == Project("templates", {"project"}, {"unique", "form"})
ListSshCaCertificateTemplates ==
    Wire("templates", ById("ca"), {"ca"}, {"ca", "unique", "form"})
GetSshCertificateTemplate == Wire("template", InCa, {"id", "ca"}, SshCertificateTemplateWire)
CreateSshCertificateTemplate ==
    Wire("template", ById("ca"), {"ca", "status", "policy"}, SshCertificateTemplateWire)
ReplaceSshCertificateTemplate ==
    Wire("template", InCa, {"id", "ca", "status", "policy"}, SshCertificateTemplateWire)
DeleteSshCertificateTemplate ==
    Wire("template", InCa, {"id", "ca", "status", "policy"}, SshCertificateTemplateWire)

template_from_wire(object, scope) ==
    Require(object, scope, "InvalidSshCertificateTemplateScope")
      \o Require(object, {"form"}, "InvalidSshCertificateTemplateResponse")
list_from_wire(scope) ==
    template_from_wire("templates", scope)
      \o Require("templates", {"unique"}, "InvalidSshCertificateTemplateResponse")
template_matches_policy ==
    Verify({"status", "policy"}, "InvalidSshCertificateTemplateResponse")
CaIsActive(object) == Require(object, {"status"}, "InvalidSshCertificateAuthorityState")

preflight_ssh_certificate_template ==
    get_ssh_certificate_authority \o Observe(GetSshCertificateTemplate)
      \o template_from_wire("template", {"id", "ca"})
list_ssh_certificate_templates ==
    Observe(ListProjectSshCertificateTemplates) \o list_from_wire({})
list_ssh_certificate_authority_templates ==
    get_ssh_certificate_authority \o Observe(ListSshCaCertificateTemplates)
      \o list_from_wire({"ca"})
get_ssh_certificate_template == preflight_ssh_certificate_template
create_ssh_certificate_template ==
    Consent("confirm") \o get_ssh_certificate_authority \o CaIsActive("ca")
      \o Mutate(CreateSshCertificateTemplate) \o template_from_wire("answer", {"ca"})
      \o template_matches_policy
replace_ssh_certificate_template ==
    Consent("confirm") \o get_ssh_certificate_template \o Mutate(ReplaceSshCertificateTemplate)
      \o template_from_wire("answer", {"id", "ca"}) \o template_matches_policy
delete_ssh_certificate_template ==
    Consent("confirm") \o get_ssh_certificate_template \o Mutate(DeleteSshCertificateTemplate)
      \o template_from_wire("answer", {"id", "ca"})
      \o Verify({"status", "policy"}, "InvalidSshCertificateTemplateResponse")
-----------------------------------------------------------------------------
(* ssh_certificates.rs.  The policy of the template is another fact of it   *)
(* for each way in which it can refuse the request.                        *)
Refusals == {"type", "principals", "customKeyId", "maxTTL"}
ReadTemplate == [GetSshCertificateTemplate EXCEPT !.answers = @ \cup Refusals]
SignedSshCertificateWire ==
    {"serial", "type", "principals", "publicKey", "ca", "keyId", "extensions", "validity"}
IssuedSshCertificateWire == SignedSshCertificateWire \cup {"algorithm", "keyPair"}
SignSshCertificate ==
    Wire("certificate", InCa, SignedSshCertificateWire, SignedSshCertificateWire)
IssueSshCertificate ==
    Wire("certificate", InCa, IssuedSshCertificateWire, IssuedSshCertificateWire)

validate_request_policy ==
    CaIsActive("ca")
      \o Require("template", {"status"}, "InvalidSshCertificateTemplateState")
      \o Require("template", {"type"}, "SshCertificateTypeNotAllowed")
      \o Require("template", {"principals"}, "SshCertificatePrincipalNotAllowed")
      \o Require("template", {"customKeyId"}, "SshCertificateCustomKeyIdNotAllowed")
      \o Require("template", {"maxTTL"}, "SshCertificateTtlNotAllowed")
preflight_for_request ==
    get_ssh_certificate_authority \o Observe(ReadTemplate)
      \o template_from_wire("template", {"id", "ca"}) \o validate_request_policy
validate_signed_certificate ==
    Verify(SignedSshCertificateWire, "InvalidSshCertificateResponse")
validate_issued_key_pair == Verify({"algorithm", "keyPair"}, "InvalidSshCertificateResponse")

sign_ssh_certificate ==
    Consent("confirm") \o preflight_for_request \o Mutate(SignSshCertificate)
      \o validate_signed_certificate
issue_ssh_certificate ==
    Consent("confirmReveal") \o preflight_for_request \o Mutate(IssueSshCertificate)
      \o validate_issued_key_pair \o validate_signed_certificate
-----------------------------------------------------------------------------
(* ssh_hosts.rs *)
SshHostWire == {"id", "project", "hostname", "policy", "cas", "form"}
SshHostGroupWire == {"id", "project", "policy", "form"}
MembershipMutationWire == {"id", "project", "hostname", "form"}
ListHosts == Project("hosts", {"project"}, {"project", "unique", "form"})
GetHost == Exact("host", {"id", "project"}, SshHostWire)
LinkedCaPublicKey == Wire("caKey", ById("host"), {}, {"publicKey", "form"})
ListGroups == Project("groups", {"project"}, {"project", "unique", "form"})
GetGroup == Exact("group", {"id", "project"}, SshHostGroupWire)
ListGroupMembers ==
    Wire("members", ById("group"), {"filter"}, {"filter", "unique", "form"})
CreateHost == Project("host", {"project", "hostname", "policy", "cas"}, SshHostWire)
ReplaceHost == Exact("host", {"id", "project", "hostname", "policy", "cas"}, SshHostWire)
DeleteHost == Exact("host", {"id", "project", "hostname", "policy", "cas"}, SshHostWire)
IssueHostCertificate ==
    Wire("certificate", ById("host"), SignedSshCertificateWire, SignedSshCertificateWire)
CreateGroup == Project("group", {"project", "policy"}, SshHostGroupWire)
ReplaceGroup == Exact("group", {"id", "project", "policy"}, SshHostGroupWire)
DeleteGroup == Exact("group", {"id", "project", "policy"}, SshHostGroupWire)
GroupMembership ==
    Wire("member", ById("group") \cup ById("host"), {"id", "project", "hostname"},
         MembershipMutationWire)

host_from_wire(object, scope) ==
    Require(object, scope, "InvalidSshHostScope")
      \o Require(object, {"form"}, "InvalidSshHostResponse")
group_from_wire(object, scope) ==
    Require(object, scope, "InvalidSshHostGroupScope")
      \o Require(object, {"form"}, "InvalidSshHostGroupResponse")
host_matches == Verify({"hostname", "policy", "cas"}, "InvalidSshHostResponse")
GroupFits == Verify({"policy"}, "InvalidSshHostGroupResponse")

list_ssh_hosts ==
    Observe(ListHosts) \o host_from_wire("hosts", {"project"})
      \o Require("hosts", {"unique"}, "InvalidSshHostResponse")
get_ssh_host == Observe(GetHost) \o host_from_wire("host", {"id", "project"})

(* One look when one authority signs for users and hosts; otherwise two at *)
(* once.                                                                   *)
BothCas == {[GetSshCertificateAuthority EXCEPT !.object = c] : c \in {"ca", "hostCa"}}
create_with_one_ca ==
    Consent("confirm") \o get_ssh_certificate_authority \o CaIsActive("ca")
      \o Mutate(CreateHost) \o host_from_wire("answer", {"project"}) \o host_matches
create_ssh_host ==
    Consent("confirm") \o Together("observe", BothCas, ReadErrors)
      \o authority_from_wire("ca") \o authority_from_wire("hostCa")
      \o CaIsActive("ca") \o CaIsActive("hostCa")
      \o Mutate(CreateHost) \o host_from_wire("answer", {"project"}) \o host_matches
replace_ssh_host ==
    Consent("confirm") \o get_ssh_host \o Mutate(ReplaceHost)
      \o host_from_wire("answer", {"id", "project"}) \o host_matches
delete_ssh_host ==
    Consent("confirm") \o get_ssh_host \o Mutate(DeleteHost)
      \o host_from_wire("answer", {"id", "project"})
      \o Verify({"hostname", "policy", "cas"}, "InvalidSshHostResponse")
get_linked_ssh_host_ca_public_key ==
    get_ssh_host
      \o Together("observe", {GetSshCertificateAuthority, LinkedCaPublicKey}, ReadErrors)
      \o authority_from_wire("ca") \o Require("caKey", {"form", "publicKey"}, "InvalidSshHostResponse")
issue_ssh_host_certificate ==
    Consent("confirm") \o get_ssh_host \o get_ssh_certificate_authority \o CaIsActive("ca")
      \o Mutate(IssueHostCertificate) \o validate_signed_certificate

list_ssh_host_groups ==
    Observe(ListGroups) \o group_from_wire("groups", {"project"})
      \o Require("groups", {"unique"}, "InvalidSshHostGroupResponse")
get_ssh_host_group == Observe(GetGroup) \o group_from_wire("group", {"id", "project"})
create_ssh_host_group ==
    Consent("confirm") \o Mutate(CreateGroup) \o group_from_wire("answer", {"project"}) \o GroupFits
replace_ssh_host_group ==
    Consent("confirm") \o get_ssh_host_group \o Mutate(ReplaceGroup)
      \o group_from_wire("answer", {"id", "project"}) \o GroupFits
delete_ssh_host_group ==
    Consent("confirm") \o get_ssh_host_group \o Mutate(DeleteGroup)
      \o group_from_wire("answer", {"id", "project"}) \o GroupFits
list_ssh_host_group_members ==
    get_ssh_host_group \o Observe(ListGroupMembers)
      \o Require("members", {"filter", "unique", "form"}, "InvalidSshHostGroupMembershipResponse")
mutate_ssh_host_group_membership ==
    Consent("confirm") \o Together("observe", {GetGroup, GetHost}, ReadErrors)
      \o group_from_wire("group", {"id", "project"}) \o host_from_wire("host", {"id", "project"})
      \o Mutate(GroupMembership)
      \o Verify(MembershipMutationWire, "InvalidSshHostGroupMembershipResponse")
-----------------------------------------------------------------------------
(* What the schemas of the inputs promise to refuse ...                    *)
CaTargetInput == {"projectId", "sshCaId"}
TemplateTargetInput == CaTargetInput \cup {"certificateTemplateId"}
TemplatePolicyInput == {"name", "ttl", "maxTTL", "allowedUsers", "allowedHosts"}
CertificateRequestInput == {"principals", "ttl", "keyId"}
AuthorityInputs ==
    [list_ssh_certificate_authorities |-> {"projectId"},
     get_ssh_certificate_authority |-> CaTargetInput,
     get_ssh_certificate_authority_public_key |-> CaTargetInput,
     create_ssh_certificate_authority |->
        {"projectId", "friendlyName", "publicKey", "privateKey", "confirm"},
     replace_ssh_certificate_authority |-> CaTargetInput \cup {"friendlyName", "confirm"},
     delete_ssh_certificate_authority |-> CaTargetInput \cup {"confirm"}]
TemplateInputs ==
    [list_ssh_certificate_templates |-> {"projectId"},
     list_ssh_certificate_authority_templates |-> CaTargetInput,
     get_ssh_certificate_template |-> TemplateTargetInput,
     create_ssh_certificate_template |-> CaTargetInput \cup TemplatePolicyInput \cup {"confirm"},
     replace_ssh_certificate_template |->
        TemplateTargetInput \cup TemplatePolicyInput \cup {"confirm"},
     delete_ssh_certificate_template |-> TemplateTargetInput \cup {"confirm"}]
CertificateInputs ==
    [sign_ssh_certificate |->
        TemplateTargetInput \cup CertificateRequestInput \cup {"publicKey", "confirm"},
     issue_ssh_certificate |->
        TemplateTargetInput \cup CertificateRequestInput \cup {"confirmReveal", "delivery"}]
HostTargetInput == {"projectId", "sshHostId"}
HostPolicyInput ==
    {"hostname", "alias", "userCertTtl", "hostCertTtl", "loginUser", "principals", "loginMappings"}
HostInputs ==
    [list_ssh_hosts |-> {"projectId"}, get_ssh_host |-> HostTargetInput,
     create_ssh_host |-> {"projectId", "userSshCaId", "hostSshCaId", "confirm"} \cup HostPolicyInput,
     replace_ssh_host |-> HostTargetInput \cup HostPolicyInput \cup {"confirm"},
     delete_ssh_host |-> HostTargetInput \cup {"confirm"},
     get_ssh_host_user_ca_public_key |-> HostTargetInput,
     get_ssh_host_host_ca_public_key |-> HostTargetInput,
     issue_ssh_host_certificate |-> HostTargetInput \cup {"publicKey", "confirm"}]
GroupTargetInput == {"projectId", "sshHostGroupId"}
GroupPolicyInput == {"name", "loginUser", "principals", "loginMappings"}
GroupInputs ==
    [list_ssh_host_groups |-> {"projectId"}, get_ssh_host_group |-> GroupTargetInput,
     create_ssh_host_group |-> {"projectId", "confirm"} \cup GroupPolicyInput,
     replace_ssh_host_group |-> GroupTargetInput \cup GroupPolicyInput \cup {"confirm"},
     delete_ssh_host_group |-> GroupTargetInput \cup {"confirm"},
     list_ssh_host_group_members |-> GroupTargetInput,
     add_ssh_host_group_member |-> GroupTargetInput \cup {"sshHostId", "confirm"},
     remove_ssh_host_group_member |-> GroupTargetInput \cup {"sshHostId", "confirm"}]
Declares == AuthorityInputs @@ TemplateInputs @@ CertificateInputs @@ HostInputs @@ GroupInputs

(* ... and what the conversions refuse before the operation is called.     *)
SshProjectId == {"projectId"}
SshCertificateAuthorityId == {"sshCaId"}
SshPublicKey == {"publicKey"}
validate_private_key == {"privateKey"}
SshCaKeyMaterial == SshPublicKey \cup validate_private_key \cup {"keyPair"}
SshCertificateAuthorityCreation == {"friendlyName"}
SshCaReplacement == {"friendlyName"}
SshCertificateTemplateId == {"certificateTemplateId"}
SshDuration == {"ttl"}
validate_policy == {"maxTTL", "allowedUsers", "allowedHosts", "certificateTypes"}
SshCertificateTemplateCreation == {"name"} \cup validate_policy
SshCertificateRequest == {"principals", "keyId"}
SshHostId == {"sshHostId"}
SshHostGroupId == {"sshHostGroupId"}
SshHostDuration == {"userCertTtl", "hostCertTtl"}
SshLoginMapping == {"loginUser", "principals"}
canonical_mappings == {"loginMappings"}
SshHostReplacement == {"hostname", "alias"} \cup canonical_mappings
SshHostCreation == SshHostReplacement
SshHostGroupPolicy == {"name"} \cup canonical_mappings
CaTarget == SshProjectId \cup SshCertificateAuthorityId
TemplateTarget == CaTarget \cup SshCertificateTemplateId
HostTarget == SshProjectId \cup SshHostId
GroupTarget == SshProjectId \cup SshHostGroupId
into_template_policy == SshDuration \cup SshCertificateTemplateCreation
into_host_policy == SshHostDuration \cup SshLoginMapping \cup SshHostReplacement
into_certificate_request == SshDuration \cup SshCertificateRequest

dispatch_ssh_authorities ==
    [list_ssh_certificate_authorities |-> SshProjectId,
     get_ssh_certificate_authority |-> CaTarget,
     get_ssh_certificate_authority_public_key |-> CaTarget,
     create_ssh_certificate_authority |->
        SshProjectId \cup SshCaKeyMaterial \cup SshCertificateAuthorityCreation,
     replace_ssh_certificate_authority |-> CaTarget \cup SshCaReplacement,
     delete_ssh_certificate_authority |-> CaTarget]
dispatch_ssh_certificates ==
    [list_ssh_certificate_templates |-> SshProjectId,
     list_ssh_certificate_authority_templates |-> CaTarget,
     get_ssh_certificate_template |-> TemplateTarget,
     create_ssh_certificate_template |-> CaTarget \cup into_template_policy,
     replace_ssh_certificate_template |-> TemplateTarget \cup into_template_policy,
     delete_ssh_certificate_template |-> TemplateTarget,
     sign_ssh_certificate |-> TemplateTarget \cup into_certificate_request \cup SshPublicKey,
     issue_ssh_certificate |-> TemplateTarget \cup into_certificate_request \cup {"delivery"}]
dispatch_ssh_hosts ==
    [list_ssh_hosts |-> SshProjectId, get_ssh_host |-> HostTarget,
     create_ssh_host |-> SshProjectId \cup {"userSshCaId", "hostSshCaId"} \cup into_host_policy
                            \cup SshHostCreation,
     replace_ssh_host |-> HostTarget \cup into_host_policy, delete_ssh_host |-> HostTarget,
     get_ssh_host_user_ca_public_key |-> HostTarget,
     get_ssh_host_host_ca_public_key |-> HostTarget,
     issue_ssh_host_certificate |-> HostTarget \cup SshPublicKey]
dispatch_ssh_groups ==
    [list_ssh_host_groups |-> SshProjectId, get_ssh_host_group |-> GroupTarget,
     create_ssh_host_group |-> SshProjectId \cup SshLoginMapping \cup SshHostGroupPolicy,
     replace_ssh_host_group |-> GroupTarget \cup SshLoginMapping \cup SshHostGroupPolicy,
     delete_ssh_host_group |-> GroupTarget, list_ssh_host_group_members |-> GroupTarget,
     add_ssh_host_group_member |-> GroupTarget \cup SshHostId,
     remove_ssh_host_group_member |-> GroupTarget \cup SshHostId]
Handles == dispatch_ssh_authorities @@ dispatch_ssh_certificates @@ dispatch_ssh_hosts
             @@ dispatch_ssh_groups
(* The tools that can put what they reveal into a file. *)
Delivers == {"issue_ssh_certificate"}

AuthorityOperations ==
    [list_ssh_certificate_authorities |-> list_ssh_certificate_authorities,
     get_ssh_certificate_authority |-> get_ssh_certificate_authority,
     get_ssh_certificate_authority_public_key |-> get_ssh_certificate_authority_public_key,
     create_ssh_certificate_authority |-> create_ssh_certificate_authority,
     replace_ssh_certificate_authority |-> replace_ssh_certificate_authority,
     delete_ssh_certificate_authority |-> delete_ssh_certificate_authority,
     list_ssh_certificate_templates |-> list_ssh_certificate_templates,
     list_ssh_certificate_authority_templates |-> list_ssh_certificate_authority_templates,
     get_ssh_certificate_template |-> get_ssh_certificate_template,
     create_ssh_certificate_template |-> create_ssh_certificate_template,
     replace_ssh_certificate_template |-> replace_ssh_certificate_template,
     delete_ssh_certificate_template |-> delete_ssh_certificate_template,
     sign_ssh_certificate |-> sign_ssh_certificate,
     issue_ssh_certificate |-> issue_ssh_certificate]
HostOperations ==
    [list_ssh_hosts |-> list_ssh_hosts, get_ssh_host |-> get_ssh_host,
     create_ssh_host |-> create_ssh_host, replace_ssh_host |-> replace_ssh_host,
     delete_ssh_host |-> delete_ssh_host,
     get_ssh_host_user_ca_public_key |-> get_linked_ssh_host_ca_public_key,
     get_ssh_host_host_ca_public_key |-> get_linked_ssh_host_ca_public_key,
     issue_ssh_host_certificate |-> issue_ssh_host_certificate,
     list_ssh_host_groups |-> list_ssh_host_groups, get_ssh_host_group |-> get_ssh_host_group,
     create_ssh_host_group |-> create_ssh_host_group,
     replace_ssh_host_group |-> replace_ssh_host_group,
     delete_ssh_host_group |-> delete_ssh_host_group,
     list_ssh_host_group_members |-> list_ssh_host_group_members,
     add_ssh_host_group_member |-> mutate_ssh_host_group_membership,
     remove_ssh_host_group_member |-> mutate_ssh_host_group_membership]
Operations == AuthorityOperations @@ HostOperations
Alternatives ==
    [create_ssh_host_with_one_ca |-> Way("create_ssh_host", create_with_one_ca)]

ssh_certificate_authority_tools ==
    [o \in {"list_ssh_certificate_authorities", "get_ssh_certificate_authority",
            "get_ssh_certificate_authority_public_key", "list_ssh_certificate_templates",
            "list_ssh_certificate_authority_templates", "get_ssh_certificate_template"}
        |-> "readAudited"]
    @@ [o \in {"create_ssh_certificate_authority", "create_ssh_certificate_template",
               "sign_ssh_certificate", "issue_ssh_certificate"} |-> "write"]
    @@ [o \in {"replace_ssh_certificate_authority", "delete_ssh_certificate_authority",
               "replace_ssh_certificate_template", "delete_ssh_certificate_template"} |-> "destroy"]
ssh_host_tools ==
    [o \in {"list_ssh_hosts", "get_ssh_host", "get_ssh_host_user_ca_public_key",
            "get_ssh_host_host_ca_public_key", "list_ssh_host_groups", "get_ssh_host_group",
            "list_ssh_host_group_members"} |-> "readAudited"]
    @@ [o \in {"create_ssh_host", "issue_ssh_host_certificate", "create_ssh_host_group",
               "add_ssh_host_group_member"} |-> "write"]
    @@ [o \in {"replace_ssh_host", "delete_ssh_host", "replace_ssh_host_group",
               "delete_ssh_host_group", "remove_ssh_host_group_member"} |-> "destroy"]
Trusts == <<>>
Tiers == ssh_certificate_authority_tools @@ ssh_host_tools
=============================================================================
