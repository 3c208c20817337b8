------------------------- MODULE DynamicOperations -------------------------
(***************************************************************************)
(* Dynamic secrets and their leases: infisical-api/src/dynamic_secrets.rs  *)
(* and the creation of dynamic_secret_sql.rs, with their tools in          *)
(* infisical-mcp/src/tools.rs.  Project slug, environment and path go with *)
(* every request, so there is no scope to prove.  The creation of a lease  *)
(* is SqlLease.                                                            *)
(***************************************************************************)
EXTENDS ErrorFacts

paginate(object) == Require(object, {"bounded"}, "Pagination")
-----------------------------------------------------------------------------
(* The newtypes of dynamic_secrets.rs, as the arguments that they refuse.   *)
DynamicSecretName == {"dynamicSecretName"}
DynamicSecretLeaseId == {"leaseId"}
(* At least a minute and at most ten years; the default fits in the maximum. *)
DynamicSecretTtlSeconds == {"ttl"}
lifetime == {"ttlOrder"}
DynamicSecretScope == {"projectSlug", "environment", "path"}

(* What an answer shows, and what makes it malformed: a version of zero, an *)
(* update before the creation, an expiry before it.                        *)
DynamicSecretResource == {"form", "name", "provider", "defaultTTL", "maxTTL"}
RawDynamicSecret(object) == Require(object, {"form"}, "InvalidDynamicSecretResponse")
DynamicSecretLease == {"form", "leaseId"}
RawDynamicSecretLease(object, expected) ==
    Require(object, {"form"} \cup expected, "InvalidDynamicSecretLeaseResponse")
-----------------------------------------------------------------------------
ListDynamicSecrets == Wire("secrets", InScope, {}, {"form", "bounded"})
GetDynamicSecret == Wire("secret", InScope, {"name"}, DynamicSecretResource)
CreateSqlDynamicSecret ==
    Wire("secret", InScope, {"name", "provider", "defaultTTL", "maxTTL"}, DynamicSecretResource)
(* Either a new name, or new lifetimes under the old one. *)
UpdateDynamicSecret == Wire("secret", InScope, {"name", "defaultTTL", "maxTTL"},
                            DynamicSecretResource)
DeleteDynamicSecret == Wire("secret", InScope, {"name"}, DynamicSecretResource)
ListDynamicSecretLeases == Wire("leases", InScope, {}, {"form", "bounded"})
(* A lease comes with its secret: "pair" says that one names the other. *)
GetDynamicSecretLease ==
    Wire("lease", InScope, {"leaseId", "pair"}, DynamicSecretLease \cup {"pair"})
RenewDynamicSecretLease == Wire("lease", InScope, {"leaseId", "ttl"}, DynamicSecretLease)
RevokeDynamicSecretLease == Wire("lease", InScope, {"leaseId"}, DynamicSecretLease)

list_dynamic_secrets ==
    Observe(ListDynamicSecrets) \o RawDynamicSecret("secrets") \o paginate("secrets")
get_dynamic_secret ==
    Observe(GetDynamicSecret) \o RawDynamicSecret("secret")
      \o Require("secret", {"name"}, "InvalidDynamicSecretResponse")
create_sql_dynamic_secret ==
    Mutate(CreateSqlDynamicSecret) \o RawDynamicSecret("answer")
      \o Verify({"name", "provider", "defaultTTL", "maxTTL"}, "InvalidDynamicSecretResponse")
(* A rename to the present name is refused before anything is sent. *)
from_change == Check({"sameName"}, "DynamicSecretRenameWouldBeNoop")
response_matches == Verify({"name", "defaultTTL", "maxTTL"}, "InvalidDynamicSecretResponse")
update_dynamic_secret ==
    from_change \o Mutate(UpdateDynamicSecret) \o RawDynamicSecret("answer") \o response_matches
delete_dynamic_secret ==
    Consent("confirm") \o Mutate(DeleteDynamicSecret) \o RawDynamicSecret("answer")
      \o Verify({"name"}, "InvalidDynamicSecretResponse")
list_dynamic_secret_leases ==
    Observe(ListDynamicSecretLeases) \o RawDynamicSecretLease("leases", {}) \o paginate("leases")
get_dynamic_secret_lease ==
    Observe(GetDynamicSecretLease) \o RawDynamicSecretLease("lease", {"leaseId"})
      \o RawDynamicSecret("lease") \o RawDynamicSecretLease("lease", {"pair"})
renew_dynamic_secret_lease ==
    Mutate(RenewDynamicSecretLease) \o RawDynamicSecretLease("answer", {"leaseId"})
revoke_dynamic_secret_lease ==
    Consent("confirm") \o Mutate(RevokeDynamicSecretLease)
      \o RawDynamicSecretLease("answer", {"leaseId"})
-----------------------------------------------------------------------------
(* The constructors of dynamic_secret_sql.rs. *)
sql_host_is_valid == {"host"}
SqlDynamicSecretConnection == sql_host_is_valid \cup {"port", "database", "username"}
validate_sql_template == {"creationStatement", "revocationStatement", "renewStatement"}
SqlDynamicSecretStatements == validate_sql_template
allowed_symbols_are_valid == {"allowedSymbols"}
SqlDynamicSecretPasswordRequirements ==
    allowed_symbols_are_valid \cup {"passwordLength", "passwordTotal"}
validate_sql_ca_bundle == {"ca"}
SqlDynamicSecretTls == validate_sql_ca_bundle
SqlDynamicSecretRoute == {"gatewayId"}
SqlDynamicSecretInputs == {"password"}
SqlDynamicSecretCreation == lifetime

(* What the schemas of the inputs promise to refuse ...                    *)
PageInput == {"offset", "limit"}
DynamicSecretScopeInput == {"projectSlug", "environment", "path"}
SqlDynamicSecretPasswordRequirementsInput == {"passwordLength", "allowedSymbols"}
SqlDynamicSecretRouteInput == {"gatewayId"}
SqlDynamicSecretProviderInputsInput ==
    {"host", "port", "database", "username", "password", "creationStatement",
     "revocationStatement", "renewStatement", "ca"}
      \cup SqlDynamicSecretPasswordRequirementsInput \cup SqlDynamicSecretRouteInput
DynamicSecretCreateInput ==
    DynamicSecretScopeInput \cup {"dynamicSecretName", "ttl"}
      \cup SqlDynamicSecretProviderInputsInput
DynamicSecretsListInput == DynamicSecretScopeInput \cup PageInput
DynamicSecretTargetInput == DynamicSecretScopeInput \cup {"dynamicSecretName"}
DynamicSecretChangeInput == {"newName", "ttl"}
DynamicSecretUpdateInput == DynamicSecretTargetInput \cup DynamicSecretChangeInput
DynamicSecretDeleteInput == DynamicSecretTargetInput \cup {"confirm"}
DynamicSecretLeasesListInput == DynamicSecretTargetInput \cup PageInput
DynamicSecretLeaseTargetInput == DynamicSecretScopeInput \cup {"leaseId"}
DynamicSecretLeaseRenewInput == DynamicSecretLeaseTargetInput \cup {"ttl"}
DynamicSecretLeaseRevokeInput == DynamicSecretLeaseTargetInput \cup {"confirm"}
Declares ==
    [list_dynamic_secrets |-> DynamicSecretsListInput,
     get_dynamic_secret |-> DynamicSecretTargetInput,
     create_sql_dynamic_secret |-> DynamicSecretCreateInput,
     update_dynamic_secret |-> DynamicSecretUpdateInput,
     delete_dynamic_secret |-> DynamicSecretDeleteInput,
     list_dynamic_secret_leases |-> DynamicSecretLeasesListInput,
     get_dynamic_secret_lease |-> DynamicSecretLeaseTargetInput,
     renew_dynamic_secret_lease |-> DynamicSecretLeaseRenewInput,
     revoke_dynamic_secret_lease |-> DynamicSecretLeaseRevokeInput]

(* ... and what the conversions refuse before the call.  A confirmation is *)
(* left to the operation.                                                  *)
page_request == PageInput
into_scope == DynamicSecretScope
into_requirements == SqlDynamicSecretPasswordRequirements
into_route == SqlDynamicSecretRoute
into_inputs ==
    SqlDynamicSecretConnection \cup SqlDynamicSecretStatements \cup into_requirements
      \cup SqlDynamicSecretTls \cup into_route \cup SqlDynamicSecretInputs
into_change == {"newName"} \cup DynamicSecretTtlSeconds \cup lifetime
dispatch_dynamic_secret_workflow ==
    [list_dynamic_secrets |-> into_scope \cup page_request,
     get_dynamic_secret |-> into_scope \cup DynamicSecretName,
     create_sql_dynamic_secret |->
        into_scope \cup DynamicSecretName \cup DynamicSecretTtlSeconds \cup into_inputs
          \cup SqlDynamicSecretCreation,
     update_dynamic_secret |-> into_scope \cup DynamicSecretName \cup into_change,
     delete_dynamic_secret |-> into_scope \cup DynamicSecretName,
     list_dynamic_secret_leases |-> into_scope \cup DynamicSecretName \cup page_request,
     get_dynamic_secret_lease |-> into_scope \cup DynamicSecretLeaseId,
     renew_dynamic_secret_lease |->
        into_scope \cup DynamicSecretLeaseId \cup DynamicSecretTtlSeconds,
     revoke_dynamic_secret_lease |-> into_scope \cup DynamicSecretLeaseId]
Handles == dispatch_dynamic_secret_workflow
Delivers == {}

Operations ==
    [list_dynamic_secrets |-> list_dynamic_secrets, get_dynamic_secret |-> get_dynamic_secret,
     create_sql_dynamic_secret |-> create_sql_dynamic_secret,
     update_dynamic_secret |-> update_dynamic_secret,
     delete_dynamic_secret |-> delete_dynamic_secret,
     list_dynamic_secret_leases |-> list_dynamic_secret_leases,
     get_dynamic_secret_lease |-> get_dynamic_secret_lease,
     renew_dynamic_secret_lease |-> renew_dynamic_secret_lease,
     revoke_dynamic_secret_lease |-> revoke_dynamic_secret_lease]
Alternatives == <<>>
Trusts == <<>>

(* Reading a dynamic secret leaves an audit record.                        *)
dynamic_secret_tools ==
    [list_dynamic_secrets |-> "readAudited", get_dynamic_secret |-> "readAudited",
     create_sql_dynamic_secret |-> "write", update_dynamic_secret |-> "write",
     delete_dynamic_secret |-> "destroy",
     list_dynamic_secret_leases |-> "readAudited", get_dynamic_secret_lease |-> "readAudited",
     renew_dynamic_secret_lease |-> "write", revoke_dynamic_secret_lease |-> "destroy"]
Tiers == dynamic_secret_tools
=============================================================================
