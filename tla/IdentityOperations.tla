------------------------- MODULE IdentityOperations -------------------------
(***************************************************************************)
(* Machine identities and their auth methods: infisical-api/src/           *)
(* identities.rs, identity_universal_auth.rs, identity_token_auth.rs and   *)
(* identity_kubernetes_auth.rs, with their tools in infisical-mcp/src/     *)
(* tools.rs.  The caller names an identity, a client secret or a token and *)
(* no project or organization to hold it against, so there is no scope to  *)
(* prove; and an answer is handed on as it comes.                          *)
(***************************************************************************)
EXTENDS ErrorFacts, TLC

Named(object, asks, answers) == Wire(object, InScope, asks, answers)
paginate(object) == Require(object, {"bounded"}, "Pagination")
OfIdentity == {"identityId"}
-----------------------------------------------------------------------------
(* identities.rs *)
IdentityCreation == {"name", "organizationId", "role", "hasDeleteProtection"}
IdentityChange == {"name", "role", "hasDeleteProtection"}
IdentityMembership == {"id"} \cup IdentityCreation
DirectIdentity == {"id", "form", "name", "organizationId", "hasDeleteProtection"}
ListIdentities ==
    Named("identities", {"organizationId", "count", "bounded"},
          {"organizationId", "count", "bounded"})
GetIdentity == Named("identity", {"id"}, IdentityMembership)
CreateIdentity == Named("identity", IdentityCreation, DirectIdentity)
UpdateIdentity == Named("identity", {"id"} \cup IdentityChange, DirectIdentity)
DeleteIdentity == Named("identity", {"id"}, DirectIdentity)
(* A direct identity without an organization is no identity. *)
machine_identity == Verify({"form"}, "MissingMutationResource")

list_identities ==
    Read(ListIdentities) \o Require("identities", {"count"}, "CollectionCountMismatch")
      \o paginate("identities")
get_identity == Read(GetIdentity)
create_identity == Mutate(CreateIdentity) \o machine_identity
update_identity == Mutate(UpdateIdentity) \o machine_identity
delete_identity == Consent("confirm") \o Mutate(DeleteIdentity) \o machine_identity
-----------------------------------------------------------------------------
(* identity_universal_auth.rs *)
UniversalAuthSettings ==
    {"accessTokenTTL", "accessTokenMaxTTL", "accessTokenNumUsesLimit", "accessTokenPeriod",
     "lockoutEnabled", "lockoutThreshold", "lockoutDurationSeconds", "lockoutCounterResetSeconds"}
UniversalAuthConfig == OfIdentity \cup UniversalAuthSettings
UniversalAuthClientSecretCreation == {"description", "numUsesLimit", "ttl"}
UniversalAuthClientSecret == {"id"} \cup OfIdentity \cup UniversalAuthClientSecretCreation
GetUniversalAuth == Named("auth", OfIdentity, UniversalAuthConfig)
AttachUniversalAuth == Named("auth", UniversalAuthConfig, UniversalAuthConfig)
UpdateUniversalAuth == AttachUniversalAuth
RemoveUniversalAuth == GetUniversalAuth
ListClientSecrets ==
    Named("secrets", OfIdentity \cup {"bounded"}, {"bounded"} \cup UniversalAuthClientSecret)
GetClientSecret == Named("secret", {"id"} \cup OfIdentity, UniversalAuthClientSecret)
CreateClientSecret ==
    Named("secret", OfIdentity \cup UniversalAuthClientSecretCreation,
          {"clientSecret"} \cup UniversalAuthClientSecret)
RevokeClientSecret == GetClientSecret
ClearLockouts == Named("auth", OfIdentity, {"deleted"})

get_universal_auth == Read(GetUniversalAuth)
attach_universal_auth == Mutate(AttachUniversalAuth)
update_universal_auth == Mutate(UpdateUniversalAuth)
remove_universal_auth == Consent("confirm") \o Mutate(RemoveUniversalAuth)
list_universal_auth_client_secrets == Read(ListClientSecrets) \o paginate("secrets")
get_universal_auth_client_secret == Read(GetClientSecret)
create_universal_auth_client_secret == Mutate(CreateClientSecret)
revoke_universal_auth_client_secret == Consent("confirm") \o Mutate(RevokeClientSecret)
clear_universal_auth_lockouts == Consent("confirm") \o Mutate(ClearLockouts)
-----------------------------------------------------------------------------
(* identity_token_auth.rs.  The route cannot be asked beyond an offset: a   *)
(* page that would have to go on there is no page ("last").                *)
TokenAuthSettings == {"accessTokenTTL", "accessTokenMaxTTL", "accessTokenNumUsesLimit"}
TokenAuthConfig == OfIdentity \cup TokenAuthSettings
TokenAuthTokenCreation == {"name", "organizationSlug"}
TokenAuthToken == {"id", "name"} \cup OfIdentity
GetTokenAuth == Named("auth", OfIdentity, TokenAuthConfig)
AttachTokenAuth == Named("auth", TokenAuthConfig, TokenAuthConfig)
UpdateTokenAuth == AttachTokenAuth
RemoveTokenAuth == GetTokenAuth
ListTokens ==
    Named("tokens", OfIdentity \cup {"page", "last"}, {"page", "last"} \cup TokenAuthToken)
GetToken == Named("token", {"id"}, TokenAuthToken)
CreateToken == Named("token", OfIdentity \cup TokenAuthTokenCreation,
                     {"accessToken"} \cup TokenAuthToken)
UpdateToken == Named("token", {"id", "name"}, TokenAuthToken)
RevokeToken == Named("token", {"id"}, {"message"})

get_token_auth == Read(GetTokenAuth)
attach_token_auth == Mutate(AttachTokenAuth)
update_token_auth == Mutate(UpdateTokenAuth)
remove_token_auth == Consent("confirm") \o Mutate(RemoveTokenAuth)
list_token_auth_tokens ==
    Check({"offset"}, "TokenAuthPageOffsetLimit") \o Read(ListTokens)
      \o Require("tokens", {"page"}, "Pagination")
      \o Require("tokens", {"last"}, "CollectionTooLarge")
get_token_auth_token == Read(GetToken)
create_token_auth_token == Mutate(CreateToken)
update_token_auth_token ==
    Check({"name"}, "InvalidTokenAuthTokenName") \o Mutate(UpdateToken)
revoke_token_auth_token == Consent("confirm") \o Mutate(RevokeToken)
-----------------------------------------------------------------------------
(* identity_kubernetes_auth.rs.  The reviewer's token is not shown again.   *)
KubernetesAuthSettings ==
    {"kubernetesHost", "caCert", "verifyTlsCertificate", "allowedNamespaces", "allowedNames",
     "allowedAudience"} \cup TokenAuthSettings
KubernetesAuthConfig == OfIdentity \cup KubernetesAuthSettings
GetKubernetesAuth == Named("auth", OfIdentity, KubernetesAuthConfig)
AttachKubernetesAuth ==
    Named("auth", {"tokenReviewerJwt"} \cup KubernetesAuthConfig, KubernetesAuthConfig)
UpdateKubernetesAuth == AttachKubernetesAuth
RemoveKubernetesAuth == GetKubernetesAuth

get_kubernetes_auth == Read(GetKubernetesAuth)
attach_kubernetes_auth == Mutate(AttachKubernetesAuth)
update_kubernetes_auth == Mutate(UpdateKubernetesAuth)
remove_kubernetes_auth == Consent("confirm") \o Mutate(RemoveKubernetesAuth)
-----------------------------------------------------------------------------
(* What the schemas of the inputs promise to refuse ...                    *)
PageInput == {"offset", "limit"}
IdentityTargetInput == {"identityId"}
IdentityPageInput == {"organizationId"} \cup PageInput
IdentityCreateInput == {"name", "organizationId"}
IdentityUpdateInput == IdentityTargetInput \cup {"name"}
IdentityDeleteInput == IdentityTargetInput \cup {"confirm"}
UniversalAuthAttachInput ==
    IdentityTargetInput \cup (UniversalAuthSettings \ {"accessTokenNumUsesLimit", "lockoutEnabled"})
UniversalAuthUpdateInput == UniversalAuthAttachInput
UniversalAuthRemoveInput == IdentityDeleteInput
UniversalAuthLockoutsClearInput == IdentityDeleteInput
UniversalAuthClientSecretsListInput == IdentityTargetInput \cup PageInput
UniversalAuthClientSecretTargetInput == IdentityTargetInput \cup {"clientSecretId"}
UniversalAuthClientSecretCreateInput == IdentityTargetInput \cup {"description", "ttl"}
UniversalAuthClientSecretRevokeInput == UniversalAuthClientSecretTargetInput \cup {"confirm"}
TokenAuthAttachInput == IdentityTargetInput \cup {"accessTokenTTL", "accessTokenMaxTTL"}
TokenAuthUpdateInput == TokenAuthAttachInput
TokenAuthRemoveInput == IdentityDeleteInput
TokenAuthTokensListInput == IdentityTargetInput \cup PageInput
TokenAuthTokenTargetInput == {"tokenId"}
TokenAuthTokenCreateInput == IdentityTargetInput \cup {"name", "organizationSlug"}
TokenAuthTokenUpdateInput == TokenAuthTokenTargetInput \cup {"name"}
TokenAuthTokenRevokeInput == TokenAuthTokenTargetInput \cup {"confirm"}
KubernetesAuthAttachInput ==
    TokenAuthAttachInput
      \cup {"kubernetesHost", "caCert", "tokenReviewerJwt", "allowedNamespaces", "allowedNames",
            "allowedAudience"}
KubernetesAuthUpdateInput == KubernetesAuthAttachInput
KubernetesAuthRemoveInput == IdentityDeleteInput
Declares ==
    [list_identities |-> IdentityPageInput, get_identity |-> IdentityTargetInput,
     create_identity |-> IdentityCreateInput, update_identity |-> IdentityUpdateInput,
     delete_identity |-> IdentityDeleteInput,
     get_universal_auth |-> IdentityTargetInput,
     attach_universal_auth |-> UniversalAuthAttachInput,
     update_universal_auth |-> UniversalAuthUpdateInput,
     remove_universal_auth |-> UniversalAuthRemoveInput,
     list_universal_auth_client_secrets |-> UniversalAuthClientSecretsListInput,
     get_universal_auth_client_secret |-> UniversalAuthClientSecretTargetInput,
     create_universal_auth_client_secret |-> UniversalAuthClientSecretCreateInput,
     revoke_universal_auth_client_secret |-> UniversalAuthClientSecretRevokeInput,
     clear_universal_auth_lockouts |-> UniversalAuthLockoutsClearInput,
     get_token_auth |-> IdentityTargetInput, attach_token_auth |-> TokenAuthAttachInput,
     update_token_auth |-> TokenAuthUpdateInput, remove_token_auth |-> TokenAuthRemoveInput,
     list_token_auth_tokens |-> TokenAuthTokensListInput,
     get_token_auth_token |-> TokenAuthTokenTargetInput,
     create_token_auth_token |-> TokenAuthTokenCreateInput,
     update_token_auth_token |-> TokenAuthTokenUpdateInput,
     revoke_token_auth_token |-> TokenAuthTokenRevokeInput,
     get_kubernetes_auth |-> IdentityTargetInput,
     attach_kubernetes_auth |-> KubernetesAuthAttachInput,
     update_kubernetes_auth |-> KubernetesAuthUpdateInput,
     remove_kubernetes_auth |-> KubernetesAuthRemoveInput]

(* ... and what the conversions and the handlers refuse before the call.   *)
page_request == PageInput
validate_lifetime == {"accessTokenTTL", "accessTokenMaxTTL"}
universal_auth_settings == (UniversalAuthSettings \ {"accessTokenNumUsesLimit", "lockoutEnabled"})
client_secret_creation == {"description", "ttl"}
token_creation == {"name", "organizationSlug"}
kubernetes_auth_settings ==
    validate_lifetime
      \cup {"kubernetesHost", "caCert", "tokenReviewerJwt", "allowedNamespaces", "allowedNames",
            "allowedAudience"}
confirmed == {"identityId", "confirm"}
dispatch_identity_workflow ==
    [list_identities |-> {"organizationId"} \cup page_request, get_identity |-> {"identityId"},
     create_identity |-> {"name", "organizationId"}, update_identity |-> {"identityId", "name"},
     delete_identity |-> confirmed]
dispatch_universal_auth_workflow ==
    [get_universal_auth |-> {"identityId"},
     attach_universal_auth |-> {"identityId"} \cup universal_auth_settings,
     update_universal_auth |-> {"identityId"} \cup universal_auth_settings,
     remove_universal_auth |-> confirmed, clear_universal_auth_lockouts |-> confirmed]
dispatch_universal_auth_client_secret_workflow ==
    [list_universal_auth_client_secrets |-> {"identityId"} \cup page_request,
     get_universal_auth_client_secret |-> {"identityId", "clientSecretId"},
     create_universal_auth_client_secret |->
        {"delivery", "identityId"} \cup client_secret_creation,
     revoke_universal_auth_client_secret |-> {"clientSecretId"} \cup confirmed]
dispatch_token_auth_workflow ==
    [get_token_auth |-> {"identityId"}, attach_token_auth |-> {"identityId"} \cup validate_lifetime,
     update_token_auth |-> {"identityId"} \cup validate_lifetime, remove_token_auth |-> confirmed,
     list_token_auth_tokens |-> {"identityId"} \cup page_request,
     get_token_auth_token |-> {"tokenId"},
     create_token_auth_token |-> {"delivery", "identityId"} \cup token_creation,
     update_token_auth_token |-> {"tokenId"}, revoke_token_auth_token |-> {"tokenId", "confirm"}]
dispatch_kubernetes_auth_workflow ==
    [get_kubernetes_auth |-> {"identityId"},
     attach_kubernetes_auth |-> {"identityId"} \cup kubernetes_auth_settings,
     update_kubernetes_auth |-> {"identityId"} \cup kubernetes_auth_settings,
     remove_kubernetes_auth |-> confirmed]
Handles == dispatch_identity_workflow @@ dispatch_universal_auth_workflow
             @@ dispatch_universal_auth_client_secret_workflow @@ dispatch_token_auth_workflow
             @@ dispatch_kubernetes_auth_workflow
Delivers == {"create_universal_auth_client_secret", "create_token_auth_token"}

Operations ==
    [list_identities |-> list_identities, get_identity |-> get_identity,
     create_identity |-> create_identity, update_identity |-> update_identity,
     delete_identity |-> delete_identity,
     get_universal_auth |-> get_universal_auth, attach_universal_auth |-> attach_universal_auth,
     update_universal_auth |-> update_universal_auth,
     remove_universal_auth |-> remove_universal_auth,
     list_universal_auth_client_secrets |-> list_universal_auth_client_secrets,
     get_universal_auth_client_secret |-> get_universal_auth_client_secret,
     create_universal_auth_client_secret |-> create_universal_auth_client_secret,
     revoke_universal_auth_client_secret |-> revoke_universal_auth_client_secret,
     clear_universal_auth_lockouts |-> clear_universal_auth_lockouts,
     get_token_auth |-> get_token_auth, attach_token_auth |-> attach_token_auth,
     update_token_auth |-> update_token_auth, remove_token_auth |-> remove_token_auth,
     list_token_auth_tokens |-> list_token_auth_tokens,
     get_token_auth_token |-> get_token_auth_token,
     create_token_auth_token |-> create_token_auth_token,
     update_token_auth_token |-> update_token_auth_token,
     revoke_token_auth_token |-> revoke_token_auth_token,
     get_kubernetes_auth |-> get_kubernetes_auth, attach_kubernetes_auth |-> attach_kubernetes_auth,
     update_kubernetes_auth |-> update_kubernetes_auth,
     remove_kubernetes_auth |-> remove_kubernetes_auth]
Alternatives == <<>>

(* What an answer shows of its object is handed on as it comes: the whole  *)
(* of it, but for the shape and the size of collections.                   *)
AsItComes(steps) == UNION {steps[i].asks : i \in DOMAIN steps}
Trusts == [o \in DOMAIN Operations |->
             {f \in AsItComes(Operations[o]) : f[2] \notin {"form", "count", "bounded", "page", "last"}}]

identity_tools ==
    [list_identities |-> "read", get_identity |-> "read", create_identity |-> "write",
     update_identity |-> "write", delete_identity |-> "destroy"]
universal_auth_tools ==
    [get_universal_auth |-> "read", attach_universal_auth |-> "write",
     update_universal_auth |-> "write", remove_universal_auth |-> "destroy",
     list_universal_auth_client_secrets |-> "read", get_universal_auth_client_secret |-> "read",
     create_universal_auth_client_secret |-> "write",
     revoke_universal_auth_client_secret |-> "destroy",
     clear_universal_auth_lockouts |-> "destroy"]
token_auth_tools ==
    [get_token_auth |-> "read", attach_token_auth |-> "write", update_token_auth |-> "write",
     remove_token_auth |-> "destroy", list_token_auth_tokens |-> "read",
     get_token_auth_token |-> "read", create_token_auth_token |-> "write",
     update_token_auth_token |-> "write", revoke_token_auth_token |-> "destroy"]
kubernetes_auth_tools ==
    [get_kubernetes_auth |-> "read", attach_kubernetes_auth |-> "write",
     update_kubernetes_auth |-> "write", remove_kubernetes_auth |-> "destroy"]
Tiers == identity_tools @@ universal_auth_tools @@ token_auth_tools @@ kubernetes_auth_tools
=============================================================================
