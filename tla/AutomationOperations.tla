------------------------ MODULE AutomationOperations ------------------------
(***************************************************************************)
(* App connections, secret syncs and the list of secret rotations:         *)
(* infisical-api/src/app_automations.rs with its tools in                  *)
(* infisical-mcp/src/tools.rs.  A sync is addressed by its own identifier  *)
(* and must be shown to lie in the project that the caller names; a        *)
(* connection may belong to no project, and the caller names none.         *)
(***************************************************************************)
EXTENDS ErrorFacts, TLC

paginate(object) == Require(object, {"bounded"}, "Pagination")
Malformed == "InvalidAppAutomationResponse"
Elsewhere == "InvalidAppAutomationScope"
-----------------------------------------------------------------------------
(* The project tells which environments there are.                         *)
GetProject ==
    Wire("project", InScope, {"id"}, {"exists", "form", "id", "environment"})
project_environments(absent) ==
    Read(GetProject) \o Require("project", {"exists"}, absent)
      \o Require("project", {"form", "id"}, Malformed)
environment_exists == Require("project", {"environment"}, Elsewhere)
-----------------------------------------------------------------------------
(* App connections. *)
AppConnectionFields == {"name", "description", "project", "gatewayId", "gatewayPoolId"}
GitHubAppConnection == {"id", "form", "provider", "method", "instance"} \cup AppConnectionFields
(* The provider and the rest of a malformed connection. *)
RawGitHubAppConnection(object, expected) ==
    Require(object, {"form", "provider"} \cup expected, Malformed)
ListAppConnections ==
    Wire("connections", InScope, {"project"}, {"form", "project", "bounded"})
GetGitHubAppConnection == Wire("connection", InScope, {"id"}, GitHubAppConnection)
CreateGitHubAppConnectionWire ==
    {"method", "instance", "isPlatformManagedCredentials", "isAutoRotationEnabled"}
      \cup AppConnectionFields
CreateGitHubAppConnection ==
    Wire("connection", InScope, CreateGitHubAppConnectionWire,
         CreateGitHubAppConnectionWire \cup {"id", "form", "provider"})
UpdateGitHubAppConnectionWire ==
    {"id", "method", "instance"} \cup (AppConnectionFields \ {"project"})
UpdateGitHubAppConnection ==
    Wire("connection", InScope, UpdateGitHubAppConnectionWire, GitHubAppConnection)
DeleteGitHubAppConnection == Wire("connection", InScope, {"id"}, GitHubAppConnection)
RotateGitHubAppConnectionCredentials ==
    Wire("connection", InScope, {"id"}, GitHubAppConnection)

connection_id == Check({"connectionId"}, Elsewhere)
get_github_app_connection ==
    connection_id \o Observe(GetGitHubAppConnection)
      \o RawGitHubAppConnection("connection", {"id"})
create_github_app_connection ==
    Mutate(CreateGitHubAppConnection) \o RawGitHubAppConnection("answer", {"project"})
      \o Verify(CreateGitHubAppConnectionWire, Malformed)
update_answer ==
    Mutate(UpdateGitHubAppConnection) \o RawGitHubAppConnection("answer", {"id"})
      \o Verify(UpdateGitHubAppConnectionWire, Malformed)
update_github_app_connection == connection_id \o update_answer
(* New credentials are only for a connection of the same method. *)
replace_github_app_credentials ==
    Consent("confirmCredentialReplacement") \o connection_id \o get_github_app_connection
      \o Require("connection", {"method"}, Elsewhere) \o update_answer
delete_github_app_connection ==
    Consent("confirmDelete") \o connection_id \o Mutate(DeleteGitHubAppConnection)
      \o RawGitHubAppConnection("answer", {"id"})
rotate_github_app_connection_credentials ==
    Consent("confirm") \o connection_id \o Mutate(RotateGitHubAppConnectionCredentials)
      \o RawGitHubAppConnection("answer", {"id"})
list_app_connections ==
    Observe(ListAppConnections) \o Require("connections", {"form", "project"}, Malformed)
      \o paginate("connections")
-----------------------------------------------------------------------------
(* Secret syncs.  "known": the environment is one of the project's.         *)
GitHubSecretSyncFields ==
    {"name", "description", "connectionId", "environment", "path", "isAutoSyncEnabled",
     "destination", "options"}
GitHubSecretSync == {"id", "form", "project", "known", "provider"} \cup GitHubSecretSyncFields
RawGitHubSecretSync(object, expected) ==
    Require(object, {"form", "project", "known", "provider"} \cup expected, Malformed)
OneSync == {"id", "project", "known"}
GetGitHubSecretSync == Wire("sync", ById("sync"), OneSync, GitHubSecretSync)
CreateGitHubSecretSync ==
    Wire("sync", InScope, {"project", "known"} \cup GitHubSecretSyncFields, GitHubSecretSync)
UpdateGitHubSecretSync ==
    Wire("sync", ById("sync"), OneSync \cup GitHubSecretSyncFields, GitHubSecretSync)
DeleteGitHubSecretSync == Wire("sync", ById("sync"), OneSync, GitHubSecretSync)
RunGitHubSecretSync == Wire("sync", ById("sync"), OneSync, GitHubSecretSync)
RemoveGitHubSecretSyncSecrets == RunGitHubSecretSync
ListSecretSyncs ==
    Wire("syncs", InScope, {"project", "known"}, {"form", "project", "known", "bounded"})
ListSecretRotations ==
    Wire("rotations", InScope, {"project", "known"}, {"form", "project", "known", "bounded"})

github_secret_sync_with_environments ==
    Check({"syncId"}, Elsewhere) \o Observe(GetGitHubSecretSync)
      \o project_environments(Elsewhere) \o RawGitHubSecretSync("sync", {"id"})
get_github_secret_sync == github_secret_sync_with_environments
create_github_secret_sync ==
    Consent("confirmInitialOverwrite") \o project_environments(Elsewhere) \o environment_exists
      \o Mutate(CreateGitHubSecretSync) \o RawGitHubSecretSync("answer", {})
      \o Verify(GitHubSecretSyncFields, Malformed)
update_github_secret_sync ==
    Consent("confirmUpdate") \o github_secret_sync_with_environments \o environment_exists
      \o Mutate(UpdateGitHubSecretSync) \o RawGitHubSecretSync("answer", {"id"})
      \o Verify(GitHubSecretSyncFields, Malformed)
delete_github_secret_sync ==
    Consent("confirmDelete") \o Consent("confirmRemoteRemoval")
      \o github_secret_sync_with_environments
      \o Mutate(DeleteGitHubSecretSync) \o RawGitHubSecretSync("answer", {"id"})
run_github_secret_sync ==
    Consent("confirm") \o github_secret_sync_with_environments
      \o Mutate(RunGitHubSecretSync) \o RawGitHubSecretSync("answer", {"id"})
remove_github_secret_sync_secrets ==
    Consent("confirm") \o github_secret_sync_with_environments
      \o Mutate(RemoveGitHubSecretSyncSecrets) \o RawGitHubSecretSync("answer", {"id"})
Inventory(object, wire) ==
    Observe(wire) \o project_environments(Malformed)
      \o Require(object, {"form", "project", "known"}, Malformed) \o paginate(object)
list_secret_syncs == Inventory("syncs", ListSecretSyncs)
list_secret_rotations == Inventory("rotations", ListSecretRotations)
-----------------------------------------------------------------------------
(* The constructors of app_automations.rs. *)
validate_automation_name == {"name"}
validate_input_description == {"description"}
validate_github_secret == {"secret"}
validate_github_instance == {"host"}
validate_app_connection_route == {"gatewayId"}
validate_github_destination == {"destination", "repositories"}
validate_github_key_schema == {"keySchema"}
GitHubAppConnectionCredentials ==
    validate_github_secret \cup {"installationId"} \cup validate_github_instance
GitHubAppConnectionCreation ==
    validate_automation_name \cup validate_input_description \cup validate_app_connection_route
GitHubAppConnectionChange == {"change"} \cup GitHubAppConnectionCreation
GitHubSecretSyncOptions == validate_github_key_schema
GitHubSecretSyncSource == {"connectionId"}
GitHubSecretSyncCreation ==
    validate_automation_name \cup validate_input_description \cup validate_github_destination
      \cup validate_github_key_schema
GitHubSecretSyncChange == {"change", "connectionId"} \cup GitHubSecretSyncCreation

(* What the schemas of the inputs promise to refuse ...                    *)
AppConnectionsListInput == {"projectId", "offset", "limit"}
ProjectPageInput == {"projectId", "offset", "limit"}
GitHubInstanceInput == {"host"}
GitHubAppConnectionCredentialsInput == {"secret", "installationId"} \cup GitHubInstanceInput
AppConnectionRouteInput == {"gatewayId"}
AutomationDescriptionChangeInput == {"description"}
GitHubAppConnectionTargetInput == {"connectionId"}
GitHubAppConnectionCreateInput ==
    {"name", "description", "projectId"} \cup GitHubAppConnectionCredentialsInput
      \cup AppConnectionRouteInput
GitHubAppConnectionUpdateInput ==
    {"connectionId", "name", "confirmCredentialReplacement"}
      \cup AutomationDescriptionChangeInput \cup GitHubAppConnectionCredentialsInput
      \cup AppConnectionRouteInput
GitHubAppConnectionDeleteInput == {"connectionId", "confirmDelete"}
GitHubAppConnectionCredentialRotationInput == {"connectionId", "confirm"}
GitHubSecretSyncDestinationInput == {"destination", "repositories"}
GitHubSecretSyncConfigInput == GitHubSecretSyncDestinationInput \cup {"keySchema"}
GitHubSecretSyncCreateInput ==
    {"projectId", "name", "description", "connectionId", "environment", "path",
     "confirmInitialOverwrite"} \cup GitHubSecretSyncConfigInput
GitHubSecretSyncTargetInput == {"projectId", "syncId"}
GitHubSecretSyncUpdateInput ==
    {"name", "connectionId", "environment", "path", "confirmUpdate"}
      \cup AutomationDescriptionChangeInput \cup GitHubSecretSyncTargetInput
      \cup GitHubSecretSyncConfigInput
GitHubSecretSyncDeleteInput ==
    {"confirmDelete", "confirmRemoteRemoval"} \cup GitHubSecretSyncTargetInput
GitHubSecretSyncConfirmedActionInput == {"confirm"} \cup GitHubSecretSyncTargetInput
Declares ==
    [list_app_connections |-> AppConnectionsListInput,
     get_github_app_connection |-> GitHubAppConnectionTargetInput,
     create_github_app_connection |-> GitHubAppConnectionCreateInput,
     update_github_app_connection |-> GitHubAppConnectionUpdateInput,
     delete_github_app_connection |-> GitHubAppConnectionDeleteInput,
     rotate_github_app_connection_credentials |-> GitHubAppConnectionCredentialRotationInput,
     list_secret_syncs |-> ProjectPageInput, list_secret_rotations |-> ProjectPageInput,
     get_github_secret_sync |-> GitHubSecretSyncTargetInput,
     create_github_secret_sync |-> GitHubSecretSyncCreateInput,
     update_github_secret_sync |-> GitHubSecretSyncUpdateInput,
     delete_github_secret_sync |-> GitHubSecretSyncDeleteInput,
     run_github_secret_sync |-> GitHubSecretSyncConfirmedActionInput,
     remove_github_secret_sync_secrets |-> GitHubSecretSyncConfirmedActionInput]

(* ... and what the conversions and the handlers refuse before the call.   *)
(* The identifiers of connections and syncs are left to the operations.    *)
page_request == {"offset", "limit"}
dispatch_app_automation_workflow ==
    [list_app_connections |-> {"projectId"} \cup page_request,
     list_secret_syncs |-> {"projectId"} \cup page_request,
     list_secret_rotations |-> {"projectId"} \cup page_request]
dispatch_github_app_connection_workflow ==
    [get_github_app_connection |-> {},
     create_github_app_connection |->
        {"projectId"} \cup GitHubAppConnectionCredentials \cup GitHubAppConnectionCreation,
     update_github_app_connection |->
        {"confirmCredentialReplacement"} \cup GitHubAppConnectionCredentials
          \cup GitHubAppConnectionChange,
     delete_github_app_connection |-> {"confirmDelete"},
     rotate_github_app_connection_credentials |-> {"confirm"}]
dispatch_github_secret_sync_workflow ==
    [get_github_secret_sync |-> {"projectId"},
     create_github_secret_sync |->
        {"projectId", "environment", "path", "confirmInitialOverwrite"}
          \cup GitHubSecretSyncSource \cup GitHubSecretSyncOptions \cup GitHubSecretSyncCreation,
     update_github_secret_sync |->
        {"projectId", "environment", "path", "confirmUpdate"}
          \cup GitHubSecretSyncOptions \cup GitHubSecretSyncChange,
     delete_github_secret_sync |-> {"projectId", "confirmDelete", "confirmRemoteRemoval"},
     run_github_secret_sync |-> {"projectId", "confirm"},
     remove_github_secret_sync_secrets |-> {"projectId", "confirm"}]
Handles == dispatch_app_automation_workflow @@ dispatch_github_app_connection_workflow
             @@ dispatch_github_secret_sync_workflow
Delivers == {}

Operations ==
    [list_app_connections |-> list_app_connections,
     get_github_app_connection |-> get_github_app_connection,
     create_github_app_connection |-> create_github_app_connection,
     update_github_app_connection |-> update_github_app_connection,
     delete_github_app_connection |-> delete_github_app_connection,
     rotate_github_app_connection_credentials |-> rotate_github_app_connection_credentials,
     list_secret_syncs |-> list_secret_syncs, list_secret_rotations |-> list_secret_rotations,
     get_github_secret_sync |-> get_github_secret_sync,
     create_github_secret_sync |-> create_github_secret_sync,
     update_github_secret_sync |-> update_github_secret_sync,
     delete_github_secret_sync |-> delete_github_secret_sync,
     run_github_secret_sync |-> run_github_secret_sync,
     remove_github_secret_sync_secrets |-> remove_github_secret_sync_secrets]
Alternatives ==
    [replace_github_app_credentials |->
        Way("update_github_app_connection", replace_github_app_credentials)]
Trusts == <<>>

app_automation_tools ==
    [list_app_connections |-> "readAudited", get_github_app_connection |-> "readAudited",
     create_github_app_connection |-> "write", update_github_app_connection |-> "destroy",
     delete_github_app_connection |-> "destroy",
     rotate_github_app_connection_credentials |-> "destroy",
     list_secret_syncs |-> "readAudited", list_secret_rotations |-> "readAudited",
     get_github_secret_sync |-> "readAudited", create_github_secret_sync |-> "destroy",
     update_github_secret_sync |-> "destroy", delete_github_secret_sync |-> "destroy",
     run_github_secret_sync |-> "destroy", remove_github_secret_sync_secrets |-> "destroy"]
Tiers == app_automation_tools
=============================================================================
