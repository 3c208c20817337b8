-------------------------- MODULE RotationOperations --------------------------
(***************************************************************************)
(* Rotations of SQL credentials: infisical-api/src/secret_rotation_sql.rs  *)
(* with its tools in infisical-mcp/src/tools.rs.  A rotation is addressed  *)
(* by its own identifier; a preflight shows that it lies in the project    *)
(* that the caller names and is of the provider's type.                    *)
(***************************************************************************)
EXTENDS ErrorFacts

Automation == INSTANCE AutomationOperations
Malformed == Automation!Malformed
-----------------------------------------------------------------------------
SqlSecretRotationFields ==
    {"name", "description", "connectionId", "environment", "path", "isAutoRotationEnabled",
     "rotationInterval", "rotateAtUtc", "parameters", "secretsMapping"}
SecretRotation == {"id", "form", "project", "known", "type"} \cup SqlSecretRotationFields
OneRotation == {"id", "project", "known", "type"}
GetSqlSecretRotation == Wire("rotation", ById("rotation"), OneRotation, SecretRotation)
GetSqlSecretRotationByName ==
    Wire("rotation", InScope, {"project", "known", "type", "name", "environment", "path"},
         SecretRotation)
CreateSqlSecretRotation ==
    Wire("rotation", InScope, {"project", "known", "type"} \cup SqlSecretRotationFields,
         SecretRotation)
SqlSecretRotationChangeFields == SqlSecretRotationFields \ {"connectionId", "environment", "path"}
UpdateSqlSecretRotation ==
    Wire("rotation", ById("rotation"), OneRotation \cup SqlSecretRotationChangeFields,
         SecretRotation)
DeleteSqlSecretRotation == Wire("rotation", ById("rotation"), OneRotation, SecretRotation)
GetSqlGeneratedCredentials ==
    Wire("credentials", ById("rotation"), {"id", "type"}, {"id", "type", "form"})
MoveSqlSecretRotation ==
    Wire("rotation", ById("rotation"), OneRotation \cup {"environment", "path"}, SecretRotation)
RotateSqlSecretRotation == Wire("rotation", ById("rotation"), OneRotation, SecretRotation)
(* It answers with nothing. *)
CheckSqlSecretRotation == Wire("rotation", ById("rotation"), {"id", "type"}, {})

into_validated(object) == Require(object, {"form", "project", "known"}, Malformed)
validate_rotation_response(object) ==
    into_validated(object) \o Require(object, {"id", "type"}, Malformed)
validate_change_result == Verify(SqlSecretRotationChangeFields, Malformed)
validate_generated_credentials == Verify({"id", "type", "form"}, Malformed)
rotation_environments == Automation!project_environments(Malformed)
preflight_sql_secret_rotation ==
    rotation_environments \o Observe(GetSqlSecretRotation)
      \o validate_rotation_response("rotation")

get_sql_secret_rotation == preflight_sql_secret_rotation
get_sql_secret_rotation_by_name ==
    rotation_environments \o Observe(GetSqlSecretRotationByName) \o into_validated("rotation")
      \o Require("rotation", {"type", "name", "environment", "path"}, Malformed)
(* The identifier is the one that the answer gives. *)
create_sql_secret_rotation ==
    Consent("confirmCreateCredentialsAndSecrets") \o rotation_environments
      \o Mutate(CreateSqlSecretRotation) \o into_validated("answer")
      \o Verify({"type"} \cup SqlSecretRotationFields, Malformed)
update_sql_secret_rotation ==
    Consent("confirmUpdateEffects")
      \o Check({"provider"}, "SqlSecretRotationProviderMismatch")
      \o preflight_sql_secret_rotation \o Mutate(UpdateSqlSecretRotation)
      \o validate_rotation_response("answer") \o validate_change_result
delete_sql_secret_rotation ==
    Consent("confirmDelete") \o preflight_sql_secret_rotation
      \o Mutate(DeleteSqlSecretRotation) \o validate_rotation_response("answer")
get_sql_generated_credentials ==
    Consent("confirmReveal") \o get_sql_secret_rotation
      \o Reveal(GetSqlGeneratedCredentials) \o validate_generated_credentials
move_sql_secret_rotation ==
    Consent("confirmMove") \o Consent("confirmOverwriteDestination")
      \o preflight_sql_secret_rotation \o Mutate(MoveSqlSecretRotation)
      \o validate_rotation_response("answer") \o Verify({"environment", "path"}, Malformed)
rotate_sql_secret_rotation ==
    Consent("confirm") \o preflight_sql_secret_rotation
      \o Mutate(RotateSqlSecretRotation) \o validate_rotation_response("answer")
check_sql_secret_rotation_credentials ==
    Consent("confirm") \o get_sql_secret_rotation \o Mutate(CheckSqlSecretRotation)
-----------------------------------------------------------------------------
(* The constructors of secret_rotation_sql.rs. *)
SqlSecretRotationName == {"name"}
validate_description == {"description"}
rotation_time_is_valid == {"rotateAtUtc"}
SqlSecretRotationParameters == {"username", "sameUsername", "rotationStatement", "passwordLength"}
SqlSecretRotationSecretsMapping == {"sameMapping"}
SqlSecretRotationTarget == {"rotationId"}
SqlSecretRotationCreation ==
    {"connectionId", "rotationInterval"} \cup validate_description \cup rotation_time_is_valid
SqlSecretRotationChange ==
    {"change", "rotationInterval"} \cup validate_description \cup rotation_time_is_valid

(* What the schemas of the inputs promise to refuse ...                    *)
SqlSecretRotationParametersInput ==
    {"username", "rotationStatement", "passwordLength", "allowedSymbols"}
SqlSecretRotationSecretsMappingInput == {"mappedName"}
SqlSecretRotationConfigInput ==
    SqlSecretRotationParametersInput \cup SqlSecretRotationSecretsMappingInput
SqlSecretRotationTargetInput == {"projectId", "rotationId"}
SqlSecretRotationNameTargetInput == {"projectId", "name", "environment", "path"}
SqlSecretRotationCreateInput ==
    {"projectId", "name", "description", "connectionId", "environment", "path",
     "rotationInterval", "rotateAtUtc", "confirmCreateCredentialsAndSecrets"}
      \cup SqlSecretRotationConfigInput
SqlSecretRotationUpdateInput ==
    {"projectId", "rotationId", "name", "description", "rotationInterval", "rotateAtUtc",
     "confirmUpdateEffects"} \cup SqlSecretRotationConfigInput
SqlMappedSecretDeletionInput == {"confirmMappedSecrets"}
SqlGeneratedCredentialDeletionInput == {"confirmGeneratedCredentials"}
SqlSecretRotationDeleteInput ==
    {"confirmDelete"} \cup SqlSecretRotationTargetInput \cup SqlMappedSecretDeletionInput
      \cup SqlGeneratedCredentialDeletionInput
SqlGeneratedCredentialsGetInput == {"confirmReveal"} \cup SqlSecretRotationTargetInput
SqlSecretRotationMoveInput ==
    {"environment", "path", "confirmMove", "confirmOverwriteDestination"}
      \cup SqlSecretRotationTargetInput
SqlSecretRotationConfirmedActionInput == {"confirm"} \cup SqlSecretRotationTargetInput
Declares ==
    [get_sql_secret_rotation |-> SqlSecretRotationTargetInput,
     get_sql_secret_rotation_by_name |-> SqlSecretRotationNameTargetInput,
     create_sql_secret_rotation |-> SqlSecretRotationCreateInput,
     update_sql_secret_rotation |-> SqlSecretRotationUpdateInput,
     delete_sql_secret_rotation |-> SqlSecretRotationDeleteInput,
     get_sql_generated_credentials |-> SqlGeneratedCredentialsGetInput,
     move_sql_secret_rotation |-> SqlSecretRotationMoveInput,
     rotate_sql_secret_rotation |-> SqlSecretRotationConfirmedActionInput,
     check_sql_secret_rotation_credentials |-> SqlSecretRotationConfirmedActionInput]

(* ... and what the conversions refuse before the call.                    *)
into_target == {"projectId"} \cup SqlSecretRotationTarget
into_parameters == {"allowedSymbols"} \cup SqlSecretRotationParameters
into_mapping == {"mappedName"} \cup SqlSecretRotationSecretsMapping
into_delete_parts == into_target \cup SqlSecretRotationDeleteInput
into_move_parts == into_target \cup SqlSecretRotationMoveInput
dispatch_sql_secret_rotation_workflow ==
    [get_sql_secret_rotation |-> into_target,
     get_sql_secret_rotation_by_name |->
        {"projectId", "environment", "path"} \cup SqlSecretRotationName,
     create_sql_secret_rotation |->
        {"confirmCreateCredentialsAndSecrets", "projectId", "environment", "path"}
          \cup SqlSecretRotationName \cup into_parameters \cup into_mapping
          \cup SqlSecretRotationCreation,
     update_sql_secret_rotation |->
        {"confirmUpdateEffects"} \cup into_target \cup SqlSecretRotationName
          \cup into_parameters \cup into_mapping \cup SqlSecretRotationChange,
     delete_sql_secret_rotation |-> into_delete_parts,
     get_sql_generated_credentials |-> {"confirmReveal", "delivery"} \cup into_target,
     move_sql_secret_rotation |-> into_move_parts,
     rotate_sql_secret_rotation |-> {"confirm"} \cup into_target,
     check_sql_secret_rotation_credentials |-> {"confirm"} \cup into_target]
Handles == dispatch_sql_secret_rotation_workflow
Delivers == {"get_sql_generated_credentials"}

Operations ==
    [get_sql_secret_rotation |-> get_sql_secret_rotation,
     get_sql_secret_rotation_by_name |-> get_sql_secret_rotation_by_name,
     create_sql_secret_rotation |-> create_sql_secret_rotation,
     update_sql_secret_rotation |-> update_sql_secret_rotation,
     delete_sql_secret_rotation |-> delete_sql_secret_rotation,
     get_sql_generated_credentials |-> get_sql_generated_credentials,
     move_sql_secret_rotation |-> move_sql_secret_rotation,
     rotate_sql_secret_rotation |-> rotate_sql_secret_rotation,
     check_sql_secret_rotation_credentials |-> check_sql_secret_rotation_credentials]
Alternatives == <<>>
Trusts == <<>>

sql_secret_rotation_tools ==
    [get_sql_secret_rotation |-> "readAudited", get_sql_secret_rotation_by_name |-> "readAudited",
     create_sql_secret_rotation |-> "destroy", update_sql_secret_rotation |-> "destroy",
     delete_sql_secret_rotation |-> "destroy", get_sql_generated_credentials |-> "readAudited",
     move_sql_secret_rotation |-> "destroy", rotate_sql_secret_rotation |-> "destroy",
     check_sql_secret_rotation_credentials |-> "write"]
Tiers == sql_secret_rotation_tools
=============================================================================
