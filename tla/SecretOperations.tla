--------------------------- MODULE SecretOperations ---------------------------
(***************************************************************************)
(* Secrets and secret imports: infisical-api/src/secrets.rs and            *)
(* secret_imports.rs, with their tools in infisical-mcp/src/tools.rs.      *)
(* Project, environment and path are part of every request.  A mutation    *)
(* can be answered by an approval, which names nothing: only what a caller *)
(* can compare in every answer is a facet of it.                           *)
(***************************************************************************)
EXTENDS ErrorFacts, ResourceInputs, TLC

Scoped(object, asks, answers) == Wire(object, InScope, asks, answers)
paginate(object) == Require(object, {"bounded"}, "Pagination")
Target == {"environment", "path"}
-----------------------------------------------------------------------------
(* secrets.rs *)
SecretMetadata == {"environment", "path", "tags"}
RevealedSecretWire == {"name", "environment", "path", "type"}
SecretMutationWire == {"name", "environment", "type"}
ListSecretMetadata ==
    Scoped("secrets", Target \cup {"tags", "bounded"}, SecretMetadata \cup {"bounded"})
RevealSecret == Scoped("secret", {"name", "type"} \cup Target, RevealedSecretWire)
SecretValueMutationRequest == {"name", "type"} \cup Target
DeleteSecretRequest == {"name", "type"} \cup Target
BatchSecretValueMutationRequest == {"name"} \cup Target
BatchDeleteSecretRequest == {"name", "type"} \cup Target
CreateSecret == Scoped("secret", SecretValueMutationRequest, SecretMutationWire)
UpdateSecret == Scoped("secret", SecretValueMutationRequest, SecretMutationWire)
DeleteSecret == Scoped("secret", DeleteSecretRequest, SecretMutationWire)
CreateSecretsBatch == Scoped("secrets", BatchSecretValueMutationRequest, SecretMutationWire)
UpdateSecretsBatch == Scoped("secrets", BatchSecretValueMutationRequest, SecretMutationWire)
DeleteSecretsBatch == Scoped("secrets", BatchDeleteSecretRequest, SecretMutationWire)

list_secret_metadata_filtered ==
    Check({"tagSlugs", "tagTwice"}, "InvalidSecretTagFilter") \o Read(ListSecretMetadata)
      \o Require("secrets", {"tags"}, "InvalidSecretTagResponse") \o paginate("secrets")
list_secret_metadata == list_secret_metadata_filtered
reveal_secret ==
    Read(RevealSecret) \o Require("secret", RevealedSecretWire, "InvalidSecretResponse")
mutate_secret_value(wire) == Mutate(wire)
create_secret == mutate_secret_value(CreateSecret)
update_secret == mutate_secret_value(UpdateSecret)
delete_secret == Consent("confirm") \o Mutate(DeleteSecret)
validate_secret_batch ==
    Check({"secrets"}, "InvalidSecretBatchSize") \o Check({"nameTwice"}, "DuplicateSecretName")
mutate_secret_batch(wire) == validate_secret_batch \o Mutate(wire)
create_secrets_batch == mutate_secret_batch(CreateSecretsBatch)
update_secrets_batch == mutate_secret_batch(UpdateSecretsBatch)
delete_secrets_batch ==
    Consent("confirm") \o validate_secret_batch \o Mutate(DeleteSecretsBatch)
-----------------------------------------------------------------------------
(* secret_imports.rs: an answer to a mutation does not name its target, and *)
(* the target of the call is written into the result.                      *)
SecretImportSource == {"sourceEnvironment", "sourcePath"}
SecretImportWire == {"id"} \cup SecretImportSource
ScopedSecretImportWire == {"target"} \cup SecretImportWire
CreateSecretImportRequest == {"target"} \cup SecretImportSource
UpdateSecretImportRequest == {"target", "id"} \cup SecretImportSource
DeleteSecretImportRequest == {"target", "id"}
ListSecretImports == Scoped("imports", {"target", "bounded"}, SecretImportWire \cup {"bounded"})
GetSecretImport == Scoped("import", {"id"}, ScopedSecretImportWire)
CreateSecretImport == Scoped("import", CreateSecretImportRequest, SecretImportWire)
UpdateSecretImport == Scoped("import", UpdateSecretImportRequest, SecretImportWire)
DeleteSecretImport == Scoped("import", DeleteSecretImportRequest, SecretImportWire)

source_matches_target == Check({"cycle"}, "CyclicSecretImport")
list_secret_imports == Read(ListSecretImports) \o paginate("imports")
get_secret_import == Read(GetSecretImport)
create_secret_import == source_matches_target \o Mutate(CreateSecretImport)
update_secret_import == source_matches_target \o Mutate(UpdateSecretImport)
delete_secret_import == Consent("confirm") \o Mutate(DeleteSecretImport)
-----------------------------------------------------------------------------
(* What the schemas of the inputs promise to refuse.                       *)
SecretMetadataListInput ==
    {"projectId", "environment", "path", "offset", "limit", "tagSlugs", "tagTwice"}
SecretTargetInput == {"projectId", "environment", "path", "name"}
SecretTargetOnlyInput == SecretTargetInput \cup {"delivery"}
SecretValueMutationInput == SecretTargetInput \cup {"secretValue"}
SecretDeleteInput == SecretTargetInput \cup {"confirm"}
ExactSecretScopeInput == {"projectId", "environment", "path"}
SecretBatchValueMutationInput ==
    ExactSecretScopeInput \cup {"secrets", "nameTwice", "name"}
SecretBatchDeleteInput == ExactSecretScopeInput \cup {"secrets", "nameTwice", "name", "confirm"}
SecretImportSourceInput == {"sourceEnvironment", "sourcePath"}
SecretImportsListInput == ExactSecretScopeInput \cup {"offset", "limit"}
SecretImportGetInput == {"importId"}
SecretImportCreateInput == ExactSecretScopeInput \cup SecretImportSourceInput \cup {"cycle"}
SecretImportChangeInput == SecretImportSourceInput \cup {"position"}
SecretImportUpdateInput ==
    ExactSecretScopeInput \cup {"importId", "cycle"} \cup SecretImportChangeInput
SecretImportDeleteInput == ExactSecretScopeInput \cup {"importId", "confirm"}
Declares ==
    [list_secret_metadata |-> SecretMetadataListInput, reveal_secret |-> SecretTargetOnlyInput,
     create_secret |-> SecretValueMutationInput, update_secret |-> SecretValueMutationInput,
     delete_secret |-> SecretDeleteInput,
     create_secrets_batch |-> SecretBatchValueMutationInput,
     update_secrets_batch |-> SecretBatchValueMutationInput,
     delete_secrets_batch |-> SecretBatchDeleteInput,
     list_secret_imports |-> SecretImportsListInput,
     get_secret_import |-> SecretImportGetInput, create_secret_import |-> SecretImportCreateInput,
     update_secret_import |-> SecretImportUpdateInput,
     delete_secret_import |-> SecretImportDeleteInput]

(* What the handlers refuse.                                               *)
page_request == PageRequest
into_scope == SecretScope
metadata_into_scope_page == into_scope \cup page_request \cup {"tagSlugs"}
target_into_parts == into_scope \cup SecretName
resolve_delivery == {"delivery"}
resolve_secret_value == {"secretValue"}
value_into_parts == target_into_parts \cup resolve_secret_value
delete_into_confirmed_parts == target_into_parts \cup {"confirm"}
batch_into_parts == into_scope \cup SecretName
batch_into_confirmed_parts == {"confirm"} \cup into_scope \cup SecretName
source_into_parts == {"sourceEnvironment", "sourcePath"}
change_into_change == source_into_parts \cup SecretImportPosition
imports_into_parts == into_scope \cup page_request
import_create_into_parts == into_scope \cup source_into_parts
import_update_into_parts == into_scope \cup SecretImportId \cup change_into_change
import_into_confirmed_parts == into_scope \cup SecretImportId \cup {"confirm"}
dispatch_secret_metadata_list == [list_secret_metadata |-> metadata_into_scope_page]
dispatch_secret_workflow ==
    [reveal_secret |-> resolve_delivery \cup target_into_parts,
     create_secret |-> value_into_parts, update_secret |-> value_into_parts,
     delete_secret |-> delete_into_confirmed_parts,
     create_secrets_batch |-> batch_into_parts, update_secrets_batch |-> batch_into_parts,
     delete_secrets_batch |-> batch_into_confirmed_parts]
dispatch_secret_import_workflow ==
    [list_secret_imports |-> imports_into_parts, get_secret_import |-> SecretImportId,
     create_secret_import |-> import_create_into_parts,
     update_secret_import |-> import_update_into_parts,
     delete_secret_import |-> import_into_confirmed_parts]
Handles == dispatch_secret_metadata_list @@ dispatch_secret_workflow
             @@ dispatch_secret_import_workflow
Delivers == {"reveal_secret"}

Operations ==
    [list_secret_metadata |-> list_secret_metadata, reveal_secret |-> reveal_secret,
     create_secret |-> create_secret, update_secret |-> update_secret,
     delete_secret |-> delete_secret, create_secrets_batch |-> create_secrets_batch,
     update_secrets_batch |-> update_secrets_batch,
     delete_secrets_batch |-> delete_secrets_batch,
     list_secret_imports |-> list_secret_imports, get_secret_import |-> get_secret_import,
     create_secret_import |-> create_secret_import,
     update_secret_import |-> update_secret_import,
     delete_secret_import |-> delete_secret_import]
Alternatives == <<>>

(* Answers handed on although they could be compared with the call.        *)
Trusts ==
    [list_secret_metadata |-> {"secrets"} \X Target]
    @@ [o \in {"create_secret", "update_secret", "delete_secret", "delete_secrets_batch"} |->
          {"answer"} \X SecretMutationWire]
    @@ [o \in {"create_secrets_batch", "update_secrets_batch"} |->
          {"answer"} \X {"name", "environment"}]
    @@ [get_secret_import |-> {<<"import", "id">>},
        create_secret_import |-> {"answer"} \X SecretImportSource,
        update_secret_import |-> {"answer"} \X ({"id"} \cup SecretImportSource),
        delete_secret_import |-> {<<"answer", "id">>}]

secret_tools ==
    [o \in {"list_secret_metadata", "reveal_secret"} |-> "read"]
    @@ [o \in {"create_secret", "update_secret", "create_secrets_batch",
               "update_secrets_batch"} |-> "write"]
    @@ [o \in {"delete_secret", "delete_secrets_batch"} |-> "destroy"]
secret_import_tools ==
    [o \in {"list_secret_imports", "get_secret_import"} |-> "read"]
    @@ [o \in {"create_secret_import", "update_secret_import"} |-> "write"]
    @@ [delete_secret_import |-> "destroy"]
Tiers == secret_tools @@ secret_import_tools
=============================================================================
