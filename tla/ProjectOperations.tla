-------------------------- MODULE ProjectOperations --------------------------
(***************************************************************************)
(* Projects, environments, folders and tags: infisical-api/src/projects.rs,*)
(* project_admin.rs, folders.rs and tags.rs, with their tools in           *)
(* infisical-mcp/src/tools.rs.  The request carries the project, or the    *)
(* project, environment and path, so Infisical itself keeps it in scope;   *)
(* only a folder is read by a bare identifier.  Collections come whole and *)
(* are cut into pages locally: "bounded" is the limit of that.             *)
(***************************************************************************)
EXTENDS ErrorFacts, ResourceInputs, TLC

Scoped(object, asks, answers) == Wire(object, InScope, asks, answers)
paginate(object) == Require(object, {"bounded"}, "Pagination")
-----------------------------------------------------------------------------
(* projects.rs *)
Project == {"id", "name", "slug", "kind", "description"}
Environment == {"id", "name", "slug"}
GetProjectResponse == {"exists"} \cup Project
ListProjects == Scoped("projects", {}, {"bounded"})
GetProject == Scoped("project", {"id"}, GetProjectResponse)
(* What callers look for in a project: that it is there, and of their kind. *)
GetProjectOf(facets) == [GetProject EXCEPT !.asks = @ \cup facets]

list_projects == Read(ListProjects) \o paginate("projects")
get_project_for(facets) ==
    Read(GetProjectOf(facets)) \o Require("project", {"id"}, "InvalidProjectResponse")
get_project == get_project_for({})
list_environments ==
    Read([GetProject EXCEPT !.asks = @ \cup {"bounded"}, !.answers = @ \cup {"bounded"}])
      \o Require("project", {"id"}, "InvalidProjectResponse") \o paginate("project")
-----------------------------------------------------------------------------
(* project_admin.rs *)
ProjectCreation == {"name", "slug", "kind", "description"}
ProjectChange == {"name", "slug", "description"}
EnvironmentCreation == {"name", "slug"}
EnvironmentChange == {"name", "slug"}
OptionalProjectResponse == {"exists"} \cup Project
CreateProject == Scoped("project", ProjectCreation, Project)
UpdateProject == Scoped("project", {"id"} \cup ProjectChange, Project)
DeleteProject == Scoped("project", {"id", "exists"}, OptionalProjectResponse)
GetEnvironment == Scoped("environment", {"id"}, Environment)
CreateEnvironment == Scoped("environment", EnvironmentCreation, Environment)
UpdateEnvironment == Scoped("environment", {"id"} \cup EnvironmentChange, Environment)
DeleteEnvironment == Scoped("environment", {"id"}, Environment)
RestoreEnvironment == Scoped("environment", {"id"}, Environment)

create_project == Mutate(CreateProject)
update_project == Mutate(UpdateProject)
delete_project ==
    Consent("confirm") \o Mutate(DeleteProject) \o Verify({"exists"}, "MissingMutationResource")
get_environment == Read(GetEnvironment)
create_environment == Mutate(CreateEnvironment)
update_environment == Mutate(UpdateEnvironment)
delete_environment == Consent("confirm") \o Mutate(DeleteEnvironment)
restore_environment == Mutate(RestoreEnvironment)
-----------------------------------------------------------------------------
(* folders.rs *)
Folder == {"id", "name", "description", "path", "environment", "projectId"}
FolderParent == {"projectId", "environment", "path"}
FolderCreation == FolderParent \cup {"name", "description"}
FolderUpdate == FolderParent \cup {"id", "name", "description"}
FolderBatchUpdate == FolderParent \cup {"id", "name", "description"}
ListFolders == Scoped("folders", FolderParent \cup {"bounded"}, FolderParent \cup {"bounded"})
GetFolder == Scoped("folder", {"id"}, Folder)
CreateFolder == Scoped("folder", FolderCreation, Folder)
UpdateFolder == Scoped("folder", FolderUpdate, Folder)
UpdateFoldersBatch == Scoped("folders", FolderBatchUpdate, Folder)
DeleteFolder == Scoped("folder", {"id"} \cup FolderParent, Folder)

validate_folder_batch ==
    Check({"folders"}, "InvalidFolderBatchSize") \o Check({"folderTwice"}, "DuplicateFolderId")
list_folders == Read(ListFolders) \o paginate("folders")
get_folder == Read(GetFolder)
create_folder == Mutate(CreateFolder)
update_folder == Mutate(UpdateFolder)
update_folders_batch == validate_folder_batch \o Mutate(UpdateFoldersBatch)
delete_folder == Consent("confirm") \o Mutate(DeleteFolder)
-----------------------------------------------------------------------------
(* tags.rs *)
Tag == {"id", "slug", "projectId", "color"}
TagSelector == {"id", "slug"}
TagCreation == {"slug", "color"}
TagUpdate == {"slug", "color"}
ListTags == Scoped("tags", {"projectId", "bounded"}, {"projectId", "bounded"})
GetTag == Scoped("tag", {"projectId"} \cup TagSelector, Tag)
CreateTag == Scoped("tag", {"projectId"} \cup TagCreation, Tag)
UpdateTag == Scoped("tag", {"projectId", "id"} \cup TagUpdate, Tag)
DeleteTag == Scoped("tag", {"projectId", "id"}, Tag)

list_tags == Read(ListTags) \o paginate("tags")
get_tag == Read(GetTag)
create_tag == Mutate(CreateTag)
update_tag == Mutate(UpdateTag)
delete_tag == Consent("confirm") \o Mutate(DeleteTag)
-----------------------------------------------------------------------------
(* What the schemas of the inputs promise to refuse.                       *)
ProjectsListInput == {"offset", "limit"}
ProjectGetInput == {"projectId"}
ProjectCreateInput == {"name", "description", "slug"}
ProjectChangeInput == {"name", "description", "slug", "versionLimit"}
ProjectUpdateInput == {"projectId"} \cup ProjectChangeInput
ProjectDeleteInput == {"projectId", "confirm"}
EnvironmentTargetInput == {"projectId", "environmentId"}
EnvironmentCreateInput == {"projectId", "name", "slug", "position"}
EnvironmentChangeInput == {"name", "slug", "position"}
EnvironmentUpdateInput == EnvironmentTargetInput \cup EnvironmentChangeInput
EnvironmentDeleteInput == EnvironmentTargetInput \cup {"confirm"}
ProjectPageInput == {"projectId", "offset", "limit"}
SecretScopePageInput == {"projectId", "environment", "path", "offset", "limit"}
FolderParentInput == {"projectId", "environment", "path"}
FolderTargetInput == FolderParentInput \cup {"folderId"}
FolderCreateInput == FolderParentInput \cup {"name", "description"}
FolderUpdateInput == FolderTargetInput \cup {"name", "description"}
FolderBatchUpdateEntryInput == {"folderId", "environment", "path", "name", "description"}
FolderBatchUpdateInput == {"projectId", "folders", "folderTwice"} \cup FolderBatchUpdateEntryInput
FolderDeleteInput == FolderTargetInput \cup {"confirm"}
TagSelectorInput == {"tagId", "slug"}
TagGetInput == {"projectId"} \cup TagSelectorInput
TagTargetInput == {"projectId", "tagId"}
TagCreateInput == {"projectId", "slug", "color"}
TagUpdateInput == TagTargetInput \cup {"slug", "color"}
TagDeleteInput == TagTargetInput \cup {"confirm"}
Declares ==
    [list_projects |-> ProjectsListInput, get_project |-> ProjectGetInput,
     create_project |-> ProjectCreateInput, update_project |-> ProjectUpdateInput,
     delete_project |-> ProjectDeleteInput, list_environments |-> ProjectPageInput,
     get_environment |-> EnvironmentTargetInput, create_environment |-> EnvironmentCreateInput,
     update_environment |-> EnvironmentUpdateInput, delete_environment |-> EnvironmentDeleteInput,
     restore_environment |-> EnvironmentTargetInput,
     list_folders |-> SecretScopePageInput, get_folder |-> {"folderId"},
     create_folder |-> FolderCreateInput, update_folder |-> FolderUpdateInput,
     update_folders_batch |-> FolderBatchUpdateInput, delete_folder |-> FolderDeleteInput,
     list_tags |-> ProjectPageInput, get_tag |-> TagGetInput, create_tag |-> TagCreateInput,
     update_tag |-> TagUpdateInput, delete_tag |-> TagDeleteInput]

(* What the handlers refuse: the conversions, and a missing confirmation    *)
(* after the conversion of the target.                                     *)
page_request == PageRequest
project_change_into_change ==
    ProjectName \cup ProjectDescription \cup ProjectSlug \cup PointInTimeVersionLimit
project_creation_into_creation == ProjectName \cup ProjectDescription \cup NewProjectSlug
project_into_confirmed_project_id == ProjectId \cup {"confirm"}
environment_into_parts == ProjectId \cup EnvironmentId
environment_creation_into_parts ==
    ProjectId \cup EnvironmentName \cup {"slug"} \cup EnvironmentPosition
environment_change_into_change == EnvironmentName \cup {"slug"} \cup EnvironmentPosition
project_page_into_parts == ProjectId \cup page_request
scope_page_into_parts == SecretScope \cup page_request
folder_into_parent == ProjectId \cup EnvironmentSlug \cup SecretPath
folder_into_parts == folder_into_parent \cup FolderId
folder_into_creation == folder_into_parent \cup FolderName \cup FolderDescription
folder_into_update == folder_into_parts \cup FolderName \cup FolderDescription
folder_entry_into_update ==
    FolderId \cup EnvironmentSlug \cup SecretPath \cup FolderName \cup FolderDescription
folder_batch_into_parts == ProjectId \cup {"folders"} \cup folder_entry_into_update
tag_into_selector == TagId \cup TagSlug
tag_into_parts == ProjectId \cup TagId
tag_creation_into_parts == ProjectId \cup TagSlug \cup TagColor
dispatch_project_workflow ==
    [list_projects |-> page_request, get_project |-> ProjectId,
     create_project |-> project_creation_into_creation,
     update_project |-> ProjectId \cup project_change_into_change,
     delete_project |-> project_into_confirmed_project_id]
dispatch_environment_workflow ==
    [list_environments |-> project_page_into_parts, get_environment |-> environment_into_parts,
     create_environment |-> environment_creation_into_parts,
     update_environment |-> environment_into_parts \cup environment_change_into_change,
     delete_environment |-> environment_into_parts \cup {"confirm"},
     restore_environment |-> environment_into_parts]
dispatch_folder_workflow ==
    [list_folders |-> scope_page_into_parts, get_folder |-> FolderId,
     create_folder |-> folder_into_creation, update_folder |-> folder_into_update,
     update_folders_batch |-> folder_batch_into_parts,
     delete_folder |-> folder_into_parts \cup {"confirm"}]
dispatch_tag_workflow ==
    [list_tags |-> project_page_into_parts, get_tag |-> ProjectId \cup tag_into_selector,
     create_tag |-> tag_creation_into_parts, update_tag |-> tag_into_parts \cup TagSlug \cup TagColor,
     delete_tag |-> tag_into_parts \cup {"confirm"}]
Handles == dispatch_project_workflow @@ dispatch_environment_workflow
             @@ dispatch_folder_workflow @@ dispatch_tag_workflow
Delivers == {}

Operations ==
    [list_projects |-> list_projects, get_project |-> get_project,
     create_project |-> create_project, update_project |-> update_project,
     delete_project |-> delete_project, list_environments |-> list_environments,
     get_environment |-> get_environment, create_environment |-> create_environment,
     update_environment |-> update_environment, delete_environment |-> delete_environment,
     restore_environment |-> restore_environment,
     list_folders |-> list_folders, get_folder |-> get_folder, create_folder |-> create_folder,
     update_folder |-> update_folder, update_folders_batch |-> update_folders_batch,
     delete_folder |-> delete_folder, list_tags |-> list_tags, get_tag |-> get_tag,
     create_tag |-> create_tag, update_tag |-> update_tag, delete_tag |-> delete_tag]
Alternatives == <<>>

(* Answers handed on although they could be compared with the call.        *)
Trusts ==
    [create_project |-> {"answer"} \X ProjectCreation,
     update_project |-> {"answer"} \X ({"id"} \cup ProjectChange),
     delete_project |-> {<<"answer", "id">>},
     get_environment |-> {<<"environment", "id">>},
     create_environment |-> {"answer"} \X EnvironmentCreation,
     update_environment |-> {"answer"} \X ({"id"} \cup EnvironmentChange),
     delete_environment |-> {<<"answer", "id">>}, restore_environment |-> {<<"answer", "id">>},
     list_folders |-> {"folders"} \X FolderParent, get_folder |-> {<<"folder", "id">>},
     create_folder |-> {"answer"} \X FolderCreation,
     update_folder |-> {"answer"} \X FolderUpdate,
     update_folders_batch |-> {"answer"} \X FolderBatchUpdate,
     delete_folder |-> {"answer"} \X ({"id"} \cup FolderParent),
     list_tags |-> {<<"tags", "projectId">>},
     get_tag |-> {"tag"} \X ({"projectId"} \cup TagSelector),
     create_tag |-> {"answer"} \X ({"projectId"} \cup TagCreation),
     update_tag |-> {"answer"} \X ({"projectId", "id"} \cup TagUpdate),
     delete_tag |-> {"answer"} \X {"projectId", "id"}]

discovery_tools == [o \in {"list_projects", "get_project"} |-> "read"]
project_environment_tools ==
    [o \in {"list_environments", "get_environment"} |-> "read"]
    @@ [o \in {"create_project", "update_project", "create_environment", "update_environment",
               "restore_environment"} |-> "write"]
    @@ [o \in {"delete_project", "delete_environment"} |-> "destroy"]
folder_tag_tools ==
    [o \in {"list_folders", "get_folder", "list_tags", "get_tag"} |-> "read"]
    @@ [o \in {"create_folder", "update_folder", "update_folders_batch", "create_tag",
               "update_tag"} |-> "write"]
    @@ [o \in {"delete_folder", "delete_tag"} |-> "destroy"]
Tiers == discovery_tools @@ project_environment_tools @@ folder_tag_tools
=============================================================================
