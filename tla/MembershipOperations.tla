------------------------ MODULE MembershipOperations ------------------------
(***************************************************************************)
(* Who may do what in a project: infisical-api/src/project_memberships.rs, *)
(* roles.rs, groups.rs, identity_project_additional_privileges.rs and      *)
(* audit_logs.rs, with their tools in infisical-mcp/src/tools.rs.  Most    *)
(* requests carry the project; a privilege is addressed by a bare          *)
(* identifier, and found first among those of its project and identity.    *)
(***************************************************************************)
EXTENDS ErrorFacts, TLC

Scoped(object, asks, answers) == Wire(object, InScope, asks, answers)
paginate(object) == Require(object, {"bounded"}, "Pagination")
-----------------------------------------------------------------------------
(* project_memberships.rs *)
UserMembershipWire == {"id", "project", "user", "roles"}
ProjectMembershipReceipt == {"id", "project", "principal"}
ListUserMemberships ==
    Scoped("memberships", {"project", "bounded"}, {"bounded"} \cup UserMembershipWire)
GetUserMembership == Scoped("membership", {"id", "project"}, UserMembershipWire)
InviteUsers == Scoped("invitation", {"project", "principal", "roles"}, ProjectMembershipReceipt)
UpdateUserMembership == Scoped("membership", {"id", "project", "roles"}, {"roles"})
DeleteUserMembership == Scoped("membership", {"id", "project"}, ProjectMembershipReceipt)
(* The project is not in the answer: it is copied from the call.           *)
IdentityMembershipWire == {"id", "principal", "roles"}
ListIdentityMemberships ==
    Scoped("memberships", {"project", "page"}, {"page"} \cup IdentityMembershipWire)
GetIdentityMembership == Scoped("membership", {"project", "principal"}, IdentityMembershipWire)
IdentityMembershipMutation ==
    Scoped("membership", {"project", "principal", "roles"}, ProjectMembershipReceipt)
DeleteIdentityMembership ==
    Scoped("membership", {"project", "principal"}, ProjectMembershipReceipt)

list_project_user_memberships == Read(ListUserMemberships) \o paginate("memberships")
get_project_user_membership == Read(GetUserMembership)
invite_project_users == Mutate(InviteUsers)
update_project_user_membership ==
    Consent("confirmReplaceAllRoles") \o Mutate(UpdateUserMembership)
delete_project_user_membership == Consent("confirm") \o Mutate(DeleteUserMembership)
list_project_identity_memberships ==
    Read(ListIdentityMemberships) \o Require("memberships", {"page"}, "Pagination")
get_project_identity_membership == Read(GetIdentityMembership)
mutate_project_identity_membership == Mutate(IdentityMembershipMutation)
create_project_identity_membership == mutate_project_identity_membership
update_project_identity_membership ==
    Consent("confirmReplaceAllRoles") \o mutate_project_identity_membership
delete_project_identity_membership == Consent("confirm") \o Mutate(DeleteIdentityMembership)
-----------------------------------------------------------------------------
(* roles.rs *)
UpstreamRole == {"slug", "name", "project", "form", "permissions"}
ListProjectRoles == Scoped("roles", {"project", "bounded"}, {"bounded"} \cup UpstreamRole)
GetProjectRole == Scoped("role", {"project", "slug", "permissions"}, UpstreamRole)
ListOrganizationRoles == Scoped("roles", {"bounded"}, {"bounded"} \cup UpstreamRole)
GetOrganizationRole == Scoped("role", {"slug", "permissions"}, UpstreamRole)
into_project_summary(object) == Require(object, {"project"}, "InvalidRoleScope")
into_organization_summary(object) == Require(object, {"form"}, "InvalidRoleScope")
with_permissions == Require("role", {"permissions"}, "MissingRolePermissions")

list_project_roles ==
    Read(ListProjectRoles) \o into_project_summary("roles") \o paginate("roles")
get_project_role == Read(GetProjectRole) \o with_permissions \o into_project_summary("role")
list_organization_roles ==
    Read(ListOrganizationRoles) \o into_organization_summary("roles") \o paginate("roles")
get_organization_role ==
    Read(GetOrganizationRole) \o with_permissions \o into_organization_summary("role")
-----------------------------------------------------------------------------
(* groups.rs *)
ProjectGroupMembership == {"project", "group", "form"}
ListGroups == Scoped("groups", {"bounded"}, {"bounded"})
GetGroup == Scoped("group", {"id"}, {"id", "name"})
ListGroupMembers == Scoped("members", {"group", "type", "page"}, {"type", "page", "form"})
ListGroupProjects == Scoped("projects", {"group", "filter", "page"}, {"filter", "page"})
ListProjectGroupMemberships ==
    Scoped("memberships", {"project", "bounded"}, {"bounded"} \cup ProjectGroupMembership)
GetProjectGroupMembership == Scoped("membership", {"project", "group"}, ProjectGroupMembership)
validate_membership_scope(object, scope) ==
    Require(object, {"form"} \cup scope, "InvalidGroupMembershipScope")

list_groups == Read(ListGroups) \o paginate("groups")
get_group == Read(GetGroup) \o Require("group", {"id"}, "InvalidGroupResponse")
list_group_members ==
    Read(ListGroupMembers) \o Require("members", {"type", "form"}, "InvalidGroupResponse")
      \o Require("members", {"page"}, "Pagination")
list_group_projects ==
    Read(ListGroupProjects) \o Require("projects", {"filter"}, "InvalidGroupProjectAssignment")
      \o Require("projects", {"page"}, "Pagination")
list_project_group_memberships ==
    Read(ListProjectGroupMemberships) \o validate_membership_scope("memberships", {"project"})
      \o paginate("memberships")
get_project_group_membership ==
    Read(GetProjectGroupMembership)
      \o validate_membership_scope("membership", {"project", "group"})
-----------------------------------------------------------------------------
(* identity_project_additional_privileges.rs *)
PrivilegeScope == {"project", "identity"}
PrivilegeSummaryWire == {"id", "slug", "lifetime", "form"} \cup PrivilegeScope
PrivilegeWire == {"permissions"} \cup PrivilegeSummaryWire
AdditionalPrivilegeCreation == {"slug", "permissions", "lifetime"}
AdditionalPrivilegeChange == {"slug", "permissions", "lifetime"}
ListPrivileges(facets) ==
    Scoped("privileges", PrivilegeScope \cup facets,
           {"listed", "bounded"} \cup PrivilegeSummaryWire)
OfPrivilege(asks) == Wire("privilege", {<<"privileges", "listed">>}, asks, PrivilegeWire)
GetPrivilege == OfPrivilege({"id"} \cup PrivilegeScope)
GetPrivilegeBySlug == Scoped("privilege", {"id", "slug"} \cup PrivilegeScope, PrivilegeWire)
CreatePrivilege ==
    Scoped("privilege", PrivilegeScope \cup AdditionalPrivilegeCreation, PrivilegeWire)
UpdatePrivilege == OfPrivilege({"id"} \cup PrivilegeScope \cup AdditionalPrivilegeChange)
DeletePrivilege == GetPrivilege

bind_scope(object) == Require(object, PrivilegeScope, "InvalidAdditionalPrivilegeScope")
(* What is compared with the call, and in which order. *)
validate_summary(object, facets) ==
    Require(object, PrivilegeScope \cup (facets \cap {"id", "slug"}),
            "InvalidAdditionalPrivilegeScope")
      \o Require(object, {"form"}, "InvalidAdditionalPrivilegeLifetime")
validate_exact(object, facets) ==
    validate_summary(object, facets)
      \o Require(object, {"form"} \cup (facets \cap {"permissions"}),
                 "InvalidAdditionalPrivilegePermissions")
      \o Require(object, facets \cap {"lifetime"}, "InvalidAdditionalPrivilegeLifetime")

scoped_identity_project_additional_privileges(facets) ==
    Read(ListPrivileges(facets)) \o bind_scope("privileges") \o validate_summary("privileges", {})
preflight_identity_project_additional_privilege ==
    scoped_identity_project_additional_privileges({"listed"})
      \o Require("privileges", {"listed"}, "InvalidAdditionalPrivilegeScope")
list_identity_project_additional_privileges ==
    scoped_identity_project_additional_privileges({"bounded"}) \o paginate("privileges")
get_identity_project_additional_privilege ==
    preflight_identity_project_additional_privilege
      \o Read(GetPrivilege) \o bind_scope("privilege") \o validate_exact("privilege", {"id"})
get_identity_project_additional_privilege_by_slug ==
    preflight_identity_project_additional_privilege
      \o Read(GetPrivilegeBySlug) \o bind_scope("privilege")
      \o Require("privilege", {"id"}, "InvalidAdditionalPrivilegeScope")
      \o validate_exact("privilege", {"slug"})
create_identity_project_additional_privilege ==
    Mutate(CreatePrivilege) \o bind_scope("answer")
      \o validate_exact("answer", AdditionalPrivilegeCreation)
update_identity_project_additional_privilege ==
    preflight_identity_project_additional_privilege
      \o Mutate(UpdatePrivilege) \o bind_scope("answer")
      \o validate_exact("answer", {"id"} \cup AdditionalPrivilegeChange)
delete_identity_project_additional_privilege ==
    Consent("confirmDelete") \o preflight_identity_project_additional_privilege
      \o Mutate(DeletePrivilege) \o bind_scope("answer") \o validate_exact("answer", {"id"})
-----------------------------------------------------------------------------
(* audit_logs.rs: filters on an event's metadata need a project, and events *)
(* that carry them; every event is held against every filter.              *)
ListAuditLogsQuery ==
    {"project", "actorType", "userAgentType", "eventTypes", "metadata", "timeRange", "page"}
RawAuditLog == {"form"} \cup ListAuditLogsQuery
ListAuditLogs == Scoped("auditLogs", ListAuditLogsQuery, RawAuditLog)
validate ==
    Check({"metadataProject"}, "AuditLogMetadataFilterRequiresProject")
      \o Check({"metadataEvent"}, "AuditLogMetadataFilterRequiresSecretEvent")
into_validated ==
    Require("auditLogs", {"form"}, "InvalidAuditLogResponse")
      \o Require("auditLogs", ListAuditLogsQuery \ {"timeRange", "page"}, "InvalidAuditLogResponse")
      \o Require("auditLogs", {"timeRange"}, "InvalidAuditLogResponse")

list_audit_logs ==
    validate \o Observe(ListAuditLogs) \o into_validated
      \o Require("auditLogs", {"page"}, "Pagination")
-----------------------------------------------------------------------------
(* What the schemas of the inputs promise to refuse ...                    *)
PageInput == {"offset", "limit"}
ProjectMembershipPageInput == {"projectId"} \cup PageInput
ProjectPageInput == ProjectMembershipPageInput
ProjectUserMembershipTargetInput == {"projectId", "membershipId"}
ProjectUserMembershipInviteInput == {"projectId", "emails", "usernames", "roles"}
ProjectUserMembershipUpdateInput ==
    ProjectUserMembershipTargetInput \cup {"roles", "confirmReplaceAllRoles"}
ProjectUserMembershipDeleteInput == ProjectUserMembershipTargetInput \cup {"confirm"}
ProjectIdentityMembershipTargetInput == {"projectId", "identityId"}
ProjectIdentityMembershipRoleInput == ProjectIdentityMembershipTargetInput \cup {"roles"}
ProjectIdentityMembershipUpdateInput ==
    ProjectIdentityMembershipRoleInput \cup {"confirmReplaceAllRoles"}
ProjectIdentityMembershipDeleteInput == ProjectIdentityMembershipTargetInput \cup {"confirm"}
ProjectRoleTargetInput == {"projectId", "roleSlug"}
OrganizationRolesListInput == PageInput
OrganizationRoleTargetInput == {"roleSlug"}
GroupsListInput == PageInput
GroupTargetInput == {"groupId"}
GroupMembersListInput == GroupTargetInput \cup PageInput
GroupProjectsListInput == GroupTargetInput \cup PageInput
ProjectGroupMembershipTargetInput == {"projectId", "groupId"}
PrivilegesListInput == {"projectId", "identityId"} \cup PageInput
PrivilegeTargetInput == {"projectId", "identityId", "privilegeId"}
PrivilegeBySlugInput == {"projectId", "projectSlug", "identityId", "privilegeSlug"}
PrivilegeCreateInput == {"projectId", "identityId", "slug", "permissions", "lifetime"}
PrivilegeUpdateInput == {"privilegeId"} \cup PrivilegeCreateInput
PrivilegeDeleteInput == PrivilegeTargetInput \cup {"confirmDelete"}
AuditLogsListInput ==
    {"projectId", "environment", "secretPath", "secretKey", "eventTypes", "timeRange"}
      \cup PageInput
Declares ==
    [list_project_user_memberships |-> ProjectMembershipPageInput,
     get_project_user_membership |-> ProjectUserMembershipTargetInput,
     invite_project_users |-> ProjectUserMembershipInviteInput,
     update_project_user_membership |-> ProjectUserMembershipUpdateInput,
     delete_project_user_membership |-> ProjectUserMembershipDeleteInput,
     list_project_identity_memberships |-> ProjectMembershipPageInput,
     get_project_identity_membership |-> ProjectIdentityMembershipTargetInput,
     create_project_identity_membership |-> ProjectIdentityMembershipRoleInput,
     update_project_identity_membership |-> ProjectIdentityMembershipUpdateInput,
     delete_project_identity_membership |-> ProjectIdentityMembershipDeleteInput,
     list_project_roles |-> ProjectPageInput, get_project_role |-> ProjectRoleTargetInput,
     list_organization_roles |-> OrganizationRolesListInput,
     get_organization_role |-> OrganizationRoleTargetInput,
     list_groups |-> GroupsListInput, get_group |-> GroupTargetInput,
     list_group_members |-> GroupMembersListInput, list_group_projects |-> GroupProjectsListInput,
     list_project_group_memberships |-> ProjectPageInput,
     get_project_group_membership |-> ProjectGroupMembershipTargetInput,
     list_identity_project_additional_privileges |-> PrivilegesListInput,
     get_identity_project_additional_privilege |-> PrivilegeTargetInput,
     get_identity_project_additional_privilege_by_slug |-> PrivilegeBySlugInput,
     create_identity_project_additional_privilege |-> PrivilegeCreateInput,
     update_identity_project_additional_privilege |-> PrivilegeUpdateInput,
     delete_identity_project_additional_privilege |-> PrivilegeDeleteInput,
     list_audit_logs |-> AuditLogsListInput]

(* ... and what the conversions and the handlers refuse before the call.   *)
page_request == PageInput
project_membership_roles == {"roles"}
ProjectUserInvitation == {"emails", "usernames"}
AdditionalPrivilegePermissions == {"permissions"}
into_lifetime == {"lifetime"}
dispatch_project_user_membership_workflow ==
    [list_project_user_memberships |-> {"projectId"} \cup page_request,
     get_project_user_membership |-> {"projectId", "membershipId"},
     invite_project_users |->
        {"projectId"} \cup project_membership_roles \cup ProjectUserInvitation,
     update_project_user_membership |->
        {"projectId", "membershipId", "confirmReplaceAllRoles"} \cup project_membership_roles,
     delete_project_user_membership |-> {"projectId", "membershipId", "confirm"}]
dispatch_project_identity_membership_workflow ==
    [list_project_identity_memberships |-> {"projectId"} \cup page_request,
     get_project_identity_membership |-> {"projectId", "identityId"},
     create_project_identity_membership |->
        {"projectId", "identityId"} \cup project_membership_roles,
     update_project_identity_membership |->
        {"projectId", "identityId", "confirmReplaceAllRoles"} \cup project_membership_roles,
     delete_project_identity_membership |-> {"projectId", "identityId", "confirm"}]
dispatch_role_workflow ==
    [list_project_roles |-> {"projectId"} \cup page_request,
     get_project_role |-> {"projectId", "roleSlug"},
     list_organization_roles |-> page_request, get_organization_role |-> {"roleSlug"}]
dispatch_group_workflow ==
    [list_groups |-> page_request, get_group |-> {"groupId"},
     list_group_members |-> {"groupId"} \cup page_request,
     list_group_projects |-> {"groupId"} \cup page_request,
     list_project_group_memberships |-> {"projectId"} \cup page_request,
     get_project_group_membership |-> {"projectId", "groupId"}]
dispatch_additional_privilege_read_workflow ==
    [list_identity_project_additional_privileges |-> {"projectId", "identityId"} \cup page_request,
     get_identity_project_additional_privilege |-> PrivilegeTargetInput,
     get_identity_project_additional_privilege_by_slug |-> PrivilegeBySlugInput]
(* Permissions that deny, or that replace others, need a confirmation.      *)
dispatch_additional_privilege_mutation_workflow ==
    [create_identity_project_additional_privilege |->
        {"projectId", "identityId", "slug", "confirmDenyPermissions"}
          \cup AdditionalPrivilegePermissions \cup into_lifetime,
     update_identity_project_additional_privilege |->
        {"slug", "confirmReplacePermissions"} \cup PrivilegeTargetInput
          \cup AdditionalPrivilegePermissions \cup into_lifetime,
     delete_identity_project_additional_privilege |-> {"confirmDelete"} \cup PrivilegeTargetInput]
dispatch_audit_log_workflow == [list_audit_logs |-> AuditLogsListInput]
Handles == dispatch_project_user_membership_workflow
             @@ dispatch_project_identity_membership_workflow @@ dispatch_role_workflow
             @@ dispatch_group_workflow @@ dispatch_additional_privilege_read_workflow
             @@ dispatch_additional_privilege_mutation_workflow @@ dispatch_audit_log_workflow
Delivers == {}

Operations ==
    [list_project_user_memberships |-> list_project_user_memberships,
     get_project_user_membership |-> get_project_user_membership,
     invite_project_users |-> invite_project_users,
     update_project_user_membership |-> update_project_user_membership,
     delete_project_user_membership |-> delete_project_user_membership,
     list_project_identity_memberships |-> list_project_identity_memberships,
     get_project_identity_membership |-> get_project_identity_membership,
     create_project_identity_membership |-> create_project_identity_membership,
     update_project_identity_membership |-> update_project_identity_membership,
     delete_project_identity_membership |-> delete_project_identity_membership,
     list_project_roles |-> list_project_roles, get_project_role |-> get_project_role,
     list_organization_roles |-> list_organization_roles,
     get_organization_role |-> get_organization_role,
     list_groups |-> list_groups, get_group |-> get_group,
     list_group_members |-> list_group_members, list_group_projects |-> list_group_projects,
     list_project_group_memberships |-> list_project_group_memberships,
     get_project_group_membership |-> get_project_group_membership,
     list_identity_project_additional_privileges |-> list_identity_project_additional_privileges,
     get_identity_project_additional_privilege |-> get_identity_project_additional_privilege,
     get_identity_project_additional_privilege_by_slug |->
        get_identity_project_additional_privilege_by_slug,
     create_identity_project_additional_privilege |-> create_identity_project_additional_privilege,
     update_identity_project_additional_privilege |-> update_identity_project_additional_privilege,
     delete_identity_project_additional_privilege |-> delete_identity_project_additional_privilege,
     list_audit_logs |-> list_audit_logs]
Alternatives == <<>>

(* Taken as it comes: who the members are, and the slug of a role.         *)
Trusts ==
    [o \in DOMAIN dispatch_project_user_membership_workflow
             \cup DOMAIN dispatch_project_identity_membership_workflow |->
        {"memberships", "membership", "answer"} \X {"id", "project", "principal", "roles"}]
    @@ [o \in {"get_project_role", "get_organization_role"} |-> {<<"role", "slug">>}]

project_membership_tools ==
    [o \in DOMAIN dispatch_project_user_membership_workflow
             \cup DOMAIN dispatch_project_identity_membership_workflow |->
        CASE o \in {"invite_project_users", "create_project_identity_membership"} -> "write"
          [] o \in {"update_project_user_membership", "delete_project_user_membership",
                    "update_project_identity_membership",
                    "delete_project_identity_membership"} -> "destroy"
          [] OTHER -> "read"]
role_tools == [o \in DOMAIN dispatch_role_workflow |-> "read"]
group_tools == [o \in DOMAIN dispatch_group_workflow |-> "read"]
additional_privilege_tools ==
    [o \in DOMAIN dispatch_additional_privilege_read_workflow |-> "read"]
    @@ [o \in DOMAIN dispatch_additional_privilege_mutation_workflow |-> "destroy"]
audit_log_tools == [list_audit_logs |-> "readAudited"]
Tiers == project_membership_tools @@ role_tools @@ group_tools @@ additional_privilege_tools
           @@ audit_log_tools
=============================================================================
