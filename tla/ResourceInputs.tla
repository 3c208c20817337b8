---------------------------- MODULE ResourceInputs ----------------------------
(***************************************************************************)
(* The validated newtypes of infisical-api/src/resources.rs, each as the   *)
(* argument that its constructor refuses.  What a valid value looks like   *)
(* is left out: an argument is valid, or it is the flaw of the call.       *)
(***************************************************************************)
ProjectId == {"projectId"}
SecretImportId == {"importId"}
EnvironmentId == {"environmentId"}
FolderId == {"folderId"}
TagId == {"tagId"}
OrganizationId == {"organizationId"}
IdentityId == {"identityId"}
GroupId == {"groupId"}
AdditionalPrivilegeId == {"privilegeId"}
ProjectMembershipId == {"membershipId"}
TokenAuthTokenId == {"tokenId"}
UniversalAuthClientSecretId == {"clientSecretId"}
IdentityName == {"name"}
ProjectName == {"name"}
ProjectDescription == {"description"}
ProjectSlug == {"slug"}
NewProjectSlug == {"slug"}
EnvironmentName == {"name"}
FolderName == {"name"}
FolderDescription == {"description"}
TagSlug == {"slug"}
TagColor == {"color"}
EnvironmentPosition == {"position"}
PointInTimeVersionLimit == {"versionLimit"}
SecretImportPosition == {"position"}
EnvironmentSlug == {"environment"}
SecretPath == {"path"}
SecretName == {"name"}
SecretScope == ProjectId \cup EnvironmentSlug \cup SecretPath
PageRequest == {"offset", "limit"}
=============================================================================
