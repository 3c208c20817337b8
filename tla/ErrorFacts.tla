----------------------------- MODULE ErrorFacts -----------------------------
(***************************************************************************)
(* What infisical-mcp/src/execution_error.rs tells a caller about each     *)
(* error of infisical-api: whether the final action was not started, what  *)
(* to do next, and whether preflight reads may have left audit records.    *)
(* Every ...NotConfirmed variant of ResourceError is NotConfirmed here.    *)
(* InvalidArguments is an rmcp error with INVALID_PARAMS, Internal any      *)
(* other rmcp error, but for a file plane without a free place             *)
(* (from_handler).                                                         *)
(***************************************************************************)
EXTENDS WorkflowSteps

(* from_resource, the validation errors whose effect is NotStarted *)
InputErrors == {
    "NotConfirmed", "InvalidSecretTagFilter", "InvalidSecretBatchSize",
    "DuplicateSecretName", "CyclicSecretImport", "TokenAuthPageOffsetLimit",
    "InvalidTokenAuthTokenName", "InvalidFolderBatchSize", "DuplicateFolderId",
    "AuditLogMetadataFilterRequiresProject", "AuditLogMetadataFilterRequiresSecretEvent",
    "DynamicSecretRenameWouldBeNoop", "SqlSecretRotationProviderMismatch",
    "InvalidKmsBulkRequest", "InvalidCodeSigningInput"}

(* from_resource, the KMS errors with facts of their own *)
KmsErrors == {"InvalidKmsCryptographicInput", "KmsBulkPreflightFailed",
              "KmsBulkPreflightTimeout"}

(* from_resource, scope and state errors: effect Unknown, correct request *)
StateErrors == {
    "Pagination", "InvalidAppAutomationScope", "InvalidKmsKeyScope", "InvalidKmsKeyUsage",
    "KmsKeyDisabled", "InvalidCertificateAuthorityScope",
    "InvalidCertificateAuthorityCertificateState", "InvalidCertificateAuthorityProjectKind",
    "CertificatePolicyInUse", "InvalidCertificatePolicyScope",
    "InvalidCertificateInventoryScope", "CertificatePrivateKeyUnavailable",
    "InvalidCertificateLifecycleState", "InvalidCertificateRequestScope",
    "InvalidCertificateRequestState", "InvalidCertificateIssuanceProfile",
    "InvalidCertificateProfileScope", "InvalidCertificateProfileState",
    "InvalidCodeSignerScope", "InvalidCodeSignerState", "InvalidCodeSignerCertificateState",
    "MissingCodeSignerCertificatePrivateKey", "InvalidSshCertificateAuthorityScope",
    "InvalidSshCertificateAuthorityState", "InvalidSshCertificateTemplateScope",
    "InvalidSshCertificateTemplateState", "SshCertificateTypeNotAllowed",
    "SshCertificatePrincipalNotAllowed", "SshCertificateTtlNotAllowed",
    "SshCertificateCustomKeyIdNotAllowed", "InvalidSshHostScope", "InvalidSshHostGroupScope"}

(* from_resource, answers that do not fit: effect Unknown, reconcile *)
AnswerErrors == {
    "CertificateIssuanceResponseUnverified", "CollectionTooLarge", "CollectionCountMismatch",
    "InvalidProjectResponse", "InvalidSecretResponse", "InvalidSecretTagResponse",
    "MissingMutationResource", "InvalidRoleScope", "MissingRolePermissions",
    "InvalidGroupMembershipScope", "InvalidGroupResponse", "InvalidGroupProjectAssignment",
    "InvalidAdditionalPrivilegeScope", "InvalidAdditionalPrivilegeLifetime",
    "InvalidAdditionalPrivilegePermissions", "InvalidAuditLogResponse",
    "InvalidAppAutomationResponse", "InvalidDynamicSecretResponse",
    "InvalidDynamicSecretLeaseResponse", "InvalidKmsResponse",
    "InvalidCertificateAuthorityResponse", "InvalidCertificatePolicyResponse",
    "InvalidCertificateInventoryResponse", "InvalidCertificateMaterialResponse",
    "CertificateImportOutcomeUnknown", "InvalidCertificateLifecycleResponse",
    "CertificateRenewalOutcomeUnknown", "CertificateRevocationOutcomeUnknown",
    "CertificateRenewalConfigurationOutcomeUnknown", "CertificateDeletionOutcomeUnknown",
    "InvalidCertificateRequestInventoryResponse", "InvalidCertificateRequestMaterialResponse",
    "InvalidCertificateRequestCancellationResponse", "InvalidCertificateIssuanceResponse",
    "CertificateIssuanceOutcomeUnknown", "InvalidCertificateProfileResponse",
    "InvalidCodeSignerResponse", "InvalidCodeSignerGovernanceResponse",
    "InvalidSshCertificateAuthorityResponse", "InvalidSshCertificateTemplateResponse",
    "InvalidSshCertificateResponse", "InvalidSshHostResponse", "InvalidSshHostGroupResponse",
    "InvalidSshHostGroupMembershipResponse"}

HandlerErrors == {"InvalidArguments", "CapacityBeforeExecution", "Internal"}

Errors == HandlerErrors \cup ClientErrors \cup InputErrors \cup KmsErrors
              \cup StateErrors \cup AnswerErrors

NotStarted == {"InvalidArguments", "CapacityBeforeExecution"} \cup InputErrors \cup KmsErrors
Effect(error) == IF error \in NotStarted THEN "notStarted" ELSE "unknown"

(* Mutant of Recovery: an answer that cannot be read is the caller's fault. *)
RecoveryByBlame(error) ==
    CASE error \in Rejections \cup InputErrors \cup StateErrors
              \cup {"InvalidMutationResponse"} -> "correctRequest"
      [] OTHER -> "reconcile"

(* The recovery of each error.  A failed bulk preflight has that of its    *)
(* source; correctRequest stands for it.                                   *)
Recovery(error) ==
    CASE error \in {"InvalidArguments", "Api.InvalidRequest", "Api.NotFound",
                    "InvalidKmsCryptographicInput", "KmsBulkPreflightFailed"}
              \cup InputErrors \cup StateErrors -> "correctRequest"
      [] error \in {"Api.RateLimited", "AuthenticationCooldown",
                    "KmsBulkPreflightTimeout", "CapacityBeforeExecution"} -> "wait"
      [] error \in {"Api.Authentication", "Api.PermissionDenied",
                    "InvalidEndpoint"} -> "inspectConfiguration"
      [] OTHER -> "reconcile"

(* Mutant of Observations: what is refused before the action left nothing. *)
ObservationsOfEffect(error) == IF error \in NotStarted THEN "none" ELSE "omitted"

(* preflightObservationsPossible *)
Observations(error) ==
    CASE error \in {"InvalidArguments", "CapacityBeforeExecution"} -> "none"
      [] error \in KmsErrors -> "possible"
      [] OTHER -> "omitted"
=============================================================================
