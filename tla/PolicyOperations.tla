-------------------------- MODULE PolicyOperations --------------------------
(***************************************************************************)
(* Certificate policies and profiles: infisical-api/src/                   *)
(* pki_certificate_policies.rs and pki_certificate_profiles.rs, with their *)
(* tools in infisical-mcp/src/tools.rs.  Both are addressed by bare         *)
(* identifiers.  A profile names a policy, and perhaps an authority, of    *)
(* its own project.                                                        *)
(***************************************************************************)
EXTENDS ErrorFacts, TLC

C == INSTANCE CaOperations

ensure_certificate_manager_project == C!ensure_certificate_manager_project
-----------------------------------------------------------------------------
(* pki_certificate_policies.rs *)
PolicyRules == {"subject", "sans", "keyUsages", "extendedKeyUsages", "algorithms", "validity",
                "basicConstraints"}
CreatePolicyRequest == {"name", "description"} \cup PolicyRules
CertificatePolicyWire == {"id", "project", "createdAt", "form"} \cup CreatePolicyRequest
policy_core_eq == CreatePolicyRequest \cup {"createdAt"}

ListPolicies ==
    Wire("policies", InScope, {"project", "page", "unique", "search"},
         {"project", "page", "unique", "search", "form"})
GetPolicy == Wire("policy", ById("policy"), {"id", "project"}, CertificatePolicyWire)
CreatePolicy ==
    Wire("policy", InScope, {"project"} \cup CreatePolicyRequest, CertificatePolicyWire)
UpdatePolicy ==
    Wire("policy", ById("policy"), {"id", "project"} \cup policy_core_eq, CertificatePolicyWire)
DeletePolicy == UpdatePolicy

PolicyFits(object, facets) == Require(object, facets, "InvalidCertificatePolicyResponse")
policy_from_wire(object, scope) ==
    PolicyFits(object, {"form"}) \o Require(object, scope, "InvalidCertificatePolicyScope")
policy_matches_creation == PolicyFits("answer", CreatePolicyRequest)
policy_update_reflected == PolicyFits("answer", policy_core_eq)

list_certificate_policies ==
    Observe(ListPolicies) \o PolicyFits("policies", {"page"})
      \o policy_from_wire("policies", {"project"}) \o PolicyFits("policies", {"unique", "search"})
get_certificate_policy ==
    Observe(GetPolicy) \o policy_from_wire("policy", {"id", "project"})
create_certificate_policy ==
    Consent("confirm") \o ensure_certificate_manager_project \o Mutate(CreatePolicy)
      \o policy_from_wire("answer", {"project"}) \o policy_matches_creation
update_certificate_policy ==
    Consent("confirm") \o get_certificate_policy \o Mutate(UpdatePolicy)
      \o policy_from_wire("answer", {"id", "project"}) \o policy_update_reflected
(* Infisical refuses to delete a policy that a profile uses.               *)
delete_certificate_policy ==
    Consent("confirm") \o get_certificate_policy
      \o MutateUnless(DeletePolicy, "Api.InvalidRequest", "CertificatePolicyInUse")
      \o policy_from_wire("answer", {"id", "project"})
      \o PolicyFits("answer", policy_core_eq)
-----------------------------------------------------------------------------
(* pki_certificate_profiles.rs.  "enrollment" is what an answer shows of    *)
(* the enrollment's configuration, which does not include its secrets.     *)
CreateProfileRequest ==
    {"slug", "policy", "ca", "issuerType", "enrollmentType", "description", "externalConfigs",
     "defaults"}
core_profile_eq == {"createdAt"} \cup CreateProfileRequest
ProfileWire == {"id", "project", "updatedAt", "enrollment", "form"} \cup core_profile_eq
UpdateProfileRequest == {"id", "project", "enrollment"} \cup core_profile_eq

InProject(object, asks) == Wire(object, InScope, asks, asks \cup {"form"})
ExactProfileQuery(object, asks, answers) == Wire(object, ById("profile"), asks, answers)
ListProfiles == InProject("profiles", {"project", "page", "unique", "filters"})
ListApplicationProfiles == InProject("relations", {"application", "unique"})
GetProfile(object, asks) == ExactProfileQuery(object, asks, ProfileWire)
GetProfileBySlug == Wire("profile", InScope, {"slug", "project"}, ProfileWire)
ListProfileCertificates ==
    ExactProfileQuery("certificates", {"page", "unique", "status"},
                      {"page", "unique", "status", "form"})
GetLatestBundle == ExactProfileQuery("bundle", {"pair"}, {"pair", "form"})
RevealEabSecret == ExactProfileQuery("eab", {}, {"form"})
CreateProfile ==
    Wire("profile", ById("policy") \cup {<<"cas", "listed">>},
         {"project", "enrollment"} \cup CreateProfileRequest, ProfileWire)
UpdateProfile == ExactProfileQuery("profile", UpdateProfileRequest, ProfileWire)
DeleteProfile ==
    ExactProfileQuery("profile", {"id", "project"} \cup core_profile_eq, ProfileWire)

ProfileScope(object, facets) == Require(object, facets, "InvalidCertificateProfileScope")
ProfileState(object, facets) == Require(object, facets, "InvalidCertificateProfileState")
ProfileFits(object, facets) == Require(object, facets, "InvalidCertificateProfileResponse")
profile_from_wire(object, scope) == ProfileScope(object, scope) \o ProfileFits(object, {"form"})
application_profile_ids ==
    ProfileScope("relations", {"application"}) \o ProfileFits("relations", {"unique", "form"})
create_response_reflects ==
    ProfileFits("answer", {"enrollment"} \cup (CreateProfileRequest \ {"slug"}))
update_response_reflects == ProfileFits("answer", UpdateProfileRequest \ {"id", "project"})
bundle_from_wire == ProfileFits("answer", {"pair", "form"})
eab_from_wire == ProfileFits("answer", {"form"})

get_certificate_profile ==
    Observe(GetProfile("profile", {"id", "project"})) \o profile_from_wire("profile", {"id", "project"})
get_certificate_profile_by_slug ==
    Observe(GetProfileBySlug) \o profile_from_wire("profile", {"slug", "project"})
list_profiles_of_an_application ==
    Observe(ListProfiles) \o ProfileFits("profiles", {"page"})
      \o profile_from_wire("profiles", {"project"})
      \o Observe(ListApplicationProfiles) \o application_profile_ids
      \o ProfileFits("profiles", {"unique"}) \o ProfileScope("profiles", {"filters"})
list_certificate_profiles ==
    Observe(ListProfiles) \o ProfileFits("profiles", {"page"})
      \o profile_from_wire("profiles", {"project"})
      \o ProfileFits("profiles", {"unique"}) \o ProfileScope("profiles", {"filters"})

(* The authority must be one of the project's; an Azure template needs one  *)
(* of that type.                                                           *)
ensure_profile_policy_scope == get_certificate_policy
Authorities ==
    [C!ListCertificateAuthorities EXCEPT
        !.asks = @ \cup {"unique", "listed", "type"}, !.answers = @ \cup {"listed", "type"}]
listed_authorities ==
    Observe(Authorities) \o C!summary_from_wire \o C!CaForm("cas", {"unique"})
ensure_profile_ca_scope == listed_authorities \o ProfileScope("cas", {"listed"})
azure_template_matches_provider == ProfileState("cas", {"type"})
create_certificate_profile ==
    Consent("confirm") \o ensure_certificate_manager_project \o ensure_profile_policy_scope
      \o ensure_profile_ca_scope \o azure_template_matches_provider
      \o Mutate(CreateProfile) \o profile_from_wire("answer", {"slug", "project"})
      \o create_response_reflects
create_self_signed_profile ==
    Consent("confirm") \o ensure_certificate_manager_project \o ensure_profile_policy_scope
      \o Mutate([CreateProfile EXCEPT !.scope = ById("policy")])
      \o profile_from_wire("answer", {"slug", "project"}) \o create_response_reflects

(* A change of the enrollment must fit the one that the profile has, and is *)
(* read back: the answer to the change does not settle it.                 *)
same_enrollment_family == ProfileState("profile", {"enrollmentType"})
validate_acme_against_current == ProfileState("profile", {"enrollment"})
validate_scep_change_against_current == ProfileState("profile", {"enrollment"})
to_change(facets) ==
    Observe(GetProfile("profile", {"id", "project"} \cup facets))
      \o profile_from_wire("profile", {"id", "project"})
refreshed_update_reflects ==
    Observe(GetProfile("refreshed", ProfileWire \ {"form"}))
      \o profile_from_wire("refreshed", {"id", "project"})
      \o ProfileFits("refreshed", {"updatedAt", "enrollment"} \cup core_profile_eq)
update_certificate_profile ==
    Consent("confirm") \o listed_authorities \o to_change({"enrollmentType", "enrollment", "ca"})
      \o same_enrollment_family \o ProfileState("profile", {"ca"})
      \o ProfileScope("cas", {"listed"}) \o azure_template_matches_provider
      \o validate_acme_against_current \o validate_scep_change_against_current
      \o Mutate(UpdateProfile) \o profile_from_wire("answer", {"id", "project"})
      \o update_response_reflects \o refreshed_update_reflects
update_profile_metadata ==
    Consent("confirm") \o get_certificate_profile
      \o Mutate(UpdateProfile) \o profile_from_wire("answer", {"id", "project"})
      \o update_response_reflects
delete_certificate_profile ==
    Consent("confirm") \o get_certificate_profile
      \o Mutate(DeleteProfile) \o profile_from_wire("answer", {"id", "project"})
      \o ProfileFits("answer", core_profile_eq)

list_certificate_profile_certificates ==
    get_certificate_profile \o Observe(ListProfileCertificates)
      \o ProfileFits("certificates", {"page", "form", "unique"})
      \o ProfileScope("certificates", {"status"})
reveal_certificate_profile_latest_bundle ==
    Consent("confirmReveal") \o get_certificate_profile
      \o Reveal(GetLatestBundle) \o bundle_from_wire
reveal_certificate_profile_eab_secret ==
    Consent("confirmReveal") \o to_change({"enrollmentType"})
      \o ProfileState("profile", {"enrollmentType"})
      \o Reveal(RevealEabSecret) \o eab_from_wire
-----------------------------------------------------------------------------
(* What the schemas of the inputs promise to refuse ...                    *)
PageInput == {"offset", "limit"}
CertificatePolicyTargetInput == {"projectId", "policyId"}
CertificatePoliciesListInput == {"projectId", "search"} \cup PageInput
CertificatePolicyRulesInput == {"subject", "sans", "validity", "maxPathLength"}
CertificatePolicyCreateInput ==
    {"projectId", "name", "description", "confirm"} \cup CertificatePolicyRulesInput
CertificatePolicyUpdateInput ==
    CertificatePolicyTargetInput \cup {"name", "description", "confirm"}
      \cup CertificatePolicyRulesInput
CertificatePolicyDeleteInput == CertificatePolicyTargetInput \cup {"confirm"}
CertificateProfileTargetInput == {"projectId", "profileId"}
CertificateProfileBySlugInput == {"projectId", "slug"}
CertificateProfilesListInput == {"projectId", "search", "caId", "applicationId"} \cup PageInput
CertificateProfileDefaultsInput ==
    {"ttlDays", "commonName", "organization", "organizationalUnit", "country", "state",
     "locality", "pathLength"}
CertificateProfileEnrollmentCreationInput ==
    {"renewBeforeDays", "passphrase", "caChain", "challengePassword",
     "dynamicChallengeExpiryMinutes", "dynamicChallengeMaxPending"}
CertificateProfileEnrollmentChangeInput == CertificateProfileEnrollmentCreationInput
CertificateProfileCreateInput ==
    {"projectId", "certificatePolicyId", "slug", "description", "caId", "template", "confirm"}
      \cup CertificateProfileDefaultsInput \cup CertificateProfileEnrollmentCreationInput
CertificateProfileUpdateInput ==
    CertificateProfileTargetInput \cup {"slug", "description", "template", "confirm"}
      \cup CertificateProfileDefaultsInput \cup CertificateProfileEnrollmentChangeInput
CertificateProfileDeleteInput == CertificateProfileTargetInput \cup {"confirm"}
CertificateProfileCertificatesListInput ==
    CertificateProfileTargetInput \cup {"search"} \cup PageInput
CertificateProfileSecretRevealInput == CertificateProfileTargetInput \cup {"confirmReveal"}
Declares ==
    [list_certificate_policies |-> CertificatePoliciesListInput,
     get_certificate_policy |-> CertificatePolicyTargetInput,
     create_certificate_policy |-> CertificatePolicyCreateInput,
     update_certificate_policy |-> CertificatePolicyUpdateInput,
     delete_certificate_policy |-> CertificatePolicyDeleteInput,
     list_certificate_profiles |-> CertificateProfilesListInput,
     get_certificate_profile |-> CertificateProfileTargetInput,
     get_certificate_profile_by_slug |-> CertificateProfileBySlugInput,
     create_certificate_profile |-> CertificateProfileCreateInput,
     update_certificate_profile |-> CertificateProfileUpdateInput,
     delete_certificate_profile |-> CertificateProfileDeleteInput,
     list_certificate_profile_certificates |-> CertificateProfileCertificatesListInput,
     reveal_certificate_profile_latest_bundle |-> CertificateProfileSecretRevealInput,
     reveal_certificate_profile_eab_secret |-> CertificateProfileSecretRevealInput]

(* ... and what the conversions refuse before the operation is called.     *)
page_request == PageInput
validate_search == {"search"}
validate_value_rules == {"subject", "sans"}
validate_usage_rule == {"keyUsages", "extendedKeyUsages"}
validate_algorithms == {"algorithms"}
policy_validity_millis == {"validity"}
validate_basic_constraints == {"maxPathLength"}
validate_policy_description == {"description"}
CertificatePolicyCreation ==
    {"name"} \cup validate_policy_description \cup validate_value_rules \cup validate_usage_rule
      \cup validate_algorithms \cup policy_validity_millis \cup validate_basic_constraints
CertificatePolicyChange == {"empty"} \cup CertificatePolicyCreation
nullable_policy_change == {"clear"}

validate_description == {"description"}
validate_profile_text ==
    {"commonName", "organization", "organizationalUnit", "country", "state", "locality"}
CertificateProfileDefaults ==
    {"ttlDays", "pathLength", "keyUsages", "extendedKeyUsages"} \cup validate_profile_text
validate_renewal == {"renewBeforeDays"}
validate_secret == {"passphrase", "challengePassword"}
validate_acme == {"acme"}
validate_scep == {"dynamicChallengeExpiryMinutes", "dynamicChallengeMaxPending"}
CertificateProfileEnrollmentConfiguration ==
    {"caChain"} \cup validate_renewal \cup validate_secret \cup validate_acme \cup validate_scep
CertificateProfileEnrollmentChange == {"empty"} \cup (CertificateProfileEnrollmentConfiguration
                                                       \ validate_acme)
CertificateProfileExternalConfig == {"template"}
CertificateProfileCreation ==
    validate_description \cup CertificateProfileEnrollmentConfiguration
      \cup {"selfSigned"} \cup CertificateProfileExternalConfig \cup CertificateProfileDefaults
CertificateProfileChange ==
    {"empty"} \cup validate_description \cup CertificateProfileEnrollmentChange
      \cup CertificateProfileExternalConfig \cup CertificateProfileDefaults

dispatch_certificate_policy_workflow ==
    [list_certificate_policies |-> {"projectId"} \cup page_request \cup validate_search,
     get_certificate_policy |-> {"projectId", "policyId"},
     create_certificate_policy |-> {"projectId"} \cup CertificatePolicyCreation,
     update_certificate_policy |->
        {"projectId", "policyId"} \cup nullable_policy_change \cup CertificatePolicyChange,
     delete_certificate_policy |-> {"projectId", "policyId"}]
Target == {"projectId", "profileId"}
dispatch_certificate_profile_read_workflow ==
    [list_certificate_profiles |->
        {"projectId", "caId", "applicationId"} \cup page_request \cup validate_search,
     get_certificate_profile |-> Target,
     get_certificate_profile_by_slug |-> {"projectId", "slug"},
     list_certificate_profile_certificates |-> Target \cup page_request \cup validate_search,
     reveal_certificate_profile_latest_bundle |-> {"delivery"} \cup Target,
     reveal_certificate_profile_eab_secret |-> {"delivery"} \cup Target]
dispatch_certificate_profile_mutation_workflow ==
    [create_certificate_profile |->
        {"projectId", "certificatePolicyId", "slug", "caId"} \cup CertificateProfileCreation,
     update_certificate_profile |-> Target \cup {"slug", "clear"} \cup CertificateProfileChange,
     delete_certificate_profile |-> Target]
Handles == dispatch_certificate_policy_workflow @@ dispatch_certificate_profile_read_workflow
             @@ dispatch_certificate_profile_mutation_workflow
Delivers == {"reveal_certificate_profile_latest_bundle", "reveal_certificate_profile_eab_secret"}

Operations ==
    [list_certificate_policies |-> list_certificate_policies,
     get_certificate_policy |-> get_certificate_policy,
     create_certificate_policy |-> create_certificate_policy,
     update_certificate_policy |-> update_certificate_policy,
     delete_certificate_policy |-> delete_certificate_policy,
     list_certificate_profiles |-> list_certificate_profiles,
     get_certificate_profile |-> get_certificate_profile,
     get_certificate_profile_by_slug |-> get_certificate_profile_by_slug,
     create_certificate_profile |-> create_certificate_profile,
     update_certificate_profile |-> update_certificate_profile,
     delete_certificate_profile |-> delete_certificate_profile,
     list_certificate_profile_certificates |-> list_certificate_profile_certificates,
     reveal_certificate_profile_latest_bundle |-> reveal_certificate_profile_latest_bundle,
     reveal_certificate_profile_eab_secret |-> reveal_certificate_profile_eab_secret]
Alternatives ==
    [list_profiles_of_an_application |->
        Way("list_certificate_profiles", list_profiles_of_an_application),
     create_self_signed_profile |-> Way("create_certificate_profile", create_self_signed_profile),
     update_profile_metadata |-> Way("update_certificate_profile", update_profile_metadata)]
Trusts == <<>>

certificate_policy_tools ==
    [list_certificate_policies |-> "readAudited", get_certificate_policy |-> "readAudited",
     create_certificate_policy |-> "write", update_certificate_policy |-> "write",
     delete_certificate_policy |-> "destroy"]
certificate_profile_tools ==
    [o \in DOMAIN dispatch_certificate_profile_read_workflow |-> "readAudited"]
    @@ [create_certificate_profile |-> "write", update_certificate_profile |-> "destroy",
        delete_certificate_profile |-> "destroy"]
Tiers == certificate_policy_tools @@ certificate_profile_tools
=============================================================================
