--------------------------- MODULE KmsOperations ---------------------------
(***************************************************************************)
(* The operations on KMS keys: infisical-api/src/kms.rs, and their tools   *)
(* in infisical-mcp/src/kms.rs.  An operation is named as its async        *)
(* function.  A key is addressed by its bare identifier, whatever the      *)
(* project that the caller names; "form" stands for the syntactic checks   *)
(* of an answer.                                                           *)
(***************************************************************************)
EXTENDS ErrorFacts, TLC

P == INSTANCE ProjectOperations

KeyEndpoint(asks, answers) == Wire("key", ById("key"), asks, answers)
ProjectEndpoint(object, asks, answers) == Wire(object, InScope, asks, answers)

KmsKeyWire == {"id", "name", "description", "disabled", "project", "usage", "algorithm", "form"}
ListKmsKeys == ProjectEndpoint("keys", {"project", "page"}, KmsKeyWire \cup {"page"})
GetKmsKey == KeyEndpoint({"id", "project"}, KmsKeyWire)
GetKmsKeyByName == ProjectEndpoint("key", {"name", "project"}, KmsKeyWire)
CreateKmsKey ==
    ProjectEndpoint("key", {"project", "name", "description", "algorithm"}, KmsKeyWire)
UpdateKmsKey == KeyEndpoint({"id", "project", "name", "description", "disabled"}, KmsKeyWire)
DeleteKmsKey == KeyEndpoint({"id", "project"}, KmsKeyWire)
KeyActionQuery(answers) == KeyEndpoint({"id"}, answers)
Encrypt == KeyEndpoint({"id"}, {"form"})
Decrypt == KeyEndpoint({"id"}, {"form"})
BulkImport == ProjectEndpoint("keys", {"names"}, {"names", "form"})
BulkPrivateKeyReveal ==
    KeyEndpoint({"ids", "name", "usage", "algorithm"}, {"ids", "name", "usage", "algorithm", "form"})
Sign == KeyEndpoint({"id", "signingAlgorithm"}, {"id", "signingAlgorithm", "form"})
VerifySignature == KeyEndpoint({"id", "signingAlgorithm"}, {"id", "signingAlgorithm"})

(* What is compared in the answers that show a key.  That its usage is the *)
(* one of its algorithm belongs to the form.                               *)
kms_key_from_wire == {"project", "form"}
created_kms_key_from_wire == kms_key_from_wire \cup {"name", "description", "algorithm"}
updated_kms_key_from_wire == kms_key_from_wire \cup {"id", "name", "description", "disabled"}

ensure_kms_project ==
    P!get_project_for({"exists"}) \o Require("project", {"exists"}, "InvalidKmsKeyScope")
get_kms_key ==
    Observe(GetKmsKey) \o Require("key", kms_key_from_wire \cup {"id"}, "InvalidKmsResponse")
preflight_kms_key(usage) ==
    get_kms_key \o (IF usage = "any" THEN <<>> ELSE Require("key", {"usage"}, "InvalidKmsKeyUsage"))
preflight_active_kms_key(usage) ==
    preflight_kms_key(usage) \o Require("key", {"disabled"}, "KmsKeyDisabled")

list_kms_keys ==
    Observe(ListKmsKeys) \o Require("keys", kms_key_from_wire \cup {"page"}, "InvalidKmsResponse")
get_kms_key_by_name ==
    Observe(GetKmsKeyByName)
      \o Require("key", kms_key_from_wire \cup {"name"}, "InvalidKmsResponse")
create_kms_key ==
    Consent("confirm") \o ensure_kms_project \o Mutate(CreateKmsKey)
      \o Verify(created_kms_key_from_wire, "InvalidKmsResponse")
update_kms_key ==
    Consent("confirm") \o preflight_kms_key("any") \o Mutate(UpdateKmsKey)
      \o Verify(updated_kms_key_from_wire, "InvalidKmsResponse")
(* Mutant of delete_kms_key: the key is not looked at. *)
DeleteUnseen ==
    Consent("confirm") \o Mutate(DeleteKmsKey)
      \o Verify(kms_key_from_wire \cup {"id"}, "InvalidKmsResponse")
delete_kms_key ==
    Consent("confirm") \o preflight_kms_key("any") \o Mutate(DeleteKmsKey)
      \o Verify(kms_key_from_wire \cup {"id"}, "InvalidKmsResponse")
(* Mutant of kms_encrypt: the consent is asked for after the key is seen. *)
EncryptLooksFirst ==
    preflight_active_kms_key("encryptDecrypt") \o Consent("confirm") \o Mutate(Encrypt)
      \o Verify({"form"}, "InvalidKmsResponse")
kms_encrypt ==
    Consent("confirm") \o preflight_active_kms_key("encryptDecrypt") \o Mutate(Encrypt)
      \o Verify({"form"}, "InvalidKmsResponse")
kms_decrypt ==
    Consent("confirmReveal") \o Check({"ciphertext"}, "InvalidKmsCryptographicInput")
      \o preflight_active_kms_key("encryptDecrypt") \o Mutate(Decrypt)
      \o Verify({"form"}, "InvalidKmsResponse")
get_kms_public_key ==
    preflight_active_kms_key("signVerify") \o Reveal(KeyActionQuery({"form"}))
      \o Verify({"form"}, "InvalidKmsResponse")
reveal_kms_private_key ==
    Consent("confirmReveal") \o preflight_active_kms_key("any")
      \o Reveal(KeyActionQuery({"form"})) \o Verify({"form"}, "InvalidKmsResponse")
list_kms_signing_algorithms ==
    preflight_active_kms_key("signVerify") \o Reveal(KeyActionQuery({"algorithms"}))
      \o Verify({"algorithms"}, "InvalidKmsResponse")

validate_bulk_import_entries == {"keys", "duplicates", "material"}
bulk_import_kms_keys ==
    Consent("confirm") \o Check(validate_bulk_import_entries, "InvalidKmsBulkRequest")
      \o ensure_kms_project \o Mutate(BulkImport) \o Verify({"names", "form"}, "InvalidKmsResponse")

(* Up to eight of the keys are looked at together, all of them before one  *)
(* deadline; any failure is told as that of the preflight.                 *)
BulkKeys == {[GetKmsKey EXCEPT !.object = k] : k \in {"key", "otherKey"}}
preflight_bulk_kms_keys ==
    Together("observe", BulkKeys, {"KmsBulkPreflightFailed", "KmsBulkPreflightTimeout"})
      \o Require("key", kms_key_from_wire \cup {"id", "disabled"}, "KmsBulkPreflightFailed")
      \o Require("otherKey", kms_key_from_wire \cup {"id", "disabled"}, "KmsBulkPreflightFailed")
validate_bulk_key_ids == {"keyIds", "duplicates"}
(* Mutant of bulk_reveal_kms_private_keys: an answer that does not fit is  *)
(* told as a failure of the preflight.                                     *)
BulkRevealOnePhase ==
    Consent("confirmReveal") \o Check(validate_bulk_key_ids, "InvalidKmsBulkRequest")
      \o preflight_bulk_kms_keys
      \o [Mutate(BulkPrivateKeyReveal) EXCEPT ![1].of = ById("key") \cup ById("otherKey")]
      \o Verify({"ids", "name", "usage", "algorithm", "form"}, "KmsBulkPreflightFailed")
bulk_reveal_kms_private_keys ==
    Consent("confirmReveal") \o Check(validate_bulk_key_ids, "InvalidKmsBulkRequest")
      \o preflight_bulk_kms_keys
      \o [Mutate(BulkPrivateKeyReveal) EXCEPT ![1].of = ById("key") \cup ById("otherKey")]
      \o Verify({"ids", "name", "usage", "algorithm", "form"}, "InvalidKmsResponse")

(* A digest of the wrong length is found before the key is looked at, an   *)
(* algorithm that is not one of the key's after it.                        *)
Signing == preflight_active_kms_key("signVerify")
             \o Check({"keyAlgorithm"}, "InvalidKmsCryptographicInput")
(* Mutant of kms_sign: the signature is returned as it comes. *)
SignUnverified ==
    Consent("confirm") \o Check({"digest"}, "InvalidKmsCryptographicInput") \o Signing
      \o Mutate(Sign)
kms_sign ==
    Consent("confirm") \o Check({"digest"}, "InvalidKmsCryptographicInput") \o Signing
      \o Mutate(Sign) \o Verify({"id", "signingAlgorithm", "form"}, "InvalidKmsResponse")
kms_verify ==
    Consent("confirm") \o Check({"signature", "digest"}, "InvalidKmsCryptographicInput")
      \o Signing \o Mutate(VerifySignature)
      \o Verify({"id", "signingAlgorithm"}, "InvalidKmsResponse")
-----------------------------------------------------------------------------
(* The inputs of the tools: what their schemas promise to refuse ...       *)
KeyTarget == {"projectId", "keyId"}
ManagementInputs ==
    [list_kms_keys |-> {"projectId", "offset", "limit", "search"},
     get_kms_key |-> KeyTarget,
     get_kms_key_by_name |-> {"projectId", "keyName"},
     create_kms_key |-> {"projectId", "name", "description", "confirm"},
     update_kms_key |-> KeyTarget \cup {"name", "description", "confirm"}]
UseInputs ==
    [delete_kms_key |-> KeyTarget \cup {"confirm"},
     kms_encrypt |-> KeyTarget \cup {"data", "confirm"},
     kms_decrypt |-> KeyTarget \cup {"ciphertext", "confirmReveal", "delivery"},
     reveal_kms_private_key |-> KeyTarget \cup {"confirmReveal", "delivery"},
     bulk_import_kms_keys |-> {"projectId", "keys", "name", "keyMaterial", "confirm"}]
BulkAndSignInputs ==
    [bulk_reveal_kms_private_keys |-> {"projectId", "keyIds", "confirmReveal", "delivery"},
     get_kms_public_key |-> KeyTarget,
     list_kms_signing_algorithms |-> KeyTarget,
     kms_sign |-> KeyTarget \cup {"data", "confirm"},
     kms_verify |-> KeyTarget \cup {"data", "signature", "confirm"}]
Declares == ManagementInputs @@ UseInputs @@ BulkAndSignInputs

(* ... and what the handlers refuse before they call the operation.        *)
into_key == {"projectId", "keyId"}
KmsKeyCreation == {"description", "usage"}
KmsKeyChange == {"description", "empty"}
KmsKeyListRequest == {"search"}
into_entry == {"keyMaterial", "name", "usage"}
dispatch_kms_management_workflow ==
    [list_kms_keys |-> {"projectId", "offset", "limit"} \cup KmsKeyListRequest,
     get_kms_key |-> into_key,
     get_kms_key_by_name |-> {"projectId", "keyName"},
     create_kms_key |-> {"projectId", "name"} \cup KmsKeyCreation,
     update_kms_key |-> into_key \cup {"name"} \cup KmsKeyChange,
     delete_kms_key |-> into_key]
dispatch_kms_material_workflow ==
    [get_kms_public_key |-> into_key,
     reveal_kms_private_key |-> into_key \cup {"delivery"},
     bulk_import_kms_keys |-> {"projectId", "keys"} \cup into_entry,
     bulk_reveal_kms_private_keys |-> {"projectId", "keyIds", "delivery"},
     list_kms_signing_algorithms |-> into_key]
dispatch_kms_cryptographic_workflow ==
    [kms_encrypt |-> into_key \cup {"data"},
     kms_decrypt |-> into_key \cup {"delivery"},
     kms_sign |-> into_key \cup {"data"},
     kms_verify |-> into_key \cup {"data"}]
Handles == dispatch_kms_management_workflow @@ dispatch_kms_material_workflow
             @@ dispatch_kms_cryptographic_workflow
(* The tools that can put what they reveal into a file. *)
Delivers == {"kms_decrypt", "reveal_kms_private_key", "bulk_reveal_kms_private_keys"}

Operations ==
    [list_kms_keys |-> list_kms_keys, get_kms_key |-> get_kms_key,
     get_kms_key_by_name |-> get_kms_key_by_name, create_kms_key |-> create_kms_key,
     update_kms_key |-> update_kms_key, delete_kms_key |-> delete_kms_key,
     get_kms_public_key |-> get_kms_public_key,
     reveal_kms_private_key |-> reveal_kms_private_key,
     bulk_import_kms_keys |-> bulk_import_kms_keys,
     bulk_reveal_kms_private_keys |-> bulk_reveal_kms_private_keys,
     list_kms_signing_algorithms |-> list_kms_signing_algorithms,
     kms_encrypt |-> kms_encrypt, kms_decrypt |-> kms_decrypt,
     kms_sign |-> kms_sign, kms_verify |-> kms_verify]

Alternatives == <<>>
Trusts == <<>>

(* Mutant of kms_tools: what changes nothing is a plain read. *)
QuietTools ==
    [o \in {"list_kms_keys", "get_kms_key", "get_kms_key_by_name", "get_kms_public_key",
            "reveal_kms_private_key", "list_kms_signing_algorithms"} |-> "read"]
    @@ [o \in {"create_kms_key", "bulk_import_kms_keys", "bulk_reveal_kms_private_keys",
               "kms_encrypt", "kms_decrypt", "kms_sign", "kms_verify"} |-> "write"]
    @@ [o \in {"update_kms_key", "delete_kms_key"} |-> "destroy"]
kms_tools ==
    [o \in {"list_kms_keys", "get_kms_key", "get_kms_key_by_name", "get_kms_public_key",
            "reveal_kms_private_key", "list_kms_signing_algorithms"} |-> "readAudited"]
    @@ [o \in {"create_kms_key", "bulk_import_kms_keys", "bulk_reveal_kms_private_keys",
               "kms_encrypt", "kms_decrypt", "kms_sign", "kms_verify"} |-> "write"]
    @@ [o \in {"update_kms_key", "delete_kms_key"} |-> "destroy"]
Tiers == kms_tools
=============================================================================
