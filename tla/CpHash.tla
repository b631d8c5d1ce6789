------------------------------- MODULE CpHash -------------------------------
(***************************************************************************)
(* The command wrappers of lib/tpm2.c that accept a cp_hash argument.      *)
(*                                                                         *)
(* Every such wrapper has the same shape:                                  *)
(*   [Esys_TR_FromTPMPublic(nv_index)]   (NV wrappers only)                *)
(*   tpm2_auth_util_get_shandle for each authorized object                 *)
(*   if (cp_hash) {                                                        *)
(*       tpm2_getsapicontext; Tss2_Sys_<CC>_Prepare(handles, params)       *)
(*       tpm2_tr_get_name for name1 [, name2 [, name3]]   (goto on error) *)
(*       rc = tpm2_sapi_getcphash(name1, name2, name3, authhash)           *)
(*       Esys_Free(name3); Esys_Free(name2); Esys_Free(name1)  (labels)    *)
(*       goto skip_esapi_call                                              *)
(*   }                                                                     *)
(*   rval = Esys_<CC>(handles, sessions, params)                           *)
(*   [if tpm2_error_get(rval) == TPM2_RC_COMMAND_CODE: older command]     *)
(*   if (rval != SUCCESS [&& rval != accepted]) return from_tpm(rval)      *)
(*   skip_esapi_call: return rc                                            *)
(*                                                                         *)
(* The wrappers differ only in the data each step is given; a Wrapper      *)
(* record holds that data, written down per wrapper from its source      *)
(* below.  The actions after it are the steps above.                      *)
(*                                                                         *)
(* The tool is run twice at most, as the cpHash workflow uses it: first    *)
(* with cp_hash, which yields a cpHash; tpm2_policy_cphash binds it into  *)
(* a policy session; then the same wrapper runs with cp_hash = NULL and    *)
(* the TPM authorizes the command only if its cpHash equals the bound one. *)
(*                                                                         *)
(* Objects and parameters are named by the source's argument names; the   *)
(* Name of an object is the object itself, and a cpHash is the tuple it    *)
(* hashes (H is injective for the model: spec property 7).                 *)
(***************************************************************************)
EXTENDS Integers, Sequences, FiniteSets, TLC

CONSTANTS
    Calls,          \* the wrappers invoked (names of entries of Wrappers)
    Supported,      \* the command codes the TPM implements
    TpmStarted,     \* TPM2_Startup has been run on the TPM
    TpmResults,     \* what the TPM may answer a command it executes
    PrepareResults  \* what a Tss2_Sys_*_Prepare may return

(* Return codes: layer * 2^16 + code, as TSS2_RC. *)
TPM2_RC_SUCCESS      == 0
TPM2_RC_INITIALIZE   == 256        \* 0x100
TPM2_RC_FAILURE      == 257        \* 0x101
TPM2_RC_COMMAND_CODE == 323        \* 0x143
TPM2_RC_POLICY_FAIL  == 2457       \* 0x099 | TPM2_RC_S | TPM2_RC_1
TSS2_SYS_RC_BAD_REFERENCE == 524293  \* 0x80005

\* tpm2_error_get: the low 16 bits of a TSS2_RC.
TPM2_ERROR_TSS2_RC_ERROR_MASK == 65536
tpm2_error_get(rc) == rc % TPM2_ERROR_TSS2_RC_ERROR_MASK

\* tool_rc values.
ToolRc == {"success", "general_error", "from_tpm"}

\* A command as issued: its code, the objects in its handle area, its
\* parameters.
Cmd(cc, handles, params) == [cc |-> cc, handles |-> handles, params |-> params]

\* The data one wrapper gives the shared steps:
\*   from:  it calls Esys_TR_FromTPMPublic(nv_index) first;
\*   auth:  the objects whose session handle it gets, in order;
\*   prep:  the Tss2_Sys_*_Prepare calls, the second one tried when the
\*          first returns TPM2_RC_COMMAND_CODE;
\*   names: the objects passed to tpm2_tr_get_name, in order;
\*   alg:   the object whose session's authhash the cpHash uses;
\*   esys:  the Esys_* calls, the second one made when the first returns
\*          TPM2_RC_COMMAND_CODE;
\*   accept: TPM return codes besides TPM2_RC_SUCCESS taken as success.
Wrapper(from, auth, prep, names, alg, esys, accept) ==
    [from |-> from, auth |-> auth, prep |-> prep, names |-> names,
     alg |-> alg, esys |-> esys, accept |-> accept]

\* The cpHash a command carries: H(cc || names || params).
CpHashOf(cmd) == [cc |-> cmd.cc, names |-> cmd.handles, params |-> cmd.params]

NoHash == [cc |-> "none", names |-> <<>>, params |-> <<>>]

(***************************************************************************)
(* The wrappers, one definition each, in the order of lib/tpm2.c.  Every  *)
(* argument list is the one the source passes, read off the call; object  *)
(* arguments are named by their tpm2_loaded_object, the NV index handle   *)
(* (nv_index, or the ESYS_TR Esys_TR_FromTPMPublic made of it) by "nv".   *)
(***************************************************************************)

\* Slip: tpm2_nv_read fetching the names in the other order.
W_nv_read_names_swapped == Wrapper(TRUE, <<"auth_hierarchy_obj">>,
    <<Cmd("NV_Read", <<"auth_hierarchy_obj", "nv">>, <<"size", "offset">>)>>,
    <<"nv", "auth_hierarchy_obj">>, "auth_hierarchy_obj",
    <<Cmd("NV_Read", <<"auth_hierarchy_obj", "nv">>, <<"size", "offset">>)>>, {})

W_nv_read == Wrapper(TRUE, <<"auth_hierarchy_obj">>,
    <<Cmd("NV_Read", <<"auth_hierarchy_obj", "nv">>, <<"size", "offset">>)>>,
    <<"auth_hierarchy_obj", "nv">>, "auth_hierarchy_obj",
    <<Cmd("NV_Read", <<"auth_hierarchy_obj", "nv">>, <<"size", "offset">>)>>, {})

W_policy_authorize_nv == Wrapper(TRUE, <<"auth_hierarchy_obj">>,
    <<Cmd("PolicyAuthorizeNV", <<"auth_hierarchy_obj", "nv", "policy_session">>, <<>>)>>,
    <<"auth_hierarchy_obj", "nv", "policy_session">>, "auth_hierarchy_obj",
    <<Cmd("PolicyAuthorizeNV", <<"auth_hierarchy_obj", "nv", "policy_session">>, <<>>)>>, {})

W_policy_nv == Wrapper(TRUE, <<"auth_hierarchy_obj">>,
    <<Cmd("PolicyNV", <<"auth_hierarchy_obj", "nv", "policy_session">>, <<"operand_b", "offset", "operation">>)>>,
    <<"auth_hierarchy_obj", "nv", "policy_session">>, "auth_hierarchy_obj",
    <<Cmd("PolicyNV", <<"auth_hierarchy_obj", "nv", "policy_session">>, <<"operand_b", "offset", "operation">>)>>, {})

W_policy_secret == Wrapper(FALSE, <<"auth_entity_obj">>,
    <<Cmd("PolicySecret", <<"auth_entity_obj", "policy_session">>, <<"nonce_tpm", "cp_hash_a", "policy_qualifier", "expiration">>)>>,
    <<"auth_entity_obj", "policy_session">>, "auth_entity_obj",
    <<Cmd("PolicySecret", <<"auth_entity_obj", "policy_session">>, <<"nonce_tpm", "cp_hash_a", "policy_qualifier", "expiration">>)>>, {})

W_evictcontrol == Wrapper(FALSE, <<"auth_hierarchy_obj">>,
    <<Cmd("EvictControl", <<"auth_hierarchy_obj", "to_persist_key_obj">>, <<"persistent_handle">>)>>,
    <<"auth_hierarchy_obj", "to_persist_key_obj">>, "auth_hierarchy_obj",
    <<Cmd("EvictControl", <<"auth_hierarchy_obj", "to_persist_key_obj">>, <<"persistent_handle">>)>>, {})

W_activatecredential == Wrapper(FALSE, <<"keyhandleobj", "activatehandleobj">>,
    <<Cmd("ActivateCredential", <<"activatehandleobj", "keyhandleobj">>, <<"credential_blob", "secret">>)>>,
    <<"activatehandleobj", "keyhandleobj">>, "activatehandleobj",
    <<Cmd("ActivateCredential", <<"activatehandleobj", "keyhandleobj">>, <<"credential_blob", "secret">>)>>, {})

W_create == Wrapper(FALSE, <<"parent_obj">>,
    <<Cmd("Create", <<"parent_obj">>, <<"in_sensitive", "in_public", "outside_info", "creation_pcr">>)>>,
    <<"parent_obj">>, "parent_obj",
    <<Cmd("Create", <<"parent_obj">>, <<"in_sensitive", "in_public", "outside_info", "creation_pcr">>)>>, {})

W_create_loaded == Wrapper(FALSE, <<"parent_obj">>,
    <<Cmd("CreateLoaded", <<"parent_obj">>, <<"in_sensitive", "in_public">>)>>,
    <<"parent_obj">>, "parent_obj",
    <<Cmd("CreateLoaded", <<"parent_obj">>, <<"in_sensitive", "in_public">>)>>, {})

W_object_change_auth == Wrapper(FALSE, <<"object">>,
    <<Cmd("ObjectChangeAuth", <<"object", "parent_object">>, <<"new_auth">>)>>,
    <<"object", "parent_object">>, "object",
    <<Cmd("ObjectChangeAuth", <<"object", "parent_object">>, <<"new_auth">>)>>, {})

W_nv_change_auth == Wrapper(FALSE, <<"nv">>,
    <<Cmd("NV_ChangeAuth", <<"nv">>, <<"new_auth">>)>>,
    <<"nv">>, "nv",
    <<Cmd("NV_ChangeAuth", <<"nv">>, <<"new_auth">>)>>, {})

W_hierarchy_change_auth == Wrapper(FALSE, <<"hierarchy">>,
    <<Cmd("HierarchyChangeAuth", <<"hierarchy">>, <<"new_auth">>)>>,
    <<"hierarchy">>, "hierarchy",
    <<Cmd("HierarchyChangeAuth", <<"hierarchy">>, <<"new_auth">>)>>, {})

W_certify == Wrapper(FALSE, <<"certifiedkey_obj", "signingkey_obj">>,
    <<Cmd("Certify", <<"certifiedkey_obj", "signingkey_obj">>, <<"qualifying_data", "scheme">>)>>,
    <<"certifiedkey_obj", "signingkey_obj">>, "certifiedkey_obj",
    <<Cmd("Certify", <<"certifiedkey_obj", "signingkey_obj">>, <<"qualifying_data", "scheme">>)>>, {})

W_rsa_decrypt == Wrapper(FALSE, <<"keyobj">>,
    <<Cmd("RSA_Decrypt", <<"keyobj">>, <<"cipher_text", "scheme", "label">>)>>,
    <<"keyobj">>, "keyobj",
    <<Cmd("RSA_Decrypt", <<"keyobj">>, <<"cipher_text", "scheme", "label">>)>>, {})

W_load == Wrapper(FALSE, <<"parentobj">>,
    <<Cmd("Load", <<"parentobj">>, <<"in_private", "in_public">>)>>,
    <<"parentobj">>, "parentobj",
    <<Cmd("Load", <<"parentobj">>, <<"in_private", "in_public">>)>>, {})

W_clear == Wrapper(FALSE, <<"auth_hierarchy">>,
    <<Cmd("Clear", <<"auth_hierarchy">>, <<>>)>>,
    <<"auth_hierarchy">>, "auth_hierarchy",
    <<Cmd("Clear", <<"auth_hierarchy">>, <<>>)>>, {TPM2_RC_INITIALIZE})

W_clearcontrol == Wrapper(FALSE, <<"auth_hierarchy">>,
    <<Cmd("ClearControl", <<"auth_hierarchy">>, <<"disable_clear">>)>>,
    <<"auth_hierarchy">>, "auth_hierarchy",
    <<Cmd("ClearControl", <<"auth_hierarchy">>, <<"disable_clear">>)>>, {TPM2_RC_INITIALIZE})

W_dictionarylockout_setup == Wrapper(FALSE, <<"auth_hierarchy">>,
    <<Cmd("DictionaryAttackParameters", <<"auth_hierarchy">>, <<"max_tries", "recovery_time", "lockout_recovery_time">>)>>,
    <<"auth_hierarchy">>, "auth_hierarchy",
    <<Cmd("DictionaryAttackParameters", <<"auth_hierarchy">>, <<"max_tries", "recovery_time", "lockout_recovery_time">>)>>, {})

W_dictionarylockout_reset == Wrapper(FALSE, <<"auth_hierarchy">>,
    <<Cmd("DictionaryAttackLockReset", <<"auth_hierarchy">>, <<>>)>>,
    <<"auth_hierarchy">>, "auth_hierarchy",
    <<Cmd("DictionaryAttackLockReset", <<"auth_hierarchy">>, <<>>)>>, {})

W_duplicate == Wrapper(FALSE, <<"duplicable_key">>,
    <<Cmd("Duplicate", <<"duplicable_key", "new_parent">>, <<"in_key", "sym_alg">>)>>,
    <<"duplicable_key", "new_parent">>, "duplicable_key",
    <<Cmd("Duplicate", <<"duplicable_key", "new_parent">>, <<"in_key", "sym_alg">>)>>, {})

W_encryptdecrypt == Wrapper(FALSE, <<"encryption_key_obj">>,
    <<Cmd("EncryptDecrypt2", <<"encryption_key_obj">>, <<"input_data", "decrypt", "mode", "iv_in">>),
      Cmd("EncryptDecrypt", <<"encryption_key_obj">>, <<"decrypt", "mode", "iv_in", "input_data">>)>>,
    <<"encryption_key_obj">>, "encryption_key_obj",
    <<Cmd("EncryptDecrypt2", <<"encryption_key_obj">>, <<"input_data", "decrypt", "mode", "iv_in">>),
      Cmd("EncryptDecrypt", <<"encryption_key_obj">>, <<"decrypt", "mode", "iv_in", "input_data">>)>>, {})

W_hierarchycontrol == Wrapper(FALSE, <<"auth_hierarchy">>,
    <<Cmd("HierarchyControl", <<"auth_hierarchy">>, <<"enable", "state">>)>>,
    <<"auth_hierarchy">>, "auth_hierarchy",
    <<Cmd("HierarchyControl", <<"auth_hierarchy">>, <<"enable", "state">>)>>, {TPM2_RC_INITIALIZE})

W_hmac == Wrapper(FALSE, <<"hmac_key_obj">>,
    <<Cmd("HMAC", <<"hmac_key_obj">>, <<"input_buffer", "halg">>)>>,
    <<"hmac_key_obj">>, "hmac_key_obj",
    <<Cmd("HMAC", <<"hmac_key_obj">>, <<"input_buffer", "halg">>)>>, {})

W_import == Wrapper(FALSE, <<"parent_obj">>,
    <<Cmd("Import", <<"parent_obj">>, <<"encryption_key", "object_public", "duplicate", "in_sym_seed", "symmetric_alg">>)>>,
    <<"parent_obj">>, "parent_obj",
    <<Cmd("Import", <<"parent_obj">>, <<"encryption_key", "object_public", "duplicate", "in_sym_seed", "symmetric_alg">>)>>, {})

W_nv_definespace == Wrapper(FALSE, <<"auth_hierarchy_obj">>,
    <<Cmd("NV_DefineSpace", <<"auth_hierarchy_obj">>, <<"auth", "public_info">>)>>,
    <<"auth_hierarchy_obj">>, "auth_hierarchy_obj",
    <<Cmd("NV_DefineSpace", <<"auth_hierarchy_obj">>, <<"auth", "public_info">>)>>, {})

W_nv_increment == Wrapper(TRUE, <<"auth_hierarchy_obj">>,
    <<Cmd("NV_Increment", <<"auth_hierarchy_obj", "nv">>, <<>>)>>,
    <<"auth_hierarchy_obj", "nv">>, "auth_hierarchy_obj",
    <<Cmd("NV_Increment", <<"auth_hierarchy_obj", "nv">>, <<>>)>>, {})

W_nvreadlock == Wrapper(TRUE, <<"auth_hierarchy_obj">>,
    <<Cmd("NV_ReadLock", <<"auth_hierarchy_obj", "nv">>, <<>>)>>,
    <<"auth_hierarchy_obj", "nv">>, "auth_hierarchy_obj",
    <<Cmd("NV_ReadLock", <<"auth_hierarchy_obj", "nv">>, <<>>)>>, {})

W_nvwritelock == Wrapper(TRUE, <<"auth_hierarchy_obj">>,
    <<Cmd("NV_WriteLock", <<"auth_hierarchy_obj", "nv">>, <<>>)>>,
    <<"auth_hierarchy_obj", "nv">>, "auth_hierarchy_obj",
    <<Cmd("NV_WriteLock", <<"auth_hierarchy_obj", "nv">>, <<>>)>>, {})

W_nvglobalwritelock == Wrapper(FALSE, <<"auth_hierarchy_obj">>,
    <<Cmd("NV_GlobalWriteLock", <<"auth_hierarchy_obj">>, <<>>)>>,
    <<"auth_hierarchy_obj">>, "auth_hierarchy_obj",
    <<Cmd("NV_GlobalWriteLock", <<"auth_hierarchy_obj">>, <<>>)>>, {})

W_nvsetbits == Wrapper(TRUE, <<"auth_hierarchy_obj">>,
    <<Cmd("NV_SetBits", <<"auth_hierarchy_obj", "nv">>, <<"bits">>)>>,
    <<"auth_hierarchy_obj", "nv">>, "auth_hierarchy_obj",
    <<Cmd("NV_SetBits", <<"auth_hierarchy_obj", "nv">>, <<"bits">>)>>, {})

W_nvextend == Wrapper(TRUE, <<"auth_hierarchy_obj">>,
    <<Cmd("NV_Extend", <<"auth_hierarchy_obj", "nv">>, <<"data">>)>>,
    <<"auth_hierarchy_obj", "nv">>, "auth_hierarchy_obj",
    <<Cmd("NV_Extend", <<"auth_hierarchy_obj", "nv">>, <<"data">>)>>, {})

W_nvundefine == Wrapper(TRUE, <<"auth_hierarchy_obj">>,
    <<Cmd("NV_UndefineSpace", <<"auth_hierarchy_obj", "nv">>, <<>>)>>,
    <<"auth_hierarchy_obj", "nv">>, "auth_hierarchy_obj",
    <<Cmd("NV_UndefineSpace", <<"auth_hierarchy_obj", "nv">>, <<>>)>>, {})

W_nvundefinespecial == Wrapper(TRUE, <<"auth_hierarchy_obj">>,
    <<Cmd("NV_UndefineSpaceSpecial", <<"nv", "auth_hierarchy_obj">>, <<>>)>>,
    <<"nv", "auth_hierarchy_obj">>, "auth_hierarchy_obj",
    <<Cmd("NV_UndefineSpaceSpecial", <<"nv", "auth_hierarchy_obj">>, <<>>)>>, {})

W_nvwrite == Wrapper(TRUE, <<"auth_hierarchy_obj">>,
    <<Cmd("NV_Write", <<"auth_hierarchy_obj", "nv">>, <<"data", "offset">>)>>,
    <<"auth_hierarchy_obj", "nv">>, "auth_hierarchy_obj",
    <<Cmd("NV_Write", <<"auth_hierarchy_obj", "nv">>, <<"data", "offset">>)>>, {})

W_sign == Wrapper(FALSE, <<"signingkey_obj">>,
    <<Cmd("Sign", <<"signingkey_obj">>, <<"digest", "in_scheme", "validation">>)>>,
    <<"signingkey_obj">>, "signingkey_obj",
    <<Cmd("Sign", <<"signingkey_obj">>, <<"digest", "in_scheme", "validation">>)>>, {})

W_nvcertify == Wrapper(TRUE, <<"signingkey_obj", "nvindex_authobj">>,
    <<Cmd("NV_Certify", <<"signingkey_obj", "nvindex_authobj", "nv">>, <<"policy_qualifier", "in_scheme", "size", "offset">>)>>,
    <<"signingkey_obj", "nvindex_authobj", "nv">>, "signingkey_obj",
    <<Cmd("NV_Certify", <<"signingkey_obj", "nvindex_authobj", "nv">>, <<"policy_qualifier", "in_scheme", "size", "offset">>)>>, {})

W_certifycreation == Wrapper(FALSE, <<"signingkey_obj">>,
    <<Cmd("CertifyCreation", <<"signingkey_obj", "certifiedkey_obj">>, <<"policy_qualifier", "creation_hash", "in_scheme", "creation_ticket">>)>>,
    <<"signingkey_obj", "certifiedkey_obj">>, "signingkey_obj",
    <<Cmd("CertifyCreation", <<"signingkey_obj", "certifiedkey_obj">>, <<"policy_qualifier", "creation_hash", "in_scheme", "creation_ticket">>)>>, {})

W_setprimarypolicy == Wrapper(FALSE, <<"hierarchy_object">>,
    <<Cmd("SetPrimaryPolicy", <<"hierarchy_object">>, <<"auth_policy", "hash_algorithm">>)>>,
    <<"hierarchy_object">>, "hierarchy_object",
    <<Cmd("SetPrimaryPolicy", <<"hierarchy_object">>, <<"auth_policy", "hash_algorithm">>)>>, {})

W_quote == Wrapper(FALSE, <<"quote_obj">>,
    <<Cmd("Quote", <<"quote_obj">>, <<"qualifying_data", "in_scheme", "pcr_select">>)>>,
    <<"quote_obj">>, "quote_obj",
    <<Cmd("Quote", <<"quote_obj">>, <<"qualifying_data", "in_scheme", "pcr_select">>)>>, {})

W_unseal == Wrapper(FALSE, <<"sealkey_obj">>,
    <<Cmd("Unseal", <<"sealkey_obj">>, <<>>)>>,
    <<"sealkey_obj">>, "sealkey_obj",
    <<Cmd("Unseal", <<"sealkey_obj">>, <<>>)>>, {})

W_setclock == Wrapper(FALSE, <<"object">>,
    <<Cmd("ClockSet", <<"object">>, <<"new_time">>)>>,
    <<"object">>, "object",
    <<Cmd("ClockSet", <<"object">>, <<"new_time">>)>>, {})

W_clockrateadjust == Wrapper(FALSE, <<"object">>,
    <<Cmd("ClockRateAdjust", <<"object">>, <<"rate_adjust">>)>>,
    <<"object">>, "object",
    <<Cmd("ClockRateAdjust", <<"object">>, <<"rate_adjust">>)>>, {})

W_gettime == Wrapper(FALSE, <<"privacy_admin", "signing_object">>,
    <<Cmd("GetTime", <<"privacy_admin", "signing_object">>, <<"qualifying_data", "scheme">>)>>,
    <<"privacy_admin", "signing_object">>, "signing_object",
    <<Cmd("GetTime", <<"privacy_admin", "signing_object">>, <<"qualifying_data", "scheme">>)>>, {})

\* All wrappers, by the name of their function without "tpm2_".
Wrappers ==
    [nv_read |-> W_nv_read,
     policy_authorize_nv |-> W_policy_authorize_nv,
     policy_nv |-> W_policy_nv,
     policy_secret |-> W_policy_secret,
     evictcontrol |-> W_evictcontrol,
     activatecredential |-> W_activatecredential,
     create |-> W_create,
     create_loaded |-> W_create_loaded,
     object_change_auth |-> W_object_change_auth,
     nv_change_auth |-> W_nv_change_auth,
     hierarchy_change_auth |-> W_hierarchy_change_auth,
     certify |-> W_certify,
     rsa_decrypt |-> W_rsa_decrypt,
     load |-> W_load,
     clear |-> W_clear,
     clearcontrol |-> W_clearcontrol,
     dictionarylockout_setup |-> W_dictionarylockout_setup,
     dictionarylockout_reset |-> W_dictionarylockout_reset,
     duplicate |-> W_duplicate,
     encryptdecrypt |-> W_encryptdecrypt,
     hierarchycontrol |-> W_hierarchycontrol,
     hmac |-> W_hmac,
     import |-> W_import,
     nv_definespace |-> W_nv_definespace,
     nv_increment |-> W_nv_increment,
     nvreadlock |-> W_nvreadlock,
     nvwritelock |-> W_nvwritelock,
     nvglobalwritelock |-> W_nvglobalwritelock,
     nvsetbits |-> W_nvsetbits,
     nvextend |-> W_nvextend,
     nvundefine |-> W_nvundefine,
     nvundefinespecial |-> W_nvundefinespecial,
     nvwrite |-> W_nvwrite,
     sign |-> W_sign,
     nvcertify |-> W_nvcertify,
     certifycreation |-> W_certifycreation,
     setprimarypolicy |-> W_setprimarypolicy,
     quote |-> W_quote,
     unseal |-> W_unseal,
     setclock |-> W_setclock,
     clockrateadjust |-> W_clockrateadjust,
     gettime |-> W_gettime]

NoCmd == Cmd("none", <<>>, <<>>)

(***************************************************************************)
(* The wrappers without a cp_hash argument: an Esys call, then            *)
(*   if (rval != TPM2_RC_SUCCESS) return tool_rc_from_tpm(rval);           *)
(*   return tool_rc_success;                                              *)
(* some after tpm2_auth_util_get_shandle for one object.  Their handles  *)
(* and parameters enter no cpHash, so a command is its code alone.  The   *)
(* ESYS calls that send the TPM nothing (Esys_TR_Serialize, _GetName,     *)
(* _Close, _SetAuth, the TRSess_* accessors, the Tss2_MU_* calls) are left *)
(* out.                                                                    *)
(***************************************************************************)
Plain(cc, auth) == Wrapper(FALSE, auth, <<>>, <<>>, "none", <<Cmd(cc, <<>>, <<>>)>>, {})

P_readpublic              == Plain("ReadPublic", <<>>)
P_from_tpm_public         == Plain("TR_FromTPMPublic", <<>>)
P_nv_readpublic           == Plain("NV_ReadPublic", <<>>)
P_getcap                  == Plain("GetCapability", <<>>)
P_context_save            == Plain("ContextSave", <<>>)
P_context_load            == Plain("ContextLoad", <<>>)
P_flush_context           == Plain("FlushContext", <<>>)
P_start_auth_session      == Plain("StartAuthSession", <<>>)
P_policy_restart          == Plain("PolicyRestart", <<>>)
P_get_capability          == Plain("GetCapability", <<>>)
P_create_primary          == Plain("CreatePrimary", <<>>)
P_pcr_read                == Plain("PCR_Read", <<>>)
P_policy_authorize        == Plain("PolicyAuthorize", <<>>)
P_policy_or               == Plain("PolicyOR", <<>>)
P_policy_namehash         == Plain("PolicyNameHash", <<>>)
P_policy_template         == Plain("PolicyTemplate", <<>>)
P_policy_pcr              == Plain("PolicyPCR", <<>>)
P_policy_password         == Plain("PolicyPassword", <<>>)
P_policy_signed           == Plain("PolicySigned", <<>>)
P_policy_ticket           == Plain("PolicyTicket", <<>>)
P_policy_authvalue        == Plain("PolicyAuthValue", <<>>)
P_policy_countertimer     == Plain("PolicyCounterTimer", <<>>)
P_policy_getdigest        == Plain("PolicyGetDigest", <<>>)
P_policy_command_code     == Plain("PolicyCommandCode", <<>>)
P_policy_nv_written       == Plain("PolicyNvWritten", <<>>)
P_policy_locality         == Plain("PolicyLocality", <<>>)
P_policy_duplication_select == Plain("PolicyDuplicationSelect", <<>>)
P_hash                    == Plain("Hash", <<>>)
\* Esys_HashSequenceStart, then return tpm2_tr_set_auth(...): see PostEsys.
P_hash_sequence_start     == Plain("HashSequenceStart", <<>>)
P_sequence_update         == Plain("SequenceUpdate", <<>>)
P_sequence_complete       == Plain("SequenceComplete", <<>>)
P_event_sequence_complete == Plain("EventSequenceComplete", <<"pcr">>)
P_rsa_encrypt             == Plain("RSA_Encrypt", <<>>)
P_hmac_start              == Plain("HMAC_Start", <<"hmac_key_obj">>)
P_hmac_sequenceupdate     == Plain("SequenceUpdate", <<"hmac_key_obj">>)
P_hmac_sequencecomplete   == Plain("SequenceComplete", <<"hmac_key_obj">>)
P_tr_from_tpm_public      == Plain("TR_FromTPMPublic", <<>>)
\* Esys_PCR_Allocate, then the allocationSuccess check: see PostEsys.
P_pcr_allocate            == Plain("PCR_Allocate", <<"auth_hierarchy_obj">>)
P_changeeps               == Plain("ChangeEPS", <<"platform_hierarchy_session">>)
P_changepps               == Plain("ChangePPS", <<"platform_hierarchy_session">>)
P_incrementalselftest     == Plain("IncrementalSelfTest", <<>>)
P_stirrandom              == Plain("StirRandom", <<>>)
P_selftest                == Plain("SelfTest", <<>>)
P_gettestresult           == Plain("GetTestResult", <<>>)
P_loadexternal            == Plain("LoadExternal", <<>>)
P_pcr_event               == Plain("PCR_Event", <<"pcr">>)
P_getrandom               == Plain("GetRandom", <<>>)
\* if (rval != TPM2_RC_SUCCESS && rval != TPM2_RC_INITIALIZE)
P_startup == Wrapper(FALSE, <<>>, <<>>, <<>>, "none",
                     <<Cmd("Startup", <<>>, <<>>)>>, {TPM2_RC_INITIALIZE})
P_pcr_reset               == Plain("PCR_Reset", <<>>)
P_makecredential          == Plain("MakeCredential", <<>>)
P_verifysignature         == Plain("VerifySignature", <<>>)
P_readclock               == Plain("ReadClock", <<>>)
P_shutdown                == Plain("Shutdown", <<>>)

PlainWrappers ==
    [readpublic |-> P_readpublic, from_tpm_public |-> P_from_tpm_public,
     nv_readpublic |-> P_nv_readpublic, getcap |-> P_getcap,
     context_save |-> P_context_save, context_load |-> P_context_load,
     flush_context |-> P_flush_context,
     start_auth_session |-> P_start_auth_session,
     policy_restart |-> P_policy_restart, get_capability |-> P_get_capability,
     create_primary |-> P_create_primary, pcr_read |-> P_pcr_read,
     policy_authorize |-> P_policy_authorize, policy_or |-> P_policy_or,
     policy_namehash |-> P_policy_namehash,
     policy_template |-> P_policy_template, policy_pcr |-> P_policy_pcr,
     policy_password |-> P_policy_password,
     policy_signed |-> P_policy_signed, policy_ticket |-> P_policy_ticket,
     policy_authvalue |-> P_policy_authvalue,
     policy_countertimer |-> P_policy_countertimer,
     policy_getdigest |-> P_policy_getdigest,
     policy_command_code |-> P_policy_command_code,
     policy_nv_written |-> P_policy_nv_written,
     policy_locality |-> P_policy_locality,
     policy_duplication_select |-> P_policy_duplication_select,
     hash |-> P_hash, hash_sequence_start |-> P_hash_sequence_start,
     sequence_update |-> P_sequence_update,
     sequence_complete |-> P_sequence_complete,
     event_sequence_complete |-> P_event_sequence_complete,
     rsa_encrypt |-> P_rsa_encrypt, hmac_start |-> P_hmac_start,
     hmac_sequenceupdate |-> P_hmac_sequenceupdate,
     hmac_sequencecomplete |-> P_hmac_sequencecomplete,
     tr_from_tpm_public |-> P_tr_from_tpm_public,
     pcr_allocate |-> P_pcr_allocate, changeeps |-> P_changeeps,
     changepps |-> P_changepps,
     incrementalselftest |-> P_incrementalselftest,
     stirrandom |-> P_stirrandom, selftest |-> P_selftest,
     gettestresult |-> P_gettestresult, loadexternal |-> P_loadexternal,
     pcr_event |-> P_pcr_event, getrandom |-> P_getrandom,
     startup |-> P_startup, pcr_reset |-> P_pcr_reset,
     makecredential |-> P_makecredential,
     verifysignature |-> P_verifysignature, readclock |-> P_readclock,
     shutdown |-> P_shutdown]

\* Every wrapper of lib/tpm2.c that sends the TPM a command.
AllWrappers == Wrappers @@ PlainWrappers

\* What a wrapper does after an accepted Esys call: tpm2_hash_sequence_start
\* returns tpm2_tr_set_auth(...), which may fail; tpm2_pcr_allocate returns
\* tool_rc_general_error when the TPM reports !allocation_success.
PostEsys(x) ==
    CASE x = "hash_sequence_start" -> {"success", "from_tpm"}
      [] x = "pcr_allocate"        -> {"success", "general_error"}
      [] OTHER                     -> {"success"}


VARIABLES
    run,      \* 1: the first invocation; 2: the one after tpm2_policy_cphash
    mode,     \* "cp": cp_hash is given; "exec": cp_hash is NULL
    w,        \* the wrapper invoked
    pc,       \* the step the wrapper is at
    nAuth,    \* session handles got so far
    prepared, \* the command the SAPI context holds after Prepare
    fetched,  \* the names got by tpm2_tr_get_name so far
    held,     \* indices of the names allocated and not yet freed
    freeFrom, \* the free label jumped to: Esys_Free(name_freeFrom) .. name1
    cpHash,   \* the cpHash the first invocation wrote
    bound,    \* the cpHash bound into the policy session (NoHash if none)
    rc,       \* the tool_rc the wrapper returns
    log       \* the commands the TPM received: [run, mode, cmd, rval]

vars == <<run, mode, w, pc, nAuth, prepared, fetched, held, freeFrom,
          cpHash, bound, rc, log>>

Wr == AllWrappers[w]

Init ==
    /\ run = 1
    /\ w \in Calls
    /\ mode \in IF AllWrappers[w].prep # <<>> THEN {"cp", "exec"} ELSE {"exec"}
    /\ pc = "start"
    /\ nAuth = 0
    /\ prepared = NoCmd
    /\ fetched = <<>>
    /\ held = {}
    /\ freeFrom = 0
    /\ cpHash = NoHash
    /\ bound = NoHash
    /\ rc = "success"
    /\ log = <<>>

\* return r;  (the early returns, and the return at skip_esapi_call)
Return(r) == pc' = "done" /\ rc' = r

(* What the TPM answers a command: TPM2_RC_INITIALIZE to anything but    *)
(* TPM2_Startup before TPM2_Startup, and to TPM2_Startup after it;         *)
(* TPM2_RC_COMMAND_CODE for a command it does not implement; a policy     *)
(* failure when the session's bound cpHash is not the command's.          *)
TpmAnswers(cmd) ==
    IF cmd.cc = "Startup"
    THEN IF TpmStarted THEN {TPM2_RC_INITIALIZE} ELSE TpmResults
    ELSE IF ~TpmStarted THEN {TPM2_RC_INITIALIZE}
    ELSE IF cmd.cc \notin Supported THEN {TPM2_RC_COMMAND_CODE}
    ELSE IF bound # NoHash /\ bound # CpHashOf(cmd) THEN {TPM2_RC_POLICY_FAIL}
    ELSE TpmResults

\* Esys_TR_FromTPMPublic(nv_index) in the NV wrappers.
FromTPMPublic ==
    /\ pc = "start"
    /\ \/ pc' = "shandle" /\ UNCHANGED rc
       \/ Wr.from /\ Return("from_tpm")
    /\ UNCHANGED <<run, mode, w, nAuth, prepared, fetched, held, freeFrom,
                   cpHash, bound, log>>

\* tpm2_auth_util_get_shandle for the next authorized object.
GetShandle ==
    /\ pc = "shandle"
    /\ nAuth < Len(Wr.auth)
    /\ \/ nAuth' = nAuth + 1 /\ UNCHANGED <<pc, rc>>
       \/ Return("general_error") /\ UNCHANGED nAuth
    /\ UNCHANGED <<run, mode, w, prepared, fetched, held, freeFrom,
                   cpHash, bound, log>>

\* if (cp_hash)
CpHashBranch ==
    /\ pc = "shandle"
    /\ nAuth = Len(Wr.auth)
    /\ pc' = IF mode = "cp" THEN "sapi" ELSE "esys"
    /\ UNCHANGED <<run, mode, w, nAuth, prepared, fetched, held, freeFrom,
                   cpHash, bound, rc, log>>

\* tpm2_getsapicontext: Esys_GetSysContext.
GetSapiContext ==
    /\ pc = "sapi"
    /\ \/ pc' = "prepare" /\ UNCHANGED rc
       \/ Return("from_tpm")
    /\ UNCHANGED <<run, mode, w, nAuth, prepared, fetched, held, freeFrom,
                   cpHash, bound, log>>

\* Tss2_Sys_<CC>_Prepare, and in tpm2_encryptdecrypt the retry with
\* Tss2_Sys_EncryptDecrypt_Prepare when the first returns
\* TPM2_RC_COMMAND_CODE.  r1, r2: what the two calls return.
PrepareRetried(r1) ==
    tpm2_error_get(r1) = TPM2_RC_COMMAND_CODE /\ Len(Wr.prep) = 2
Prepare ==
    /\ pc = "prepare"
    /\ \E r1, r2 \in PrepareResults :
         LET rval == IF PrepareRetried(r1) THEN r2 ELSE r1
             cmd  == IF PrepareRetried(r1) THEN Wr.prep[2] ELSE Wr.prep[1]
         IN \/ /\ rval = TPM2_RC_SUCCESS
               /\ prepared' = cmd
               /\ pc' = "name"
               /\ UNCHANGED rc
            \/ /\ rval # TPM2_RC_SUCCESS
               /\ Return("general_error")
               /\ UNCHANGED prepared
    /\ UNCHANGED <<run, mode, w, nAuth, fetched, held, freeFrom,
                   cpHash, bound, log>>

\* rc = tpm2_tr_get_name(...); if (rc != tool_rc_success) goto free_name1..k;
\* Slips: jumping one label too far; returning without the free labels.
OnNameFailureOffByOne(k) ==
    /\ rc' = "from_tpm"
    /\ freeFrom' = k + 1
    /\ pc' = "free"
OnNameFailureReturns(k) ==
    /\ rc' = "from_tpm"
    /\ freeFrom' = k
    /\ pc' = "done"
OnNameFailure(k) ==
    /\ rc' = "from_tpm"
    /\ freeFrom' = k
    /\ pc' = "free"
GetName ==
    /\ pc = "name"
    /\ Len(fetched) < Len(Wr.names)
    /\ LET k == Len(fetched) + 1 IN
         \/ /\ fetched' = Append(fetched, Wr.names[k])
            /\ held' = held \cup {k}
            /\ pc' = IF k = Len(Wr.names) THEN "cphash" ELSE "name"
            /\ UNCHANGED <<rc, freeFrom>>
         \/ /\ OnNameFailure(k)
            /\ UNCHANGED <<fetched, held>>
    /\ UNCHANGED <<run, mode, w, nAuth, prepared, cpHash, bound, log>>

(* rc = tpm2_sapi_getcphash(sys_context, name1, name2, name3, halg, cp_hash): *)
(* the command code and the parameter buffer of the prepared command, with *)
(* the names in between; it fails when malloc or the digest fails.        *)
(* Execution then falls through the free labels.                          *)
GetCpHash ==
    /\ pc = "cphash"
    /\ \/ /\ cpHash' = [cc |-> prepared.cc, names |-> fetched,
                        params |-> prepared.params]
          /\ rc' = "success"
       \/ /\ rc' = "general_error"
          /\ UNCHANGED cpHash
    /\ freeFrom' = Len(fetched)
    /\ pc' = "free"
    /\ UNCHANGED <<run, mode, w, nAuth, prepared, fetched, held, bound, log>>

\* free_name1_..._namek: Esys_Free(namek); ... Esys_Free(name1);
\* goto skip_esapi_call; return rc;
\* Slip: a missing goto, falling through to the Esys call.
SkipEsapiCallFallsThrough == pc' = "esys"
SkipEsapiCall == pc' = "done"
FreeNames ==
    /\ pc = "free"
    /\ held' = held \ (1..freeFrom)
    /\ SkipEsapiCall
    /\ UNCHANGED <<run, mode, w, nAuth, prepared, fetched, freeFrom,
                   cpHash, bound, rc, log>>

(* rval = Esys_<CC>(...); in tpm2_encryptdecrypt, Esys_EncryptDecrypt when  *)
(* Esys_EncryptDecrypt2 returns TPM2_RC_COMMAND_CODE; then                 *)
(* if (rval != TPM2_RC_SUCCESS [&& rval != accepted]) return from_tpm(rval) *)
\* Slip: logging the error without returning it.
AcceptedNoReturn(rval) == TRUE
Accepted(rval) == rval = TPM2_RC_SUCCESS \/ rval \in Wr.accept
EsysCall ==
    /\ pc = "esys"
    /\ LET first  == Wr.esys[1]
           second == Wr.esys[Len(Wr.esys)]
       IN \E r1 \in TpmAnswers(first), r2 \in TpmAnswers(second) :
            LET retried == tpm2_error_get(r1) = TPM2_RC_COMMAND_CODE
                           /\ Len(Wr.esys) = 2
                rval    == IF retried THEN r2 ELSE r1
            IN /\ log' = Append(log, [run |-> run, mode |-> mode,
                                      cmd |-> first, rval |-> r1])
                         \o (IF retried
                             THEN <<[run |-> run, mode |-> mode,
                                     cmd |-> second, rval |-> r2]>>
                             ELSE <<>>)
               /\ \E post \in PostEsys(w) :
                    Return(IF Accepted(rval) THEN post ELSE "from_tpm")
    /\ UNCHANGED <<run, mode, w, nAuth, prepared, fetched, held, freeFrom,
                   cpHash, bound>>

(* The cpHash workflow: the cpHash the first invocation wrote is bound     *)
(* into a policy session with tpm2_policy_cphash (Esys_PolicyCpHash), and *)
(* the wrapper is invoked again with cp_hash = NULL.                       *)
PolicyCpHash ==
    /\ pc = "done"
    /\ run = 1
    /\ mode = "cp"
    /\ rc = "success"
    /\ run' = 2
    /\ mode' = "exec"
    /\ bound' = cpHash
    /\ pc' = "start"
    /\ nAuth' = 0
    /\ prepared' = NoCmd
    /\ fetched' = <<>>
    /\ freeFrom' = 0
    /\ UNCHANGED <<w, held, cpHash, rc, log>>

Next ==
    \/ FromTPMPublic
    \/ GetShandle
    \/ CpHashBranch
    \/ GetSapiContext
    \/ Prepare
    \/ GetName
    \/ GetCpHash
    \/ FreeNames
    \/ EsysCall
    \/ PolicyCpHash

Spec == Init /\ [][Next]_vars

-----------------------------------------------------------------------------
(* Properties *)

Commands == UNION {{AllWrappers[x].esys[i] : i \in DOMAIN AllWrappers[x].esys}
                   : x \in DOMAIN AllWrappers}
PrepCommands == UNION {{Wrappers[x].prep[i] : i \in DOMAIN Wrappers[x].prep}
                       : x \in DOMAIN Wrappers} \cup {NoCmd}

TypeOK ==
    /\ run \in {1, 2}
    /\ mode \in {"cp", "exec"}
    /\ w \in Calls
    /\ pc \in {"start", "shandle", "sapi", "prepare", "name", "cphash",
               "free", "esys", "done"}
    /\ nAuth \in 0..Len(Wr.auth)
    /\ prepared \in PrepCommands
    /\ fetched = SubSeq(Wr.names, 1, Len(fetched))
    /\ held \subseteq 1..Len(Wr.names)
    /\ freeFrom \in 0..Len(Wr.names)
    /\ rc \in ToolRc
    /\ \A i \in DOMAIN log : log[i].cmd \in Commands

(* A wrapper invoked with cp_hash sends the TPM no command: every command  *)
(* the TPM receives comes from an invocation with cp_hash = NULL (the      *)
(* goto skip_esapi_call after the free labels).                            *)
CpModeIssuesNoCommand == \A i \in DOMAIN log : log[i].mode = "exec"

(* Every name tpm2_tr_get_name allocated is freed by the time the wrapper  *)
(* returns, on the error paths (goto free_name1..k) as on success.        *)
NamesReleasedOnReturn == pc = "done" => held = {}

(* The cpHash a wrapper writes is the cpHash of the command the same       *)
(* wrapper then sends: bound into a policy session, it never makes the TPM *)
(* refuse that command for a cpHash mismatch.                              *)
CpHashAuthorizesCommand ==
    \A i \in DOMAIN log : log[i].run = 2 => log[i].rval # TPM2_RC_POLICY_FAIL

(* A wrapper returns tool_rc_success only when it did its job: with       *)
(* cp_hash it wrote a cpHash, without it the TPM executed the last command *)
(* it sent with TPM2_RC_SUCCESS, or, for TPM2_Startup, answered            *)
(* TPM2_RC_INITIALIZE because it is started already.                       *)
SuccessMeansDone ==
    pc = "done" /\ rc = "success" =>
        /\ mode = "cp" => cpHash # NoHash
        /\ mode = "exec" =>
             /\ log # <<>>
             /\ log[Len(log)].run = run
             /\ \/ log[Len(log)].rval = TPM2_RC_SUCCESS
                \/ log[Len(log)].cmd.cc = "Startup" /\ TpmStarted
====
