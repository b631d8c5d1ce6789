----------------------------- MODULE Duplicate -----------------------------
(***************************************************************************)
(* tpm2_duplicate (tools/tpm2_duplicate.c): option parsing, the checks,   *)
(* the loads, TPM2_Duplicate (or its cpHash with --cphash), and the three *)
(* outputs written one after the other: the wrapping key of -o, the       *)
(* encrypted seed of -s and the duplicate of -r.  A failure between them  *)
(* returns with the earlier files written and the later ones as they were.*)
(***************************************************************************)
EXTENDS Naturals, Sequences, FiniteSets, DuplicateFiles

CONSTANTS
    ArgVectors,   \* command lines: sequences of option letters, "cphash"
    KeyTypeArgs,  \* values given to -G
    DiskStates    \* the key, seed and duplicate files at the start

ASSUME DiskStates \subseteq DiskFiles

\* The names tpm2_alg_util_from_optarg knows with the symmetric and misc
\* flags; any other value is TPM2_ALG_ERROR.
SymmetricAlgs == {"aes", "camellia", "null"}
SymAlgOf(v) == IF v \in SymmetricAlgs THEN v ELSE "error"

\* This run's TPM2_Duplicate draws generation 1 of the seed and key.
Gen == 1

VARIABLES
    argv,     \* the command line
    argi,     \* the next option on_option handles
    flags,    \* ctx.flags, with "p" and "cphash" for the paths given
    keyType,  \* ctx.key_type
    session,  \* the session of the duplicable key's auth
    dupKey,   \* the inner key of the duplicate TPM2_Duplicate returned (*out_key for -o)
    cpFile,   \* the file given with --cphash
    disk,     \* the files at the paths of -i/-o, -s and -r
    pc,
    rc

vars == <<argv, argi, flags, keyType, session, dupKey, cpFile, disk, pc, rc>>

Init ==
    /\ argv \in ArgVectors
    /\ argi = 1
    /\ flags = {}
    /\ keyType = "error"
    /\ session = "none"
    /\ dupKey = NoKey
    /\ cpFile = NoFile
    /\ disk \in DiskStates
    /\ pc = "options"
    /\ rc = "none"

Return(r) == pc' = "stop" /\ rc' = r
CpMode == "cphash" \in flags

-----------------------------------------------------------------------------
\* on_option: -G sets flags.g only for a value the parser knows; every
\* other option records its path and sets its flag.
on_option ==
    /\ pc = "options"
    /\ argi <= Len(argv)
    /\ argi' = argi + 1
    /\ IF argv[argi] = "G"
       THEN \E v \in KeyTypeArgs :
               /\ keyType' = SymAlgOf(v)
               /\ flags' = IF SymAlgOf(v) # "error" THEN flags \cup {"g"} ELSE flags
       ELSE flags' = flags \cup {argv[argi]} /\ UNCHANGED keyType
    /\ UNCHANGED <<argv, session, dupKey, cpFile, disk, pc, rc>>

\* check_options: -G given; for a key type other than NULL exactly one of
\* -i and -o, for NULL neither; -C, -c, -s and -r given.
check_options ==
    /\ "g" \in flags
    /\ IF keyType # "null"
       THEN Cardinality(flags \cap {"i", "o"}) = 1
       ELSE flags \cap {"i", "o"} = {}
    /\ {"C", "c", "s", "r"} \subseteq flags

\* set_key_algorithm: AES (128-bit CFB) or NULL; camellia, which -G
\* accepts, is refused here.
set_key_algorithm(alg) == alg \in {"aes", "null"}

\* The checks, the load of the new parent, the load of the key with its
\* auth (which opens its session), set_key_algorithm (AES or NULL) and
\* the 16-byte key of -i; the first failure returns.
tpm2_tool_onrun ==
    /\ pc = "options"
    /\ argi > Len(argv)
    /\ IF ~check_options
       THEN Return("option_error") /\ UNCHANGED session
       ELSE \/ Return("general_error") /\ UNCHANGED session
            \/ /\ session' = "open"
               /\ IF ~set_key_algorithm(keyType) \/ ("i" \in flags /\ disk.key = NoFile)
                  THEN Return("general_error")
                  ELSE pc' = "duplicate" /\ UNCHANGED rc
    /\ UNCHANGED <<argv, argi, flags, keyType, dupKey, cpFile, disk>>

\* A plausible slip: the key of -i not passed, so the TPM generates one.
InnerKeyUsedIgnoringIn ==
    IF keyType = "null" THEN NoKey ELSE TpmKey(Gen)

\* The inner wrapping key TPM2_Duplicate uses: none for NULL, the key of
\* -i, or one it generates and returns in dupKey for -o.
InnerKeyUsed ==
    CASE keyType = "null" -> NoKey
      [] "i" \in flags    -> disk.key
      [] OTHER            -> TpmKey(Gen)

\* do_duplicate: in cp mode the cpHash of TPM2_Duplicate saved with
\* files_save_digest, and onrun returns whatever the result; otherwise
\* TPM2_Duplicate, whose failure returns.
do_duplicate ==
    /\ pc = "duplicate"
    /\ \/ /\ CpMode
          /\ \/ cpFile' = <<"cphash", "duplicate">> /\ Return("success")
             \/ Return("general_error") /\ UNCHANGED cpFile
          /\ UNCHANGED dupKey
       \/ /\ ~CpMode
          /\ dupKey' = InnerKeyUsed
          /\ pc' = "save_key"
          /\ UNCHANGED <<rc, cpFile>>
       \/ Return("from_tpm") /\ UNCHANGED <<dupKey, cpFile>>
    /\ UNCHANGED <<argv, argi, flags, keyType, session, disk>>

\* A failed save returns general_error; the file is as it was, or
\* truncated by the fopen(..., "wb") that succeeded before a failed write.
SaveFails(field) ==
    /\ Return("general_error")
    /\ \E f \in {disk[field], NoFile} : disk' = [disk EXCEPT ![field] = f]

\* A save that may fail.
Save(field, value, next) ==
    \/ disk' = [disk EXCEPT ![field] = value] /\ pc' = next /\ UNCHANGED rc
    \/ SaveFails(field)

\* A plausible slip: the returned key not written to the -o path.
SaveKeyOutDropped ==
    /\ pc = "save_key"
    /\ pc' = "save_seed"
    /\ UNCHANGED <<disk, rc>>
    /\ UNCHANGED <<argv, argi, flags, keyType, session, dupKey, cpFile>>

\* With -o, files_save_bytes_to_file of the key TPM2_Duplicate returned.
SaveKeyOut ==
    /\ pc = "save_key"
    /\ IF "o" \in flags
       THEN Save("key", dupKey, "save_seed")
       ELSE pc' = "save_seed" /\ UNCHANGED <<disk, rc>>
    /\ UNCHANGED <<argv, argi, flags, keyType, session, dupKey, cpFile>>

\* files_save_encrypted_seed.
SaveSeed ==
    /\ pc = "save_seed"
    /\ Save("seed", SeedBlob(Gen), "save_private")
    /\ UNCHANGED <<argv, argi, flags, keyType, session, dupKey, cpFile>>

\* files_save_private, then tool_rc_success.
SavePrivate ==
    /\ pc = "save_private"
    /\ \/ disk' = [disk EXCEPT !.dup = DupBlob(dupKey, Gen)] /\ Return("success")
       \/ SaveFails("dup")
    /\ UNCHANGED <<argv, argi, flags, keyType, session, dupKey, cpFile>>

\* tpm2_session_close of the key's session.
tpm2_tool_onstop ==
    /\ pc = "stop"
    /\ session' = IF session = "open" THEN "closed" ELSE session
    /\ pc' = "done"
    /\ UNCHANGED <<argv, argi, flags, keyType, dupKey, cpFile, disk, rc>>

Next ==
    \/ on_option
    \/ tpm2_tool_onrun
    \/ do_duplicate
    \/ SaveKeyOut
    \/ SaveSeed
    \/ SavePrivate
    \/ tpm2_tool_onstop

Spec == Init /\ [][Next]_vars

-----------------------------------------------------------------------------
TypeOK ==
    /\ argi \in 1..(Len(argv) + 1)
    /\ keyType \in SymmetricAlgs \cup {"error"}
    /\ session \in {"none", "open", "closed"}
    /\ disk \in DiskFiles
    /\ rc \in {"none", "success", "general_error", "option_error", "from_tpm"}
====
