------------------------------- MODULE Import -------------------------------
(***************************************************************************)
(* tools/tpm2_import.c: on_option, check_options, tpm2_tool_onrun, its two *)
(* paths and tpm2_tool_onstop.                                             *)
(*                                                                         *)
(* openssl_import wraps an external key for the parent (spec 4.6): it      *)
(* loads the parent's public, builds the child's public (policy, auth,     *)
(* attributes, nameAlg coerced down to the parent's), shares a seed with  *)
(* the parent, loads the key, and key_import computes the name, the inner *)
(* and outer integrity and the TPM2B_PRIVATE, then calls tpm2_import (or  *)
(* computes its cpHash).  tpm_import, chosen by -s or -k, sends a         *)
(* duplicate and seed read from files.                                     *)
(*                                                                         *)
(* The cryptography is outside src/ and is kept as symbolic terms; the    *)
(* size field and the HMAC of the TPM2B_PRIVATE are cells, as in          *)
(* MakeCredential, so the sizes the code computes are checked by parsing  *)
(* the blob back the way TPM2_Import does.                                 *)
(***************************************************************************)
EXTENDS Integers, Sequences, FiniteSets, DuplicateFiles

CONSTANTS
    ArgVectors,     \* the command lines: sequences of option names
    KeyTypeArgs,    \* the values given with -G
    NameAlgArgs,    \* the values given with -g
    ParentNameAlgs, \* the nameAlg of the parent key
    Digesters,      \* the hashes tpm2_openssl_halg_to_digester knows
    DiskStates      \* the duplicate, seed and key files on disk at the start

\* tpm2_alg_util_get_hash_size
HashSize == [sha1 |-> 20, sha256 |-> 32, sha384 |-> 48, sha512 |-> 64, sm3_256 |-> 32]
Hashes == DOMAIN HashSize
\* What tpm2_alg_util_from_optarg accepts with the asymmetric and symmetric
\* flags; any other value gives TPM2_ALG_ERROR.
PublicAlgs == {"rsa", "ecc", "aes", "hmac", "keyedhash"}

ASSUME ParentNameAlgs \subseteq Hashes /\ DiskStates \subseteq DiskFiles

(* Byte helpers, as in MakeCredential. *)
Byte(v) == <<"byte", v>>
BE16(v) == <<Byte(v \div 256), Byte(v % 256)>>
ReadBE16(s, o) ==
    IF o + 1 <= Len(s) /\ s[o][1] = "byte" /\ s[o + 1][1] = "byte"
    THEN s[o][2] * 256 + s[o + 1][2] ELSE -1

(***************************************************************************)
(* The terms of spec 4.5 and 4.6.  The child's public is fixed but for its *)
(* nameAlg, so its name is the pair of the two.                           *)
(***************************************************************************)
Name(alg) == <<"name", alg, "publicArea">>
\* The seed share_secret draws, encrypted to the parent with "DUPLICATE".
EncryptedSeed == <<"oaep", "parent", "seed", "DUPLICATE">>
\* enc_sensitive_key: keyBits.sym / 8 bytes of 0xFF.
InnerKey == <<"0xFF", "parent_sym_bits">>
\* KDFa(parent nameAlg, seed, "INTEGRITY") and KDFa(.., "STORAGE", name).
HmacKey(palg) == <<"kdfa", palg, "seed", "INTEGRITY">>
EncKey(palg, name) == <<"kdfa", palg, "seed", "STORAGE", name>>
\* tpm2_identity_util_calculate_inner_integrity: the sensitive and its
\* digest under the child's nameAlg, encrypted with the inner key.
Inner(alg, name, key) == <<"cfb", key, <<"inner", alg, name, "sensitive">>>>
\* tpm2_identity_util_calculate_outer_integrity: encSens, and the
\* HashSize(palg) cells of HMAC(palg, hmacKey, encSens || name).
EncSens(palg, name, inner) == <<"cfb", EncKey(palg, name), inner>>
OuterHmac(palg, encSens, name) ==
    [i \in 1..HashSize[palg] |-> <<"hmac", HmacKey(palg), encSens, name, i>>]

(***************************************************************************)
(* TPM2_Import as the TPM checks a duplicate (TPM 2.0 Part 3, 13.3; the   *)
(* nameAlg rule the code cites from CryptSecretDecrypt): the seed is one  *)
(* encrypted to the parent, the child's nameAlg is no larger than the     *)
(* parent's, the outer HMAC has the parent's size and value over encSens  *)
(* and the child's name, and under the keys it derives encSens holds the  *)
(* inner wrapping made with the child's nameAlg and the key passed.       *)
(***************************************************************************)
TpmAccepts(cmd, palg) ==
    LET name == Name(cmd.public)
        h    == ReadBE16(cmd.private, 1)
        enc  == cmd.private[Len(cmd.private)]
    IN /\ cmd.seed = EncryptedSeed
       /\ cmd.public \in Hashes
       /\ HashSize[cmd.public] <= HashSize[palg]
       /\ h = HashSize[palg]
       /\ Len(cmd.private) = 3 + h
       /\ SubSeq(cmd.private, 3, 2 + h) = OuterHmac(palg, enc, name)
       /\ enc = EncSens(palg, name, Inner(cmd.public, name, cmd.encKey))

\* What TPM2_Import returns, and the cpHash computed instead in cp mode.
TpmPrivate(cmd) == <<"tpm_private", cmd.public>>
CpHashOf(cmd) == <<"cphash", cmd>>

NoCmd == [public |-> "none", private |-> <<>>, seed |-> <<"none">>,
          encKey |-> <<"none">>, sym |-> "none"]
NoPrivate == <<"none">>

-----------------------------------------------------------------------------
VARIABLES
    argv,       \* the command line
    argi,       \* the next option on_option handles
    opts,       \* the options given
    keyType,    \* ctx.key_type
    nameAlgArg, \* ctx.name_alg, the value of -g
    parent,     \* the parent key's nameAlg
    parentAlg,  \* the nameAlg of the parent public the tool loaded
    nameAlg,    \* public.publicArea.nameAlg of the child
    session,    \* ctx.parent.object.session
    sent,       \* the TPM2_Import command issued, or hashed in cp mode
    imported,   \* imported_private, as TPM2_Import returned it
    pubFile,    \* the file given with -u, as the tool leaves it
    privFile,   \* the file given with -r
    cpFile,     \* the file given with --cphash
    disk,       \* the files given with -i, -s and -k on the TPM path
    pc,
    rc          \* onrun's tool_rc; after onstop, the exit status

vars == <<argv, argi, opts, keyType, nameAlgArg, parent, parentAlg, nameAlg,
          session, sent, imported, pubFile, privFile, cpFile, disk, pc, rc>>

Init ==
    /\ argv \in ArgVectors
    /\ argi = 1
    /\ opts = {}
    /\ keyType = "error"
    /\ nameAlgArg = "none"
    /\ parent \in ParentNameAlgs
    /\ parentAlg = "none"
    /\ nameAlg = "none"
    /\ session = "none"
    /\ sent = NoCmd
    /\ imported = NoPrivate
    /\ pubFile = NoFile
    /\ privFile = NoFile
    /\ cpFile = NoFile
    /\ disk \in DiskStates
    /\ pc = "options"
    /\ rc = "none"

\* onrun returns r; tpm2_tool_onstop follows.
Return(r) == pc' = "stop" /\ rc' = r

\* ctx.import_tpm: set by -k and by -s.
ImportTpm == opts \cap {"k", "s"} # {}
CpMode == "cphash" \in opts

\* tool_rc_success is 0, so a tool_rc function returning false returns it.
ToolRcOfFalse == "success"

ToolRc == {"none", "success", "general_error", "option_error", "from_tpm"}

(***************************************************************************)
(* on_option: -G is parsed at once and a value tpm2_alg_util_from_optarg  *)
(* does not know fails option parsing, so the tool exits before onrun;    *)
(* every other option is stored.                                           *)
(***************************************************************************)
Accept(key) == opts' = opts \cup {key} /\ argi' = argi + 1 /\ UNCHANGED <<pc, rc>>
\* A plausible slip: the optarg stored without checking what it names.
KeyTypeOfRaw(v) == v
\* tpm2_alg_util_from_optarg with the asymmetric and symmetric flags.
KeyTypeOf(v) == IF v \in PublicAlgs THEN v ELSE "error"
on_option ==
    /\ pc = "options"
    /\ argi <= Len(argv)
    /\ LET key == argv[argi] IN
       \/ /\ key = "G"
          /\ \E v \in KeyTypeArgs :
                /\ keyType' = KeyTypeOf(v)
                /\ IF KeyTypeOf(v) = "error"
                   THEN pc' = "done" /\ rc' = "option_error" /\ UNCHANGED <<argi, opts>>
                   ELSE Accept(key)
          /\ UNCHANGED nameAlgArg
       \/ /\ key = "g"
          /\ \E v \in NameAlgArgs : nameAlgArg' = v
          /\ Accept(key)
          /\ UNCHANGED keyType
       \/ /\ key \notin {"G", "g"}
          /\ Accept(key)
          /\ UNCHANGED <<keyType, nameAlgArg>>
    /\ UNCHANGED <<disk, argv, parent, parentAlg, nameAlg, session, sent, imported,
                   pubFile, privFile, cpFile>>

\* check_options: -s is required with the TPM path, which picks AES when
\* -k is given and NULL otherwise; -G is required without it; -i, -u, -r
\* and -C are always required.
CheckedKeyType ==
    IF ImportTpm THEN IF "k" \in opts THEN "aes" ELSE "null" ELSE keyType
OptionsComplete ==
    /\ ImportTpm => "s" \in opts
    /\ ~ImportTpm => keyType # "error"
    /\ {"i", "u", "r", "C"} \subseteq opts

\* tpm2_tool_onrun: check_options, then tpm2_util_object_load_auth of the
\* parent with -P, then one of the two paths.
tpm2_tool_onrun ==
    /\ pc = "options"
    /\ argi > Len(argv)
    /\ keyType' = CheckedKeyType
    /\ IF ~OptionsComplete
       THEN Return("option_error") /\ UNCHANGED session
       ELSE \/ Return("general_error") /\ UNCHANGED session
            \/ /\ session' = "open"
               /\ pc' = IF ImportTpm THEN "tpm_import" ELSE "parent_public"
               /\ UNCHANGED rc
    /\ UNCHANGED <<disk, argv, argi, opts, nameAlgArg, parent, parentAlg, nameAlg,
                   sent, imported, pubFile, privFile, cpFile>>

-----------------------------------------------------------------------------
(* openssl_import *)

\* The parent public from the file given with -U (a failure returns
\* tmp_rc, tool_rc_general_error), or tpm2_readpublic of the parent.
ParentPublic ==
    /\ pc = "parent_public"
    /\ \/ parentAlg' = parent /\ pc' = "template" /\ UNCHANGED rc
       \/ Return(IF "U" \in opts THEN "general_error" ELSE "from_tpm")
          /\ UNCHANGED parentAlg
    /\ UNCHANGED <<disk, argv, argi, opts, keyType, nameAlgArg, parent, nameAlg,
                   session, sent, imported, pubFile, privFile, cpFile>>

\* The child's nameAlg: the one given with -g, or the parent's; one whose
\* digest is longer than the parent's is coerced to the parent's.
RequestedNameAlg == IF nameAlgArg = "none" THEN parentAlg ELSE nameAlgArg
Coerced(alg) == IF HashSize[alg] > HashSize[parentAlg] THEN parentAlg ELSE alg

\* The child's public and sensitive: the policy from -L, the auth from
\* -p, the attributes from -a, each of which may fail to load or parse,
\* and the nameAlg, where a -g value that is not a hash fails.  Every
\* failure returns at once with general_error.
Template ==
    /\ pc = "template"
    /\ \/ /\ {"L", "p", "a"} \cap opts # {} \/ RequestedNameAlg \notin Hashes
          /\ Return("general_error")
          /\ UNCHANGED nameAlg
       \/ /\ RequestedNameAlg \in Hashes
          /\ nameAlg' = Coerced(RequestedNameAlg)
          /\ pc' = "share_secret"
          /\ UNCHANGED rc
    /\ UNCHANGED <<disk, argv, argi, opts, keyType, nameAlgArg, parent, parentAlg,
                   session, sent, imported, pubFile, privFile, cpFile>>

\* tpm2_identity_util_share_secret_with_public_key and
\* tpm2_openssl_load_private: either may fail, and so may finding no
\* public part in the key file; each goes to out with general_error.
ShareSecretAndLoadKey ==
    /\ pc = "share_secret"
    /\ \/ pc' = "key_import" /\ UNCHANGED rc
       \/ Return("general_error")
    /\ UNCHANGED <<disk, argv, argi, opts, keyType, nameAlgArg, parent, parentAlg,
                   nameAlg, session, sent, imported, pubFile, privFile, cpFile>>

\* A plausible slip: the size taken from the child's nameAlg, as in the
\* line left commented out in the code.
create_import_key_private_data_child(palg, encSens, mac) ==
    BE16(HashSize[nameAlg]) \o SubSeq(mac, 1, HashSize[nameAlg]) \o <<encSens>>

\* private = size_u16(outerMAC) || outerMAC || encSens, with
\* parent_hash_size bytes of the HMAC copied.
create_import_key_private_data(palg, encSens, mac) ==
    BE16(HashSize[palg]) \o SubSeq(mac, 1, HashSize[palg]) \o <<encSens>>

\* What key_import passes to tpm2_import: the public, the private built
\* from the name (create_name), the inner integrity under the child's
\* nameAlg and the outer integrity under the parent's, the encrypted seed
\* and enc_sensitive_key.
BuiltCmd ==
    LET name  == Name(nameAlg)
        enc   == EncSens(parentAlg, name, Inner(nameAlg, name, InnerKey))
        mac   == OuterHmac(parentAlg, enc, name)
    IN [public |-> nameAlg,
        private |-> create_import_key_private_data(parentAlg, enc, mac),
        seed |-> EncryptedSeed,
        encKey |-> InnerKey,
        sym |-> "parent"]

\* TPM2_Import succeeds only for a duplicate it accepts, and may fail for
\* reasons of its own (object memory, a parent that cannot decrypt).
TpmImportRcs(cmd) ==
    IF IF cmd.public = "file"
       THEN TpmAcceptsFiles(cmd.private[1], cmd.seed, cmd.sym, cmd.encKey)
       ELSE TpmAccepts(cmd, parent)
    THEN {"success", "from_tpm"} ELSE {"from_tpm"}

\* tpm2_import; in cp mode tpm2_import computes the cpHash instead and
\* files_save_digest writes it, either of which may fail.  Then either a
\* failure, or any result in cp mode, is returned; otherwise the outputs
\* are saved.
Tpm2Import(cmd, next) ==
    /\ sent' = cmd
    /\ IF CpMode
       THEN \/ cpFile' = CpHashOf(cmd) /\ Return("success")
            \/ Return("general_error") /\ UNCHANGED cpFile
       ELSE \E r \in TpmImportRcs(cmd) :
               /\ imported' = IF r = "success" THEN TpmPrivate(cmd) ELSE imported
               /\ IF r = "success" THEN pc' = next /\ UNCHANGED rc ELSE Return(r)
               /\ UNCHANGED cpFile
    /\ CpMode => UNCHANGED imported

\* key_import: create_name has no digester for the nameAlg and returns
\* false, which key_import returns as its tool_rc: tool_rc_success with
\* nothing imported.  openssl_import goes on as after a success.
KeyImportNoDigester ==
    /\ pc = "key_import"
    /\ nameAlg \notin Digesters
    /\ IF CpMode THEN Return(ToolRcOfFalse) ELSE pc' = "save_public" /\ UNCHANGED rc
    /\ UNCHANGED <<disk, argv, argi, opts, keyType, nameAlgArg, parent, parentAlg,
                   nameAlg, session, sent, imported, pubFile, privFile, cpFile>>

KeyImport ==
    /\ pc = "key_import"
    /\ nameAlg \in Digesters
    /\ Tpm2Import(BuiltCmd, "save_public")
    /\ UNCHANGED <<disk, argv, argi, opts, keyType, nameAlgArg, parent, parentAlg,
                   nameAlg, session, pubFile, privFile>>

\* files_save_public of the child's public.
SavePublic ==
    /\ pc = "save_public"
    /\ \/ pubFile' = <<"public", nameAlg>> /\ pc' = "save_private" /\ UNCHANGED rc
       \/ Return("general_error") /\ UNCHANGED pubFile
    /\ UNCHANGED <<disk, argv, argi, opts, keyType, nameAlgArg, parent, parentAlg,
                   nameAlg, session, sent, imported, privFile, cpFile>>

-----------------------------------------------------------------------------
(* tpm_import *)

\* set_key_algorithm: the inner wrapper's symmetric definition is AES
\* (128-bit CFB) or NULL; any other key type is refused.
SetKeyAlgorithm(alg) == alg \in {"aes", "null"}

\* set_key_algorithm (AES or NULL, as check_options chose), then the
\* loads: the 16-byte key of -k, the duplicate of -i, the seed of -s, the
\* public of -u and the policy of -L.  Each may fail (a -k file of
\* another size too), and every failure returns general_error.
TpmImportLoads ==
    /\ pc = "tpm_import"
    /\ \/ /\ SetKeyAlgorithm(keyType)
          /\ "k" \in opts => disk.key # NoFile
          /\ disk.dup # NoFile
          /\ disk.seed # NoFile
          /\ pc' = "tpm_call" /\ UNCHANGED rc
       \/ Return("general_error")
    /\ UNCHANGED <<disk, argv, argi, opts, keyType, nameAlgArg, parent, parentAlg,
                   nameAlg, session, sent, imported, pubFile, privFile, cpFile>>

\* The command tpm_import sends: the public of -u, the duplicate of -i,
\* the seed of -s, the key of -k (empty without it) and the symmetric
\* algorithm set_key_algorithm made of ctx.key_type.
FileCmd(encKeyGiven) ==
    [public |-> "file", private |-> <<disk.dup>>, seed |-> disk.seed,
     encKey |-> IF encKeyGiven THEN disk.key ELSE NoKey, sym |-> keyType]

TpmImportCall ==
    /\ pc = "tpm_call"
    /\ Tpm2Import(FileCmd("k" \in opts), "save_private")
    /\ UNCHANGED <<disk, argv, argi, opts, keyType, nameAlgArg, parent, parentAlg,
                   nameAlg, session, pubFile, privFile>>

-----------------------------------------------------------------------------
\* A plausible slip: the result of files_save_private not checked.
SavePrivateUnchecked ==
    /\ pc = "save_private"
    /\ \/ imported # NoPrivate /\ privFile' = imported
       \/ UNCHANGED privFile
    /\ Return("success")
    /\ UNCHANGED <<disk, argv, argi, opts, keyType, nameAlgArg, parent, parentAlg,
                   nameAlg, session, sent, imported, pubFile, cpFile>>

\* files_save_private of imported_private, on both paths.  On the openssl
\* path after KeyImportNoDigester it is NULL, and the marshalling of a
\* NULL structure fails.
SavePrivate ==
    /\ pc = "save_private"
    /\ \/ imported # NoPrivate /\ privFile' = imported /\ Return("success")
       \/ Return("general_error") /\ UNCHANGED privFile
    /\ UNCHANGED <<disk, argv, argi, opts, keyType, nameAlgArg, parent, parentAlg,
                   nameAlg, session, sent, imported, pubFile, cpFile>>

\* tpm2_tool_onstop closes the parent's session on the TPM path only.  The
\* close may fail; its result becomes the exit status when onrun
\* succeeded (tpm2_tool.c).
tpm2_tool_onstop ==
    /\ pc = "stop"
    /\ IF ImportTpm /\ session = "open"
       THEN \E closeRc \in {"success", "general_error"} :
               /\ session' = "closed"
               /\ rc' = IF rc = "success" THEN closeRc ELSE rc
       ELSE UNCHANGED <<session, rc>>
    /\ pc' = "done"
    /\ UNCHANGED <<disk, argv, argi, opts, keyType, nameAlgArg, parent, parentAlg,
                   nameAlg, sent, imported, pubFile, privFile, cpFile>>

Next ==
    \/ on_option
    \/ tpm2_tool_onrun
    \/ ParentPublic
    \/ Template
    \/ ShareSecretAndLoadKey
    \/ KeyImportNoDigester
    \/ KeyImport
    \/ SavePublic
    \/ TpmImportLoads
    \/ TpmImportCall
    \/ SavePrivate
    \/ tpm2_tool_onstop

Spec == Init /\ [][Next]_vars

-----------------------------------------------------------------------------
TypeOK ==
    /\ argi \in 1..(Len(argv) + 1)
    /\ keyType \in PublicAlgs \cup {"error", "null"}
    /\ parentAlg \in ParentNameAlgs \cup {"none"}
    /\ nameAlg \in Hashes \cup {"none"}
    /\ session \in {"none", "open", "closed"}
    /\ imported \in {NoPrivate, TpmPrivate(sent)}
    /\ rc \in ToolRc

\* Spec 4.6 and the nameAlg rule the code cites: every TPM2_Import the
\* openssl path prepares, sent to the TPM or hashed into the cpHash that
\* will authorize it, is one the TPM accepts: the coerced child nameAlg,
\* the outer HMAC's size and value under the parent's nameAlg and the
\* child's name, and the inner wrapping under the child's nameAlg.
ImportBlobAccepted ==
    sent.public \in Hashes => TpmAccepts(sent, parent)

\* When the tool exits with success it has written what it was asked
\* for: with --cphash the cpHash of the TPM2_Import it prepared; otherwise
\* the private TPM2_Import returned for the command sent and, on the
\* openssl path, the public that command imported.
SuccessMeansOutputs ==
    (pc = "done" /\ rc = "success") =>
        IF CpMode
        THEN cpFile = CpHashOf(sent)
        ELSE /\ privFile = TpmPrivate(sent)
             /\ ~ImportTpm => pubFile = <<"public", sent.public>>
====
