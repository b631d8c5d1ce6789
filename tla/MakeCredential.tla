--------------------------- MODULE MakeCredential ---------------------------
(***************************************************************************)
(* tools/tpm2_makecredential.c: the options, tpm2_tool_onrun, and its two *)
(* paths.  With a TPM (ectx != NULL): tpm2_loadexternal,                  *)
(* tpm2_makecredential, tpm2_flush_context, write_cred_and_secret.       *)
(* Without one: make_external_credential_and_save, which builds the       *)
(* credential blob itself and writes it the same way.                     *)
(*                                                                         *)
(* Buffers are sequences of cells.  A cell is a byte, <<"byte", v>>,     *)
(* where the code computes bytes (the size fields), and a symbolic term   *)
(* where a cryptographic routine outside src/ produces them: cell i of an *)
(* HMAC, of a CFB ciphertext or of an encrypted seed.  Lengths are exact, *)
(* so every size field and offset the code computes is checked by parsing *)
(* the file back as tpm2_activatecredential and the TPM do.               *)
(***************************************************************************)
EXTENDS Integers, Sequences, FiniteSets

CONSTANTS
    ArgVectors,    \* the command lines: sequences of option letters
    NameAlgSizes,  \* digest sizes of the EK nameAlg (20: SHA-1, 32: SHA-256)
    CredSizes,     \* sizes of the credential file given with -s
    CloseMayFail,  \* fclose may fail to write out buffered data
    HostBigEndian, \* the byte order of the host, as tpm2_util_is_big_endian
    SecretLen      \* the size of an encrypted seed

ASSUME CredSizes \subseteq 1..64   \* BUFFER_SIZE(TPM2B_DIGEST, buffer)

Options == {"e", "s", "n", "o"}

\* The object name given with -n, and another one.
ObjectName == "target"
OtherName  == "other"

(* Byte helpers. *)
Byte(v) == <<"byte", v>>
IsByte(c) == c[1] = "byte"
Hi(v) == v \div 256
Lo(v) == v % 256
\* tpm2_util_endian_swap_16
tpm2_util_endian_swap_16(v) == Lo(v) * 256 + Hi(v)
\* memcpy of a UINT16 value: its bytes in host order.
HostBytes16(v) ==
    IF HostBigEndian THEN <<Byte(Hi(v)), Byte(Lo(v))>> ELSE <<Byte(Lo(v)), Byte(Hi(v))>>
\* if (!tpm2_util_is_big_endian()) v = tpm2_util_endian_swap_16(v);
ToBigEndian16(v) == IF ~HostBigEndian THEN tpm2_util_endian_swap_16(v) ELSE v
\* files_write_16 (lib/files.c) writes big-endian.
BE16(v) == <<Byte(Hi(v)), Byte(Lo(v))>>
\* The big-endian UINT16 at offset o of s, or -1 if those are not bytes.
ReadBE16(s, o) ==
    IF o + 1 <= Len(s) /\ IsByte(s[o]) /\ IsByte(s[o + 1])
    THEN s[o][2] * 256 + s[o + 1][2] ELSE -1

(***************************************************************************)
(* The cryptography, as symbolic terms (the identity utilities, OpenSSL   *)
(* and the TPM are outside src/; spec sections 4.5 and 4.7).              *)
(***************************************************************************)
\* n cells of the output of the term t of kind tag.
Cells(tag, t, n) == [i \in 1..n |-> <<tag, t, i>>]
\* The credential loaded from the file given with -s.
Credential(size) == [i \in 1..size |-> <<"cred", i>>]
\* secret = Encrypt(EK, seed, "IDENTITY\0").
EncryptedSeed(seed) == Cells("oaep", <<"ek", seed, "IDENTITY">>, SecretLen)
\* KDFa(nameAlg, seed, "INTEGRITY") and KDFa(nameAlg, seed, "STORAGE", name).
HmacKey(seed) == <<"kdfa", seed, "INTEGRITY">>
EncKey(seed, name) == <<"kdfa", seed, "STORAGE", name>>
\* AES-CFB keeps the length; decrypting with the key used gives the input.
CfbEncrypt(key, plain) == [i \in DOMAIN plain |-> <<"cfb", key, plain[i]>>]
CfbDecrypt(key, c) ==
    [i \in DOMAIN c |-> IF c[i][1] = "cfb" /\ c[i][2] = key
                        THEN c[i][3] ELSE <<"garbage", c[i]>>]
\* HMAC(nameAlg, hmacKey, encIdentity || name): HashSize(nameAlg) cells.
Hmac(key, data, name, size) == Cells("hmac", <<key, data, name>>, size)

(***************************************************************************)
(* The credential blob the TPM's TPM2_MakeCredential returns (spec 4.7    *)
(* steps 4 to 7): size_u16(outerHMAC) || outerHMAC || encIdentity.        *)
(***************************************************************************)
TpmCredentialBlob(seed, name, cred, hsize) ==
    LET enc == CfbEncrypt(EncKey(seed, name), BE16(Len(cred)) \o cred)
    IN  BE16(hsize) \o Hmac(HmacKey(seed), enc, name, hsize) \o enc

(***************************************************************************)
(* What tpm2_activatecredential and the TPM's TPM2_ActivateCredential do   *)
(* with the file (spec 4.7 and property 5): read the header, the blob and *)
(* the secret; recover the seed; check the outer HMAC over encIdentity and *)
(* the name; decrypt; unwrap the size.  <<"ok", credential>> or <<"fail">>. *)
(***************************************************************************)
FileHeader == <<<<"header", 1>>>>     \* files_write_header(fp, 1)
SeedOf(secret) ==
    IF /\ Len(secret) = SecretLen
       /\ \A i \in 1..SecretLen : secret[i][1] = "oaep" /\ secret[i][3] = i
       /\ \E sd \in {"seed_tpm", "seed_tool"} :
              \A i \in 1..SecretLen : secret[i][2] = <<"ek", sd, "IDENTITY">>
    THEN secret[1][2][2] ELSE "none"
Activate(blob, secret, name, hsize) ==
    LET seed == SeedOf(secret)
        h    == ReadBE16(blob, 1)
        enc  == SubSeq(blob, 3 + h, Len(blob))
        mac  == SubSeq(blob, 3, 2 + h)
        plain == CfbDecrypt(EncKey(seed, name), enc)
        n    == ReadBE16(plain, 1)
    IN IF /\ seed # "none"
          /\ h = hsize
          /\ 2 + h <= Len(blob)
          /\ mac = Hmac(HmacKey(seed), enc, name, hsize)
          /\ n >= 0
          /\ Len(plain) = 2 + n
       THEN <<"ok", SubSeq(plain, 3, 2 + n)>> ELSE <<"fail">>
ActivateFile(f, name, hsize) ==
    LET l == ReadBE16(f, 2)
        s == ReadBE16(f, 4 + l)
    IN IF /\ Len(f) >= 3 /\ SubSeq(f, 1, 1) = FileHeader
          /\ l >= 0 /\ 5 + l <= Len(f)
          /\ s >= 0 /\ Len(f) = 5 + l + s
       THEN Activate(SubSeq(f, 4, 3 + l), SubSeq(f, 6 + l, 5 + l + s), name, hsize)
       ELSE <<"fail">>

-----------------------------------------------------------------------------
VARIABLES
    argv,      \* the command line
    argi,      \* the next option on_option handles
    flags,     \* ctx.flags: the options given and loaded
    hsize,     \* HashSize(ctx.public.publicArea.nameAlg)
    credSize,  \* ctx.credential.size
    ectx,      \* an ESYS context exists (a TPM is reachable)
    pc,
    heap,      \* cred_blob and secret as allocated by tpm2_makecredential
    blob,      \* cred_blob: its credential buffer, from index 1
    blobSize,  \* cred_blob.size
    secret,    \* the encrypted seed
    buffered,  \* what write_cred_and_secret has fwritten to the stream
    wIdx,      \* the next field write_cred_and_secret writes
    wres,      \* write_cred_and_secret's result
    file,      \* the output file's content on disk
    rc         \* the tool_rc onrun returns

vars == <<argv, argi, flags, hsize, credSize, ectx, pc,
          heap, blob, blobSize, secret, buffered, wIdx, wres, file, rc>>

NoFile == <<<<"nofile", 0>>>>

Init ==
    /\ argv \in ArgVectors
    /\ argi = 1
    /\ flags = {}
    /\ hsize = 0
    /\ credSize = 0
    /\ ectx \in BOOLEAN
    /\ pc = "options"
    /\ heap = {}
    /\ blob = <<>>
    /\ blobSize = 0
    /\ secret = <<>>
    /\ buffered = <<>>
    /\ wIdx = 0
    /\ wres = FALSE
    /\ file = NoFile
    /\ rc = "none"

Return(r) == pc' = "returned" /\ rc' = r

\* sizeof(TPMS_ID_OBJECT): two TPM2B_DIGESTs, the size of the credential
\* buffer of a TPM2B_ID_OBJECT; and the capacity of a TPM2B_MAX_BUFFER.
SizeofTPMS_ID_OBJECT == 2 * (2 + 64)
TPM2_MAX_DIGEST_BUFFER == 1024

ToolRc == {"none", "success", "general_error", "option_error", "from_tpm"}

(***************************************************************************)
(* on_option: -e loads the public key (files_load_public), -s the         *)
(* credential (files_load_bytes_from_path, at most 64 bytes), -n the name *)
(* (tpm2_util_hex_to_byte_structure), -o the path.  A load that fails     *)
(* makes option parsing fail, and the tool returns before onrun.          *)
(***************************************************************************)
on_option ==
    /\ pc = "options"
    /\ argi <= Len(argv)
    /\ LET key == argv[argi] IN
       \/ /\ key # "o"
          /\ Return("option_error")
          /\ UNCHANGED <<argi, flags, hsize, credSize>>
       \/ /\ key = "e"
          /\ \E h \in NameAlgSizes : hsize' = h
          /\ UNCHANGED credSize
          /\ flags' = flags \cup {key}
          /\ argi' = argi + 1
          /\ UNCHANGED <<pc, rc>>
       \/ /\ key = "s"
          /\ \E c \in CredSizes : credSize' = c
          /\ UNCHANGED hsize
          /\ flags' = flags \cup {key}
          /\ argi' = argi + 1
          /\ UNCHANGED <<pc, rc>>
       \/ /\ key \in {"n", "o"}
          /\ UNCHANGED <<hsize, credSize>>
          /\ flags' = flags \cup {key}
          /\ argi' = argi + 1
          /\ UNCHANGED <<pc, rc>>
    /\ UNCHANGED <<argv, ectx, heap, blob, blobSize, secret,
                   buffered, wIdx, wres, file>>

\* tpm2_tool_onrun: the four options are required; then the path taken
\* depends on whether a TPM context exists (TPM2_OPTIONS_OPTIONAL_SAPI).
tpm2_tool_onrun ==
    /\ pc = "options"
    /\ argi > Len(argv)
    /\ IF flags # Options
       THEN Return("option_error")
       ELSE /\ pc' = IF ectx THEN "loadexternal" ELSE "share_secret"
            /\ UNCHANGED rc
    /\ UNCHANGED <<argv, argi, flags, hsize, credSize, ectx,
                   heap, blob, blobSize, secret, buffered, wIdx, wres, file>>

-----------------------------------------------------------------------------
(* make_credential_and_save *)

\* tpm2_loadexternal of the EK public under TPM2_RH_NULL.
LoadExternal ==
    /\ pc = "loadexternal"
    /\ \/ pc' = "makecredential" /\ UNCHANGED rc
       \/ Return("from_tpm")
    /\ UNCHANGED <<argv, argi, flags, hsize, credSize, ectx, heap,
                   blob, blobSize, secret, buffered, wIdx, wres, file>>

\* tpm2_makecredential.  The TPM refuses a credential larger than the
\* digest of the key's nameAlg (TPM_RC_SIZE); on success ESAPI allocates
\* cred_blob and secret.  On failure the function returns at once.
MakeCredentialCall ==
    /\ pc = "makecredential"
    /\ \/ /\ credSize <= hsize
          /\ heap' = {"cred_blob", "secret"}
          /\ blob' = TpmCredentialBlob("seed_tpm", ObjectName, Credential(credSize), hsize)
          /\ blobSize' = Len(blob')
          /\ secret' = EncryptedSeed("seed_tpm")
          /\ pc' = "flush"
          /\ UNCHANGED rc
       \/ /\ Return("from_tpm")
          /\ UNCHANGED <<heap, blob, blobSize, secret>>
    /\ UNCHANGED <<argv, argi, flags, hsize, credSize, ectx,
                   buffered, wIdx, wres, file>>

\* A plausible slip: the flush error path returns without the frees.
FlushContextNoFree ==
    /\ pc = "flush"
    /\ \/ pc' = "fopen" /\ UNCHANGED <<heap, rc>>
       \/ Return("from_tpm") /\ UNCHANGED heap
    /\ UNCHANGED <<argv, argi, flags, hsize, credSize, ectx, blob, blobSize,
                   secret, buffered, wIdx, wres, file>>

\* tpm2_flush_context of the loaded key; on failure free both and return.
FlushContext ==
    /\ pc = "flush"
    /\ \/ pc' = "fopen" /\ UNCHANGED <<heap, rc>>
       \/ Return("from_tpm") /\ heap' = {}
    /\ UNCHANGED <<argv, argi, flags, hsize, credSize, ectx, blob, blobSize,
                   secret, buffered, wIdx, wres, file>>

\* After write_cred_and_secret: free both, map the result to a tool_rc.
SaveTpmCredential ==
    /\ pc = "saved"
    /\ ectx
    /\ heap' = {}
    /\ Return(IF wres THEN "success" ELSE "general_error")
    /\ UNCHANGED <<argv, argi, flags, hsize, credSize, ectx,
                   blob, blobSize, secret, buffered, wIdx, wres, file>>

-----------------------------------------------------------------------------
(* make_external_credential_and_save *)

\* tpm2_identity_util_share_secret_with_public_key: a fresh seed,
\* encrypted to the EK with the label "IDENTITY\0".
ShareSecret ==
    /\ pc = "share_secret"
    /\ \/ secret' = EncryptedSeed("seed_tool") /\ pc' = "outer_integrity"
          /\ UNCHANGED rc
       \/ Return("general_error") /\ UNCHANGED secret
    /\ UNCHANGED <<argv, argi, flags, hsize, credSize, ectx,
                   heap, blob, blobSize, buffered, wIdx, wres, file>>

\* A plausible slip: the size copied without the swap.
MarshalledSizeNoSwap(v) == HostBytes16(v)
\* The UINT16 size as the code stores it: swapped to big-endian on a
\* little-endian host, then copied in host order.
MarshalledSize(v) == HostBytes16(ToBigEndian16(v))

\* A plausible slip: encrypted_sensitive counted by its buffer's capacity.
CalculateOuterIntegrityBufferSized ==
    /\ pc = "outer_integrity"
    /\ LET seed  == "seed_tool"
           inner == MarshalledSize(credSize) \o Credential(credSize)
           enc   == CfbEncrypt(EncKey(seed, ObjectName), inner)
           mac   == Hmac(HmacKey(seed), enc, ObjectName, hsize)
       IN /\ blob' = MarshalledSize(hsize) \o mac \o enc
          /\ blobSize' = hsize + TPM2_MAX_DIGEST_BUFFER + 2
    /\ pc' = "fopen"
    /\ UNCHANGED <<argv, argi, flags, hsize, credSize, ectx,
                   heap, secret, buffered, wIdx, wres, file, rc>>

\* Derive the keys from the seed and the name given with -n, marshal
\* size || credential, CFB-encrypt it, HMAC it with the name, and
\* assemble cred_blob = size(outer_hmac) || outer_hmac || encrypted_sensitive.
CalculateOuterIntegrity ==
    /\ pc = "outer_integrity"
    /\ LET seed  == "seed_tool"
           inner == MarshalledSize(credSize) \o Credential(credSize)
           enc   == CfbEncrypt(EncKey(seed, ObjectName), inner)
           mac   == Hmac(HmacKey(seed), enc, ObjectName, hsize)
       IN /\ blob' = MarshalledSize(hsize) \o mac \o enc
          /\ blobSize' = hsize + Len(enc) + 2
    /\ pc' = "fopen"
    /\ UNCHANGED <<argv, argi, flags, hsize, credSize, ectx,
                   heap, secret, buffered, wIdx, wres, file, rc>>

\* Map write_cred_and_secret's result to a tool_rc.
SaveExternalCredential ==
    /\ pc = "saved"
    /\ ~ectx
    /\ Return(IF wres THEN "success" ELSE "general_error")
    /\ UNCHANGED <<argv, argi, flags, hsize, credSize, ectx,
                   heap, blob, blobSize, secret, buffered, wIdx, wres, file>>

-----------------------------------------------------------------------------
(* write_cred_and_secret *)

\* The first n cells of the credential buffer; past what was assembled it
\* holds the zeros TPM2B_TYPE_INIT left.
BufferPrefix(buf, n) == [i \in 1..n |-> IF i <= Len(buf) THEN buf[i] ELSE Byte(0)]

\* What each files_write_* call writes, in order: the version header, the
\* credential size, cred->size bytes of the credential, the secret size
\* and the secret.
Fields == << FileHeader, BE16(blobSize), BufferPrefix(blob, blobSize),
             BE16(Len(secret)), secret >>

\* fopen(path, "wb+") creates or truncates the file; if it fails the
\* function returns false without fclose.
FOpen ==
    /\ pc = "fopen"
    /\ \/ file' = <<>> /\ buffered' = <<>> /\ wIdx' = 1 /\ pc' = "write"
          /\ UNCHANGED wres
       \/ wres' = FALSE /\ pc' = "saved" /\ UNCHANGED <<file, buffered, wIdx>>
    /\ UNCHANGED <<argv, argi, flags, hsize, credSize, ectx,
                   heap, blob, blobSize, secret, rc>>

\* One files_write_* call: it succeeds and the next one follows, or it
\* fails and the code jumps to out.  After the fifth, result = true.
WriteField ==
    /\ pc = "write"
    /\ \/ /\ buffered' = buffered \o Fields[wIdx]
          /\ IF wIdx = Len(Fields)
             THEN wres' = TRUE /\ pc' = "fclose" /\ UNCHANGED wIdx
             ELSE wIdx' = wIdx + 1 /\ UNCHANGED <<wres, pc>>
       \/ wres' = FALSE /\ pc' = "fclose" /\ UNCHANGED <<buffered, wIdx>>
    /\ UNCHANGED <<argv, argi, flags, hsize, credSize, ectx,
                   heap, blob, blobSize, secret, file, rc>>

\* out: fclose(fp), its result ignored.  It writes the stream's buffered
\* data out; when that fails (disk full, I/O error) only a prefix of it
\* reaches the file.
CloseCuts == IF CloseMayFail THEN 0..Len(buffered) ELSE {Len(buffered)}
FClose ==
    /\ pc = "fclose"
    /\ \E n \in CloseCuts : file' = SubSeq(buffered, 1, n)
    /\ pc' = "saved"
    /\ UNCHANGED <<argv, argi, flags, hsize, credSize, ectx,
                   heap, blob, blobSize, secret, buffered, wIdx, wres, rc>>

Next ==
    \/ on_option
    \/ tpm2_tool_onrun
    \/ LoadExternal
    \/ MakeCredentialCall
    \/ FlushContext
    \/ SaveTpmCredential
    \/ ShareSecret
    \/ CalculateOuterIntegrity
    \/ SaveExternalCredential
    \/ FOpen
    \/ WriteField
    \/ FClose

Spec == Init /\ [][Next]_vars

-----------------------------------------------------------------------------
TypeOK ==
    /\ argi \in 1..(Len(argv) + 1)
    /\ flags \subseteq Options
    /\ hsize \in NameAlgSizes \cup {0}
    /\ credSize \in CredSizes \cup {0}
    /\ heap \subseteq {"cred_blob", "secret"}
    /\ blobSize \in 0..SizeofTPMS_ID_OBJECT
    /\ wIdx \in 0..5
    /\ wres \in BOOLEAN
    /\ rc \in ToolRc

\* Property 5 of the spec, for the file either path writes: when the tool
\* reports success, tpm2_activatecredential with the EK and the object of
\* the name given with -n recovers exactly the credential loaded with -s,
\* and with any other object name it fails.  This checks every size field
\* and offset of the code: the byte-swapped sizes, cred_blob.size, and
\* write_cred_and_secret's layout.
CredentialRoundTrip ==
    (pc = "returned" /\ rc = "success") =>
        /\ ActivateFile(file, ObjectName, hsize) = <<"ok", Credential(credSize)>>
        /\ ActivateFile(file, OtherName, hsize) = <<"fail">>

\* make_credential_and_save releases what tpm2_makecredential allocated on
\* every path that returns: after writing and when the flush fails.
HeapReleased ==
    pc = "returned" => heap = {}
====
