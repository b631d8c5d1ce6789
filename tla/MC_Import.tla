------------------------------ MODULE MC_Import ------------------------------
(***************************************************************************)
(* Command lines for checking Import.  openssl path: -G with the parent's *)
(* nameAlg, -g with -U and the optional loads, -g in cp mode; TPM path:   *)
(* -s with -k, -s in cp mode, -k without -s; and one missing -G and -u.   *)
(* The parent uses SHA-256; -g gives SHA-1 (smaller), SHA-512 (coerced),  *)
(* SM3-256 (same size, no digester in tpm2_openssl) or an unknown name.  *)
(***************************************************************************)
EXTENDS Import

MCArgVectors == {
    <<"G", "i", "C", "u", "r">>,
    <<"G", "i", "C", "U", "u", "r", "g", "L", "p", "a">>,
    <<"G", "i", "C", "u", "r", "cphash">>,
    <<"i", "C", "u", "r", "s", "k">>,
    <<"i", "C", "u", "r", "s", "cphash">>,
    <<"i", "C", "u", "r", "k">>,
    <<"i", "C", "r">> }
\* The violation run: -g in cp mode.
MCArgVectorsCpNameAlg == { <<"G", "i", "C", "u", "r", "g", "cphash">> }
MCKeyTypeArgs == {"rsa", "bogus"}
MCNameAlgArgs == {"sha1", "sha512", "sm3_256", "bogus"}
MCParentNameAlgs == {"sha256"}
MCDigesters == {"sha1", "sha256", "sha384", "sha512"}
\* The files of an AES duplication, of a NULL one, and none at all.
MCDiskStates == {
    [key |-> TpmKey(0), seed |-> SeedBlob(0), dup |-> DupBlob(TpmKey(0), 0)],
    [key |-> NoFile, seed |-> SeedBlob(0), dup |-> DupBlob(NoKey, 0)],
    [key |-> NoFile, seed |-> NoFile, dup |-> NoFile] }
====
