---------------------------- MODULE MC_KeyTransfer ----------------------------
(***************************************************************************)
(* tpm2_duplicate with -G aes and -o, -G aes and -i, -G null, a -G value  *)
(* set_key_algorithm refuses, and --cphash; then tpm2_import with the     *)
(* command lines of MC_Import and -s without -k.  On disk at the start:   *)
(* the files of an earlier AES duplication, a user's key, or nothing.     *)
(***************************************************************************)
EXTENDS KeyTransfer

\* As in MC_Import.
MCArgVectors == {
    <<"G", "i", "C", "u", "r">>,
    <<"G", "i", "C", "U", "u", "r", "g", "L", "p", "a">>,
    <<"G", "i", "C", "u", "r", "cphash">>,
    <<"i", "C", "u", "r", "s", "k">>,
    <<"i", "C", "u", "r", "s", "cphash">>,
    <<"i", "C", "u", "r", "k">>,
    <<"i", "C", "u", "r", "s">>,
    <<"i", "C", "r">> }
MCKeyTypeArgs == {"rsa", "bogus"}
MCNameAlgArgs == {"sha1", "sha512", "sm3_256", "bogus"}
MCParentNameAlgs == {"sha256"}
MCDigesters == {"sha1", "sha256", "sha384", "sha512"}

MCDupArgVectors == {
    <<"G", "c", "C", "s", "r", "o">>,
    <<"G", "c", "C", "s", "r", "i">>,
    <<"p", "G", "c", "C", "s", "r">>,
    <<"G", "c", "C", "s", "r", "o", "cphash">> }
MCDupKeyTypeArgs == {"aes", "null", "camellia", "bogus"}
MCTransferDisks == {
    [key |-> TpmKey(0), seed |-> SeedBlob(0), dup |-> DupBlob(TpmKey(0), 0)],
    [key |-> UserKey, seed |-> NoFile, dup |-> NoFile],
    [key |-> NoFile, seed |-> NoFile, dup |-> NoFile] }
====
