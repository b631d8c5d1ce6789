--------------------------- MODULE DuplicateFiles ---------------------------
(***************************************************************************)
(* The three files tpm2_duplicate writes and tpm2_import reads back with  *)
(* -i, -s and -k: the duplicate (TPM2B_PRIVATE), the encrypted seed and   *)
(* the 16-byte inner wrapping key; and what TPM2_Duplicate and           *)
(* TPM2_Import make of them (TPM 2.0 Part 3, 13.1 and 13.3).              *)
(*                                                                         *)
(* Every TPM2_Duplicate draws a fresh seed, and a fresh wrapping key when *)
(* none is given; a generation number tells the files of one duplication *)
(* from those of an earlier one still on disk.                             *)
(***************************************************************************)

EXTENDS Naturals

NoFile == <<"nofile">>
NoKey == <<"none">>

\* A wrapping key: one the user supplies, or one the TPM generated.
UserKey == <<"symkey", "user">>
TpmKey(gen) == <<"symkey", "tpm", gen>>

\* The duplicate: the object's sensitive, inner-wrapped with key (NoKey
\* for a NULL symmetric algorithm), outer-wrapped with the seed of gen;
\* and that seed encrypted to the new parent.
DupBlob(key, gen) == <<"dup", key, gen>>
SeedBlob(gen) == <<"seed", gen>>

\* What is on disk at the three paths.
DiskFiles == [key : {NoFile, UserKey} \cup {TpmKey(g) : g \in 0..1},
              seed : {NoFile} \cup {SeedBlob(g) : g \in 0..1},
              dup : {NoFile} \cup {DupBlob(k, g) : k \in {NoKey, UserKey, TpmKey(0), TpmKey(1)},
                                                  g \in 0..1}]

\* TPM2_Import of a duplicate read from files: the seed must be the one
\* the duplicate was wrapped with, and the symmetric algorithm and key
\* passed must be the inner wrapping's, AES with that key or NULL for none.
TpmAcceptsFiles(dup, seed, sym, key) ==
    /\ dup[1] = "dup"
    /\ seed = SeedBlob(dup[3])
    /\ IF sym = "aes" THEN dup[2] # NoKey /\ key = dup[2] ELSE dup[2] = NoKey
====
