------------------------- MODULE MC_MakeCredential -------------------------
(***************************************************************************)
(* Command lines for checking MakeCredential: all four options, and one   *)
(* without -o.  The name algorithms are SHA-1 and SHA-256; credentials of *)
(* 16 bytes (fits both) and 32 bytes (fits only SHA-256).                 *)
(***************************************************************************)
EXTENDS MakeCredential

MCArgVectors == { <<"e", "s", "n", "o">>, <<"n", "e", "s">> }
MCNameAlgSizes == {20, 32}
MCCredSizes == {16, 32}
\* The seed fits the model's symbolic encrypted secret in two cells.
MCSecretLen == 2
====
