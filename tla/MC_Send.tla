------------------------------- MODULE MC_Send -------------------------------
(***************************************************************************)
(* An input of 4 bytes (a cut header), 10 (the header alone), 30 and 40,  *)
(* with a header announcing 30 or 40 bytes; an uninitialized header may   *)
(* hold a size below 10 (data_size wraps), one above TPM2_MAX_SIZE, or 20.*)
(* No input path, one, or two (refused).                                   *)
(***************************************************************************)
EXTENDS Send

MCFileLens == {4, 10, 30, 40}
MCSizeFields == {30, 40}
MCGarbageSizes == {3, 20, 5000}
MCInputArgs == {0, 1, 2}
====
