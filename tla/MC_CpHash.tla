----------------------------- MODULE MC_CpHash -----------------------------
(***************************************************************************)
(* Every cp_hash wrapper of lib/tpm2.c, on a started TPM that implements  *)
(* every command; each call to SAPI, ESYS or the TPM may fail.            *)
(***************************************************************************)
EXTENDS CpHash

MCCalls == DOMAIN AllWrappers
AllCommandCodes == {c.cc : c \in Commands}
MCTpmResults == {TPM2_RC_SUCCESS, TPM2_RC_FAILURE}
MCPrepareResults == {TPM2_RC_SUCCESS, TSS2_SYS_RC_BAD_REFERENCE}

\* A TPM without TPM2_EncryptDecrypt2 (an optional command).
NoEncryptDecrypt2 == AllCommandCodes \ {"EncryptDecrypt2"}

\* The wrappers whose Esys call result is checked against TPM2_RC_INITIALIZE.
InitializeAccepting == {x \in DOMAIN Wrappers : Wrappers[x].accept # {}}
====
