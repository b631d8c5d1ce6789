---------------------------- MODULE KeyTransfer ----------------------------
(***************************************************************************)
(* tpm2_duplicate followed by tpm2_import with the files it wrote: the    *)
(* duplicate (-r, read back with -i), the encrypted seed (-s, read back   *)
(* with -s) and, for an AES wrapping, the key (-o or -i, read back with   *)
(* -k).  The two processes share the three files and nothing else; the    *)
(* import starts once the duplicate has exited, whatever its result.      *)
(***************************************************************************)
EXTENDS DuplicateFiles

CONSTANTS
    DupArgVectors, DupKeyTypeArgs,
    ArgVectors, KeyTypeArgs, NameAlgArgs, ParentNameAlgs, Digesters,
    DiskStates

VARIABLES
    dArgv, dArgi, dFlags, dKeyType, dSession, dupKey, dCpFile, dPc, dRc,
    argv, argi, opts, keyType, nameAlgArg, parent, parentAlg, nameAlg,
    session, sent, imported, pubFile, privFile, cpFile, pc, rc,
    disk,   \* the files both tools use
    phase   \* the tool running: "duplicate", then "import"

Dup == INSTANCE Duplicate WITH
    ArgVectors <- DupArgVectors, KeyTypeArgs <- DupKeyTypeArgs,
    argv <- dArgv, argi <- dArgi, flags <- dFlags, keyType <- dKeyType,
    session <- dSession, cpFile <- dCpFile, pc <- dPc, rc <- dRc

Imp == INSTANCE Import

dupVars == <<dArgv, dArgi, dFlags, dKeyType, dSession, dupKey, dCpFile, dPc, dRc>>
impVars == <<argv, argi, opts, keyType, nameAlgArg, parent, parentAlg, nameAlg,
             session, sent, imported, pubFile, privFile, cpFile, pc, rc>>
vars == <<dupVars, impVars, disk, phase>>

Init == Dup!Init /\ Imp!Init /\ phase = "duplicate"

\* A step of tpm2_duplicate, the import not yet started.
DupDoes(A) == phase = "duplicate" /\ A /\ UNCHANGED <<impVars, phase>>
\* The duplicate has exited; the import is started.
StartImport ==
    /\ phase = "duplicate"
    /\ dPc = "done"
    /\ phase' = "import"
    /\ UNCHANGED <<dupVars, impVars, disk>>
\* A step of tpm2_import.
ImpDoes(A) == phase = "import" /\ A /\ UNCHANGED <<dupVars, phase>>

Next ==
    \/ DupDoes(Dup!on_option)
    \/ DupDoes(Dup!tpm2_tool_onrun)
    \/ DupDoes(Dup!do_duplicate)
    \/ DupDoes(Dup!SaveKeyOut)
    \/ DupDoes(Dup!SaveSeed)
    \/ DupDoes(Dup!SavePrivate)
    \/ DupDoes(Dup!tpm2_tool_onstop)
    \/ StartImport
    \/ ImpDoes(Imp!on_option)
    \/ ImpDoes(Imp!tpm2_tool_onrun)
    \/ ImpDoes(Imp!ParentPublic)
    \/ ImpDoes(Imp!Template)
    \/ ImpDoes(Imp!ShareSecretAndLoadKey)
    \/ ImpDoes(Imp!KeyImportNoDigester)
    \/ ImpDoes(Imp!KeyImport)
    \/ ImpDoes(Imp!SavePublic)
    \/ ImpDoes(Imp!TpmImportLoads)
    \/ ImpDoes(Imp!TpmImportCall)
    \/ ImpDoes(Imp!SavePrivate)
    \/ ImpDoes(Imp!tpm2_tool_onstop)

Spec == Init /\ [][Next]_vars

-----------------------------------------------------------------------------
TypeOK == Dup!TypeOK /\ Imp!TypeOK
ImportBlobAccepted == Imp!ImportBlobAccepted
SuccessMeansOutputs == Imp!SuccessMeansOutputs

\* A duplicate tpm2_duplicate reports written is one tpm2_import can
\* import: once the duplicate has exited with success outside cp mode,
\* every TPM2_Import tpm_import sends with the files, with -k exactly when
\* the wrapping was AES, carries a duplicate, seed and key of one
\* TPM2_Duplicate that the TPM accepts together.
ImportOfDuplicate ==
    LET dupDone == dPc = "done" /\ dRc = "success" /\ "cphash" \notin dFlags
        sameSym == ("k" \in opts) = (dKeyType = "aes")
    IN  dupDone /\ sent.public = "file" /\ sameSym =>
            TpmAcceptsFiles(sent.private[1], sent.seed, sent.sym, sent.encKey)
====
