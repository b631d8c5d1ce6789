\* tpm2_duplicate then tpm2_import; both processes stop when they return.
SPECIFICATION Spec
CONSTANTS
    DupArgVectors <- MCDupArgVectors
    DupKeyTypeArgs <- MCDupKeyTypeArgs
    ArgVectors <- MCArgVectors
    KeyTypeArgs <- MCKeyTypeArgs
    NameAlgArgs <- MCNameAlgArgs
    ParentNameAlgs <- MCParentNameAlgs
    Digesters <- MCDigesters
    DiskStates <- MCTransferDisks
INVARIANTS
    TypeOK
    ImportBlobAccepted
    SuccessMeansOutputs
    ImportOfDuplicate
CHECK_DEADLOCK FALSE
