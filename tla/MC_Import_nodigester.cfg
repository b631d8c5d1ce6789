\* --cphash with -g: for sm3_256 create_name finds no digester.
SPECIFICATION Spec
CONSTANTS
    ArgVectors <- MCArgVectorsCpNameAlg
    KeyTypeArgs <- MCKeyTypeArgs
    NameAlgArgs <- MCNameAlgArgs
    ParentNameAlgs <- MCParentNameAlgs
    Digesters <- MCDigesters
    DiskStates <- MCDiskStates
INVARIANTS
    SuccessMeansOutputs
CHECK_DEADLOCK FALSE
