\* Every cp_hash wrapper, both modes, on a started TPM implementing every command.
CONSTANTS
    Calls <- MCCalls
    Supported <- AllCommandCodes
    TpmStarted = TRUE
    TpmResults <- MCTpmResults
    PrepareResults <- MCPrepareResults
SPECIFICATION Spec
\* A wrapper returns: its final state has no successor.
CHECK_DEADLOCK FALSE
INVARIANTS
    TypeOK
    CpModeIssuesNoCommand
    NamesReleasedOnReturn
    CpHashAuthorizesCommand
    SuccessMeansDone
