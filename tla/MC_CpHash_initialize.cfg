\* The wrappers that accept TPM2_RC_INITIALIZE, on a TPM where TPM2_Startup has not run.
CONSTANTS
    Calls <- InitializeAccepting
    Supported <- AllCommandCodes
    TpmStarted = FALSE
    TpmResults <- MCTpmResults
    PrepareResults <- MCPrepareResults
SPECIFICATION Spec
CHECK_DEADLOCK FALSE
INVARIANT SuccessMeansDone
