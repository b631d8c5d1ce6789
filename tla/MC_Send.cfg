\* Every input length and header, every option outcome; the output's
\* fclose succeeds.
SPECIFICATION Spec
CONSTANTS
    FileLens <- MCFileLens
    SizeFields <- MCSizeFields
    GarbageSizes <- MCGarbageSizes
    MaxSize = 4096
    InputArgs <- MCInputArgs
    CloseMayFail = FALSE
INVARIANTS
    TypeOK
    BufferWritesFit
    SuccessMeansResponseWritten
\* tpm2_send runs once and returns.
CHECK_DEADLOCK FALSE
