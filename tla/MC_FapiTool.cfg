\* The four FAPI tools with every reader source, the pipe written in whole
\* chunks, in blocking mode; man is installed.
SPECIFICATION Spec
CONSTANTS
    Sources <- MCAllSources
    WriteSizes <- MCWholeChunks
    FileSizes <- MCFileSizes
    MaxInput <- MCMaxInput
    NonBlocking = FALSE
    MaxBuffer <- MCMaxBuffer
    SizeBits <- MCSizeBits
    Invocations <- MCInvocations
    ManOutcomes <- MCManInstalled
INVARIANTS TypeOK ReadWithinBuffer SuccessMeansOutput HelpShown
PROPERTIES ReadInputSpec
CHECK_DEADLOCK FALSE
