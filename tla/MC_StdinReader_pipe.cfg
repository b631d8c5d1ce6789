\* A pipe written in pieces, in blocking mode.
SPECIFICATION Spec
CONSTANTS
    Sources <- MCPipe
    WriteSizes <- MCPieces
    FileSizes <- MCFileSizes
    MaxInput <- MCMaxInput
    NonBlocking = FALSE
    MaxBuffer <- MCMaxBuffer
    SizeBits <- MCSizeBits
PROPERTY ReadInputSpec
CHECK_DEADLOCK FALSE
