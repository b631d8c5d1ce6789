\* A command file shorter than its header's size.
SPECIFICATION Spec
CONSTANTS
    FileLens <- MCFileLens
    SizeFields <- MCSizeFields
    GarbageSizes <- MCGarbageSizes
    MaxSize = 4096
    InputArgs <- MCInputArgs
    CloseMayFail = FALSE
INVARIANTS
    TransmitsCommandFile
CHECK_DEADLOCK FALSE
