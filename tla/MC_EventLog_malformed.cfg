\* Logs with a digest of an algorithm the SpecID table does not list, and
\* a variable event whose name length wraps the size sum.
CONSTANTS
    Logs <- MalformedLogs
    Cuts <- MalformedCuts
    Visitors <- MCVisitors
    SizeBits <- MCSizeBits
SPECIFICATION Spec
\* parse_eventlog returns: a finished parse is a final state.
CHECK_DEADLOCK FALSE
INVARIANT
    RecordsValidatedPerSpec
