CONSTANTS
    Logs <- MCLogs
    Cuts <- MCCuts
    Visitors <- MCVisitors
    SizeBits <- MCSizeBits
SPECIFICATION Spec
\* parse_eventlog returns: a finished parse is a final state.
CHECK_DEADLOCK FALSE
INVARIANTS
    TypeOK
    NoOverread
    VisitorsWithinLog
    SuccessfulParseVisitsEveryRecord
