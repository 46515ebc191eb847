SPECIFICATION RunsSpec
CONSTANTS
    MaxMsgs = 3
    SteeringMode = "one-at-a-time"
    FollowUpMode = "all"
    MaxCalls = 2
    MaxToolTurns = 2
    MaxRuns = 2
    MaxFailures = 1
    ToolMsgs = 2
INVARIANTS
    TypeOK
    FifoPerLane NothingLost ContextIsTranscript
    WellPairedRequest AnsweredUnlessAborted PendingToolCallsExact OneCallAtATime ResultsInSourceOrder
CHECK_DEADLOCK FALSE
