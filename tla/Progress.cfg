CONSTANTS
    MaxMsgs = 2
    SteeringMode = "all"
    FollowUpMode = "one-at-a-time"
    MaxCalls = 1
    MaxCallTurns = 1
    MaxRuns = 2
    MaxFailures = 1
    Conns = {c1}
    LiveIds = {s1}
    Reqs = {q1, q2}
    MaxRuntimes = 2
    Callers = {p1}
    NoCaller = NoCaller
    Texts = {t1}
    NoText = NoText
    CustomMessage = CustomMessage
    MaxRetries = 1
    MaxSubmits = 2
    MaxToolTurns = 0
    MaxContexts = 0
SPECIFICATION Spec
PROPERTIES
    RunSettles
    UnusedReleased RuntimesReleased
    PromptsEnd WaitersGoOn
CHECK_DEADLOCK FALSE
