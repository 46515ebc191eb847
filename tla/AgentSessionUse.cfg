SPECIFICATION UseSpec
CONSTANTS
    Callers = {c1, c2}
    NoCaller = NoCaller
    Texts = {t1, t2}
    NoText = NoText
    CustomMessage = CustomMessage
    MaxRetries = 1
    MaxSubmits = 2
    MaxToolTurns = 1
    MaxContexts = 1
    QueueSubmits = 3
    QueueTexts = {t1, t2, NoText}
INVARIANTS TypeOK ShownIsPending BusyWhileDriving ResultsFollowCalls
PROPERTIES WillRetryKept
SYMMETRY Symmetry
CHECK_DEADLOCK FALSE
