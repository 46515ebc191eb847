SPECIFICATION Spec
CONSTANTS
    Callers = {c1}
    NoCaller = NoCaller
    Texts = {t1, NoText}
    NoText = NoText
    CustomMessage = CustomMessage
    MaxRetries = 0
    MaxSubmits = 2
    MaxToolTurns = 0
    MaxContexts = 0
INVARIANTS QueueShown
CHECK_DEADLOCK FALSE
