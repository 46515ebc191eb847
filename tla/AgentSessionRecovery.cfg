SPECIFICATION Spec
CONSTANTS
    Callers = {c1}
    NoCaller = NoCaller
    Texts = {t1}
    NoText = NoText
    CustomMessage = CustomMessage
    MaxRetries = 1
    MaxSubmits = 1
    MaxToolTurns = 0
    MaxContexts = 0
PROPERTIES RecoveryContinues
CHECK_DEADLOCK FALSE
