CONSTANTS
    MaxRecords = 4
    AppendsFail = TRUE
SPECIFICATION Spec
INVARIANTS AcknowledgedReadable
CHECK_DEADLOCK FALSE
