CONSTANTS
    Conns = {c1}
    Ids = {s1}
    Reqs = {q1}
    MaxRuntimes = 1
SPECIFICATION FairSpec
PROPERTIES TerminalDisconnects
CHECK_DEADLOCK FALSE
