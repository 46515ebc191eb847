CONSTANTS
    Conns = {c1, c2}
    Ids = {s1}
    Reqs = {q1, q2}
    MaxRuntimes = 2
SPECIFICATION Spec
INVARIANTS AttachedToLive
CHECK_DEADLOCK FALSE
