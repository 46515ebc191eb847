CONSTANTS
    Clients = {k1, k2}
    MaxVersion = 1
SPECIFICATION Spec
INVARIANTS HandshakeCatchesUp
CHECK_DEADLOCK FALSE
