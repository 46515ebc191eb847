CONSTANTS
    Conns = {c1, c2}
    Ids = {s1}
    Reqs = {q1, q2}
    MaxRuntimes = 2
    CallIds = {a1, a2}
    MaxLength = 4
    Users = {u1, u2, u3}
    NoUser = NoUser
    MaxConnections = 2
    MaxRevision = 1
    Clients = {k1, k2}
    MaxVersion = 2
    MaxRecords = 4
    Repos = {r1, r2}
    Ttl = 3
    Interval = 1
    MaxStorages = 2
    MaxQueue = 1
    Tasks = {t1, t2}
    MaxLogins = 2
    MaxTurns = 3
    MaxLate = 1
SPECIFICATION Spec
SYMMETRY Symmetric
INVARIANTS
    TypeOK
    OneRuntimePerSession NoDisposalUnderOperation ReceiversAreAttached NothingLeftLive
    EveryCallAnswered KeepsTheRest
    LeaseHolds ExclusiveAlone NoneLeftAttached
    UpToDate
    AcknowledgedReadable
    StaleOwnerFenced PromptOwnerKeepsLease
    StoredIsValid
CHECK_DEADLOCK FALSE
