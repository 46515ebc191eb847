SPECIFICATION FairSpec
CONSTANTS
    realPath = realPath
    linkPath = linkPath
    theFile = theFile
    NoOp = NoOp
    Ops = {o1, o2, o3}
    Paths <- BothPaths
    Files <- OneFile
    Target <- Leads
    Canonical <- RealPath
INVARIANTS TypeOK Serialized NoStaleEntry EditSeesLatest
PROPERTIES ImplementsFifoLock AllSettle
CHECK_DEADLOCK FALSE
