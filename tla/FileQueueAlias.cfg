SPECIFICATION Spec
CONSTANTS
    realPath = realPath
    linkPath = linkPath
    theFile = theFile
    NoOp = NoOp
    Ops = {o1, o2, o3}
    Paths <- BothPaths
    Files <- OneFile
    Target <- Leads
    Canonical <- RealPath
INVARIANTS FileExclusion
CHECK_DEADLOCK FALSE
