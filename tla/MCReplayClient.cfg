CONSTANTS
    MaxSeq = 3
    MaxGen = 2
    PageMax = 1
    HistMax = 1
    PendingMax = 1
    MaxLoads = 2
    MaxFaults = 1
    Env <- NoKinds
    Held <- OneRow
SPECIFICATION FairSpec
INVARIANTS TypeOK PaneWhole StatusNotBehind
PROPERTIES CatchesUp
CHECK_DEADLOCK FALSE
