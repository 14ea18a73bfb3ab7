CONSTANTS
    t1 = t1
    t2 = t2
    c1 = c1
    NoColl = NoColl
    Threads <- TwoThreads
    Colls <- OneColl
    MaxLaunches = 2
    MaxNest = 2
SPECIFICATION Spec
CHECK_DEADLOCK FALSE
INVARIANTS
    OpsInOnePlace
    TraceIsRight
    HangsReportedOnce
    FlushedAtStop
PROPERTIES
    HangReported
    FinishedIsFolded
