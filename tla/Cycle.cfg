CONSTANTS
    n1 = n1
    n2 = n2
    Nodes <- TwoNodes
    MaxReports = 2
SPECIFICATION Spec
CHECK_DEADLOCK FALSE
INVARIANTS
    ReportsStandUntilValidated
PROPERTIES
    ProfilingEndsOrCrossWait
    LocalProceeds
