CONSTANTS
    w1 = w1
    w2 = w2
    c1 = c1
    c2 = c2
    NoCall = NoCall
    Writers <- MCWriters
    Calls <- MCCalls
    MaxRecords = 2
    HasClearer = TRUE
    MaxEvents = 4
SPECIFICATION RingSpec
SYMMETRY MCSymmetry
INVARIANTS
    TypeOK
    RingHoldsRecent
    OnlyOldestAtRisk
    EventIdsUnique
    CleanClearForgets
