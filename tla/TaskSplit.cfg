CONSTANT MaxRanks = 6
SPECIFICATION RingSpec
INVARIANTS
    EdgesTestedOnce
    RanksDisjoint
CHECK_DEADLOCK FALSE
