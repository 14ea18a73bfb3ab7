SPECIFICATION Spec
CONSTANTS
    Nodes <- ThreeRanks
    Params <- OnesAndPairs
    MaxErrors = 2
    MaxFaults = 1
    MaxRounds = 2
INVARIANTS
    OneWorldPerRound
    LostOnlyAfterRound
    RoundTakesAllUnits
    OneWholeWorld
CHECK_DEADLOCK FALSE
