SPECIFICATION Spec
CONSTANTS
    a0 = a0
    a1 = a1
    Agents <- TwoAgents
    Zero = a0
    MaxStep = 2
    MaxSaves = 3
    StorageSteps = {2}
    SaveAtBreakpoint = TRUE
    MaxFaults = 1
INVARIANTS
    CompleteUnlessUnlocked
    ResumeTogether
    FlagGuardsMemory
CHECK_DEADLOCK FALSE
