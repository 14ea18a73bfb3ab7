CONSTANTS
    WorldSize = 3
    Rings <- TwoRings
    Depth = 1
    MaxEpisodes = 2
SPECIFICATION Spec
INVARIANTS
    ResultsBelongToTask
    AckErasesNothing
    PairsMatch
    NothingLeftAtResume
PROPERTIES
    NoTaskOverwritten
    EpisodeEndsOrCrossWait
CHECK_DEADLOCK FALSE
