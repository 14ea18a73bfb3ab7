CONSTANTS
    w1 = w1
    w2 = w2
    Workers <- TwoWorkers
    DatasetSize = 3
    ShardSize = 2
    MaxShardCount = 1
    NumEpochs = 1
    MaxTaskRetries = 1
    MaxFaults = 2
SPECIFICATION Spec
SYMMETRY WorkerSymmetry
CHECK_DEADLOCK FALSE
INVARIANTS
    ShardInOnePlace
    EveryRecordSeen
    CountedWasProcessed
    DeadWorkerRecovered
