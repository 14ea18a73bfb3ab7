CONSTANTS
    w1 = w1
    c1 = c1
    c2 = c2
    NoCall = NoCall
    Writers <- MCWriters
    Calls <- MCCalls
    MaxRecords = 3
    HasClearer = FALSE
    MaxEvents = 5
    MaxAttempts = 2
SPECIFICATION SnapshotSpec
INVARIANT SnapshotNeverMixed
