---------------------------- MODULE MCDataShards ----------------------------
(* Model-checking instance of DataShards: two shards, in two subepochs     *)
EXTENDS DataShards, TLC

CONSTANTS w1, w2
TwoWorkers == {w1, w2}
WorkerSymmetry == Permutations(TwoWorkers)
=============================================================================
