---------------------------- MODULE MCRecordRing ----------------------------
(* RecordRing for TLC.                                                     *)
EXTENDS RecordRing, TLC

CONSTANTS w1, w2, c1, c2

MCWriters == {w1, w2}
MCCalls == {c1, c2}
MCSymmetry == Permutations(MCWriters) \cup Permutations(MCCalls)
=============================================================================
