--------------------------- MODULE MCRingSnapshot ---------------------------
(* RingSnapshot for TLC.                                                   *)
EXTENDS RingSnapshot, TLC

CONSTANTS w1, c1, c2

MCWriters == {w1}
MCCalls == {c1, c2}
=============================================================================
