--------------------------- MODULE MCFailslowCycle ---------------------------
(* FailslowCycle for TLC.                                                  *)
EXTENDS FailslowCycle

CONSTANTS n1, n2

TwoNodes == {n1, n2}
=============================================================================
