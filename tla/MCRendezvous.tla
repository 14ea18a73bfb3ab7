---------------------------- MODULE MCRendezvous ----------------------------
(***************************************************************************)
(* Instances of Rendezvous: ranks are integers, so there is no symmetry.   *)
(***************************************************************************)
EXTENDS Rendezvous

ThreeRanks == 0 .. 2

\* Three nodes that may all take part or leave one out, and three nodes in
\* units of two.
OnesAndPairs == {[min |-> 2, max |-> 3, unit |-> 1], [min |-> 2, max |-> 4, unit |-> 2]}
=============================================================================
