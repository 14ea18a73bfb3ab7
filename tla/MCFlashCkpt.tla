----------------------------- MODULE MCFlashCkpt -----------------------------
(***************************************************************************)
(* Two agents; the agent of rank 0 is told apart, so there is no symmetry. *)
(***************************************************************************)
EXTENDS FlashCkpt

CONSTANTS a0, a1

TwoAgents == {a0, a1}
=============================================================================
