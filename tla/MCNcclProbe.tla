----------------------------- MODULE MCNcclProbe -----------------------------
(* Model-checking instance of NcclProbe                                    *)
EXTENDS NcclProbe, TLC

CONSTANTS c1, c2
TwoComms == {c1, c2}
CommSymmetry == Permutations(TwoComms)
=============================================================================
