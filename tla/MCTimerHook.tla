----------------------------- MODULE MCTimerHook -----------------------------
(* Model-checking instance of TimerHook                                    *)
EXTENDS TimerHook

CONSTANTS t1, t2, c1
TwoThreads == {t1, t2}
OneColl == {c1}
=============================================================================
