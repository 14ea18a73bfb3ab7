------------------------------- MODULE CallLog -------------------------------
(***************************************************************************)
(* What the probe promises to the analyzers, whatever it buffers and       *)
(* compresses on the way: the record ring receives the calls in the order  *)
(* they were issued, each at most once, and a call that never arrives is   *)
(* one whose group the probe left open or reopened before it ended.        *)
(***************************************************************************)
EXTENDS Naturals, Sequences

VARIABLES
    issued,    \* the number of calls issued so far; call n is the n-th
    pending,   \* calls taken by the probe and not published yet
    logged,    \* calls published to the record ring
    stranded   \* calls whose group was left open or reopened

vars == <<issued, pending, logged, stranded>>

Init ==
    /\ issued = 0
    /\ pending = <<>> /\ logged = <<>>
    /\ stranded = {}

(* Perhaps one more call, then any number of the oldest ones published     *)
Record(new) ==
    LET all == pending \o new
    IN  /\ issued' = issued + Len(new)
        /\ \E k \in 0..Len(all) :
              /\ logged' = logged \o SubSeq(all, 1, k)
              /\ pending' = SubSeq(all, k + 1, Len(all))

(* Nothing but stranded calls is ever dropped                              *)
Lose ==
    /\ \E k \in 1..Len(pending) :
          /\ \A i \in 1..k : pending[i] \in stranded
          /\ pending' = SubSeq(pending, k + 1, Len(pending))
    /\ UNCHANGED <<issued, logged>>

Next ==
    /\ stranded \subseteq stranded'
    /\ stranded' \subseteq 1..issued'
    /\ Record(<<issued + 1>>) \/ Record(<<>>) \/ Lose

Spec == Init /\ [][Next]_vars
=============================================================================
