------------------------------ MODULE TaskSplit ------------------------------
(***************************************************************************)
(* split_ring() of control_plane/task_split.py: a ring of ranks, tested    *)
(* edge by edge, is cut into two or three tasks.  A task is a list of      *)
(* (sender, receiver) pairs that dispatch_comm_task() hands out together,  *)
(* one redis key per rank, so a rank may occur in a task only once.        *)
(***************************************************************************)
EXTENDS Integers, Sequences, FiniteSets

(* ring[first : last : 2], with last exclusive and positions from zero     *)
EverySecond(ring, first, last) ==
    [k \in 1 .. (last - first + 1) \div 2 |-> ring[first + 2 * (k - 1) + 1]]

(* zip(senders, recvers)                                                   *)
Zip(senders, recvers) ==
    [k \in 1 .. (IF Len(senders) < Len(recvers) THEN Len(senders)
                 ELSE Len(recvers)) |->
        [sender |-> senders[k], recver |-> recvers[k]]]

(* Variant: the edge that closes an odd ring goes into the second task.    *)
SplitRingInTwo(ring) ==
    LET n == Len(ring) IN
    << Zip(EverySecond(ring, 0, n - 1), EverySecond(ring, 1, n)),
       Zip(EverySecond(ring, 1, n), EverySecond(ring, 2, n))
           \o Zip(<<ring[n]>>, <<ring[1]>>) >>

(* Variant: no third task.                                                 *)
SplitRingOpen(ring) ==
    LET n == Len(ring) IN
    << Zip(EverySecond(ring, 0, n), EverySecond(ring, 1, n)),
       Zip(EverySecond(ring, 1, n), EverySecond(ring, 2, n)) >>

split_ring(ring) ==
    LET n == Len(ring) IN
    IF n = 2 THEN
        << Zip(<<ring[1]>>, <<ring[2]>>), Zip(<<ring[2]>>, <<ring[1]>>) >>
    ELSE IF n % 2 = 0 THEN
        << Zip(EverySecond(ring, 0, n), EverySecond(ring, 1, n)),
           Zip(EverySecond(ring, 1, n),
               EverySecond(ring, 2, n - 1) \o <<ring[1]>>) >>
    ELSE
        << Zip(EverySecond(ring, 0, n - 1), EverySecond(ring, 1, n)),
           Zip(EverySecond(ring, 1, n), EverySecond(ring, 2, n)),
           Zip(<<ring[n]>>, <<ring[1]>>) >>

-----------------------------------------------------------------------------
(* The reference: the directed edges of the ring                           *)
RingEdges(ring) ==
    {[sender |-> ring[i], recver |-> ring[(i % Len(ring)) + 1]] :
        i \in 1 .. Len(ring)}

(* The positions <<task, pair>> at which the edge e is tested              *)
TestedAt(tasks, e) ==
    UNION {{<<t, p>> : p \in {q \in DOMAIN tasks[t] : tasks[t][q] = e}} :
              t \in DOMAIN tasks}

Endpoints(pair) == {pair.sender, pair.recver}
=============================================================================
