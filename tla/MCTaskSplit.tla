---------------------------- MODULE MCTaskSplit -----------------------------
(***************************************************************************)
(* validate_ring() over every ring of up to MaxRanks ranks: the tasks of   *)
(* split_ring() are handed out one after the other.                        *)
(***************************************************************************)
EXTENDS TaskSplit

CONSTANT MaxRanks   \* bound: ranks of the job

ASSUME MaxRanksAssumption == MaxRanks \in Nat

VARIABLES
    ring,    \* the ring under validation
    tasks    \* the tasks handed out so far

RankSet == 0 .. MaxRanks - 1

(* The rings NCCL may build: each rank once, in any order.                 *)
AllRings ==
    UNION {{s \in [1 .. n -> RankSet] : \A i, j \in 1 .. n : s[i] = s[j] => i = j} :
              n \in 2 .. MaxRanks}

RingInit == ring \in AllRings /\ tasks = << >>

(* for task in tasks: dispatch_comm_task(task, ...)                        *)
HandOut ==
    /\ Len(tasks) < Len(split_ring(ring))
    /\ tasks' = Append(tasks, split_ring(ring)[Len(tasks) + 1])
    /\ UNCHANGED ring

RingSpec == RingInit /\ [][HandOut]_<<ring, tasks>>

(* split_ring(): when validate_ring() is through, every directed edge of   *)
(* the ring was tested exactly once, and no other pair of ranks was.       *)
EdgesTestedOnce ==
    Len(tasks) = Len(split_ring(ring)) =>
        \A e \in [sender : RankSet, recver : RankSet] :
            Cardinality(TestedAt(tasks, e)) =
                IF e \in RingEdges(ring) THEN 1 ELSE 0

(* dispatch_comm_task() has one key for each rank, and a rank in a send or *)
(* receive can do nothing else: within a task no rank occurs twice, and a  *)
(* task is never empty.                                                    *)
RanksDisjoint ==
    \A t \in DOMAIN tasks :
        /\ tasks[t] # << >>
        /\ Cardinality(UNION {Endpoints(tasks[t][p]) : p \in DOMAIN tasks[t]})
             = 2 * Len(tasks[t])
=============================================================================
