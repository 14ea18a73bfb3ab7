------------------------------ MODULE TimerHook ------------------------------
(***************************************************************************)
(* The XPUTimer hook for MetaX (metax_probe/xpu_timer_metax_hook.cc): the  *)
(* threads of the application launch kernels through mcLaunchKernel and    *)
(* collectives through COLL_META, the poller thread drains the work queue, *)
(* folds finished launches into the metrics and reports hangs, stop()      *)
(* flushes.  Event pairs are reused through the pool.                      *)
(*                                                                         *)
(* A launch is its number.  An event is known by the launch it was last    *)
(* recorded for (0: never), a duration by the pair of its two events.      *)
(* Launches the sampling knob skips change nothing and are left out, and   *)
(* so are the histogram, the slow reports and the text of the dumps.       *)
(***************************************************************************)
EXTENDS Naturals, Sequences, FiniteSets

CONSTANTS
    Threads,      \* host threads that launch
    Colls,        \* names of mccl collectives
    NoColl,       \* nullptr
    MaxLaunches,  \* bound: timed launches
    MaxNest       \* bound: collectives one thread is inside

ASSUME HookAssumption ==
    /\ IsFiniteSet(Threads)
    /\ NoColl \notin Colls
    /\ MaxLaunches \in Nat /\ MaxNest \in Nat

Launches == 1..MaxLaunches
Objects == 1..MaxLaunches   \* acquire() makes one when the pool is empty

VARIABLES
    mgr,       \* "new", "running", "failed" (start() gave up), "stopped"
    pool,      \* pool_
    made,      \* TimedOp objects made so far
    op,        \* the objects: name, start and stop event, hang_reported
    work,      \* work_
    trace,     \* what fold() counted: launch, name, the launch of each event
    hangs,     \* what fold(hang) counted
    ppc,       \* where the poller is
    local,     \* drain_once(): local, not examined yet
    still,     \* drain_once(): still_pending
    tpc,       \* where a thread is inside mcLaunchKernel
    held,      \* the object of its launch
    active,    \* active_collective
    saved,     \* _previous_coll of the collectives it is inside, newest first
    inside,    \* the application: the collectives a thread is inside
    launched,  \* launches so far
    truth,     \* the collective each launch was made in
    done,      \* launches the GPU has finished
    overdue,   \* unfinished launches past the hang timeout
    flushing   \* history: launches queued and finished when stop() began

queueVars == <<pool, made, work>>
statVars == <<trace, hangs>>
pollVars == <<ppc, local, still>>
threadVars == <<tpc, held, active, saved, inside>>
gpuVars == <<launched, truth, done, overdue>>
vars == <<mgr, queueVars, op, statVars, pollVars, threadVars, gpuVars,
          flushing>>

FreshOp == [launch |-> 0, name |-> NoColl, start |-> 0, stop |-> 0,
            reported |-> FALSE]

Init ==
    /\ mgr = "new" /\ pool = <<>> /\ made = 0
    /\ op = [o \in Objects |-> FreshOp]
    /\ work = <<>> /\ trace = <<>> /\ hangs = <<>>
    /\ ppc = "off" /\ local = <<>> /\ still = <<>>
    /\ tpc = [t \in Threads |-> "out"] /\ held = [t \in Threads |-> 0]
    /\ active = [t \in Threads |-> NoColl]
    /\ saved = [t \in Threads |-> <<>>] /\ inside = [t \in Threads |-> <<>>]
    /\ launched = 0 /\ truth = [l \in Launches |-> NoColl]
    /\ done = {} /\ overdue = {} /\ flushing = {}

-----------------------------------------------------------------------------
(* ensure_started(): once, at the first intercepted call; when the runtime *)
(* cannot be loaded the call is not repeated and detection stays off       *)
ensure_started ==
    IF mgr # "new" THEN UNCHANGED <<mgr, ppc>>
    ELSE \/ mgr' = "running" /\ ppc' = "loop"
         \/ mgr' = "failed" /\ UNCHANGED ppc

(* COLL_META, up to the real collective.  Its call and byte counts, which  *)
(* nothing here reads, are left out.                                       *)
CollBegin(t, c) ==
    /\ tpc[t] = "out" /\ Len(inside[t]) < MaxNest
    /\ ensure_started
    /\ saved' = [saved EXCEPT ![t] = <<active[t]>> \o @]
    /\ active' = [active EXCEPT ![t] = c]
    /\ inside' = [inside EXCEPT ![t] = <<c>> \o @]
    /\ UNCHANGED <<queueVars, op, statVars, local, still, tpc, held, gpuVars,
                   flushing>>

(* Variant: no collective is active afterwards.                           *)
Cleared(t) == NoColl

(* What COLL_META puts back into active_collective                         *)
Previous(t) == Head(saved[t])

(* The real collective has returned                                        *)
CollEnd(t) ==
    /\ tpc[t] = "out" /\ inside[t] # <<>>
    /\ active' = [active EXCEPT ![t] = Previous(t)]
    /\ saved' = [saved EXCEPT ![t] = Tail(@)]
    /\ inside' = [inside EXCEPT ![t] = Tail(@)]
    /\ UNCHANGED <<mgr, queueVars, op, statVars, pollVars, tpc, held, gpuVars,
                   flushing>>

(* mcLaunchKernel: enabled() has been true                                 *)
LaunchBegin(t) ==
    /\ tpc[t] = "out" /\ launched < MaxLaunches
    /\ Cardinality({u \in Threads : tpc[u] # "out"}) < MaxLaunches - launched
    /\ ensure_started
    /\ mgr' = "running"
    /\ tpc' = [tpc EXCEPT ![t] = "enabled"]
    /\ UNCHANGED <<queueVars, op, statVars, local, still, held, active, saved,
                   inside, gpuVars, flushing>>

(* Variant: hang_reported survives the pool.                              *)
ReportedKept(o) == op[o].reported

(* hang_reported of an object the moment it is acquired                    *)
ReportedAtAcquire(o) == FALSE

(* acquire() under pool_mu_, the label and record_start()                  *)
Acquire(t) ==
    /\ tpc[t] = "enabled"
    /\ LET o == IF pool = <<>> THEN made + 1 ELSE pool[Len(pool)]
           l == launched + 1
       IN  /\ IF pool = <<>> THEN made' = made + 1 /\ UNCHANGED pool
              ELSE pool' = SubSeq(pool, 1, Len(pool) - 1) /\ UNCHANGED made
           /\ op' = [op EXCEPT ![o] = [@ EXCEPT
                        !.launch = l, !.name = active[t], !.start = l,
                        !.reported = ReportedAtAcquire(o)]]
           /\ held' = [held EXCEPT ![t] = o]
           /\ truth' = [truth EXCEPT ![l] =
                           IF inside[t] = <<>> THEN NoColl ELSE Head(inside[t])]
    /\ launched' = launched + 1
    /\ tpc' = [tpc EXCEPT ![t] = "launch"]
    /\ UNCHANGED <<mgr, work, statVars, pollVars, active, saved, inside, done,
                   overdue, flushing>>

(* The real launch, which the GPU may finish from now on, and the record   *)
(* of the stop event behind it                                             *)
RecordStop(t) ==
    /\ tpc[t] = "launch"
    /\ op' = [op EXCEPT ![held[t]].stop = op[held[t]].launch]
    /\ tpc' = [tpc EXCEPT ![t] = "stopped"]
    /\ UNCHANGED <<mgr, queueVars, statVars, pollVars, held, active, saved,
                   inside, gpuVars, flushing>>

(* work_.push_back() under q_mu_; whether the manager still runs is not    *)
(* looked at again                                                         *)
Enqueue(t) ==
    /\ tpc[t] = "stopped"
    /\ work' = Append(work, held[t])
    /\ held' = [held EXCEPT ![t] = 0]
    /\ tpc' = [tpc EXCEPT ![t] = "out"]
    /\ UNCHANGED <<mgr, pool, made, op, statVars, pollVars, active, saved,
                   inside, gpuVars, flushing>>

-----------------------------------------------------------------------------
(* External: a kernel finishes, with everything recorded behind it up to   *)
(* the stop event; the hang timeout of an unfinished launch passes         *)
Finish(l) ==
    /\ l \in 1..launched \ done
    /\ \A t \in Threads : tpc[t] = "launch" => op[held[t]].launch # l
    /\ done' = done \cup {l}
    /\ UNCHANGED <<mgr, queueVars, op, statVars, pollVars, threadVars,
                   launched, truth, overdue, flushing>>

Overdue(l) ==
    /\ l \in 1..launched \ (done \cup overdue)
    /\ overdue' = overdue \cup {l}
    /\ UNCHANGED <<mgr, queueVars, op, statVars, pollVars, threadVars,
                   launched, truth, done, flushing>>

-----------------------------------------------------------------------------
(* The poller.  One drain_once() takes the whole queue; the loop ends when *)
(* stop() has been called, and drains once more.                           *)
Swap ==
    /\ ppc \in {"loop", "final"}
    /\ ppc = "final" \/ mgr = "running"
    /\ local' = work /\ work' = <<>>
    /\ ppc' = IF ppc = "loop" THEN "drain" ELSE "finalDrain"
    /\ UNCHANGED <<mgr, pool, made, op, statVars, still, threadVars, gpuVars,
                   flushing>>

(* Variant: no final flush.                                               *)
LeaveAtOnce == "off"

(* What follows the loop of poll_loop(): the final flush                   *)
AfterLoop == "final"

LeaveLoop ==
    /\ ppc = "loop" /\ mgr # "running"
    /\ ppc' = AfterLoop
    /\ UNCHANGED <<mgr, queueVars, op, statVars, local, still, threadVars,
                   gpuVars, flushing>>

(* mcEventQuery of an event: an event never recorded is complete           *)
Ready(event) == event = 0 \/ event \in done

(* Variant: hang_reported is not looked at.                               *)
OverdueOnly(o) == op[o].launch \in overdue

(* not ready: the object's first look past the hang timeout                *)
IsHang(o) == ~op[o].reported /\ op[o].launch \in overdue

(* Variant: the object is released by fold() too.                         *)
ReleaseTwice(o) == pool \o <<o, o>>

Release(o) == Append(pool, o)

(* One object of the loop in drain_once()                                  *)
Examine ==
    /\ ppc \in {"drain", "finalDrain"} /\ local # <<>>
    /\ LET o == Head(local)
       IN  IF Ready(op[o].stop)
           THEN /\ trace' = Append(trace, op[o])
                /\ pool' = Release(o)
                /\ UNCHANGED <<op, hangs, still>>
           ELSE /\ still' = Append(still, o)
                /\ IF IsHang(o)
                   THEN /\ op' = [op EXCEPT ![o].reported = TRUE]
                        /\ hangs' = Append(hangs, op[o].launch)
                   ELSE UNCHANGED <<op, hangs>>
                /\ UNCHANGED <<trace, pool>>
    /\ local' = Tail(local)
    /\ UNCHANGED <<mgr, made, work, ppc, threadVars, gpuVars, flushing>>

(* Variant: unfinished launches are not kept.                             *)
DropPending == work

(* The queue when still_pending has been pushed to its end                 *)
KeepPending == work \o still

(* still_pending goes back to the queue, behind what arrived meanwhile     *)
PushBack ==
    /\ ppc \in {"drain", "finalDrain"} /\ local = <<>>
    /\ work' = KeepPending /\ still' = <<>>
    /\ ppc' = IF ppc = "drain" THEN "loop" ELSE "off"
    /\ UNCHANGED <<mgr, pool, made, op, statVars, local, threadVars, gpuVars,
                   flushing>>

(* stop(), from the library's destructor: running_ falls, then it joins    *)
(* the poller and writes the final dump                                    *)
Stop ==
    /\ mgr = "running"
    /\ mgr' = "stopped"
    /\ flushing' = {op[work[i]].launch : i \in DOMAIN work} \cap done
    /\ UNCHANGED <<queueVars, op, statVars, pollVars, threadVars, gpuVars>>

Poll == Swap \/ LeaveLoop \/ Examine \/ PushBack
ThreadStep(t) == Acquire(t) \/ RecordStop(t) \/ Enqueue(t)

Next ==
    \/ \E t \in Threads, c \in Colls : CollBegin(t, c)
    \/ \E t \in Threads : CollEnd(t) \/ LaunchBegin(t) \/ ThreadStep(t)
    \/ \E l \in Launches : Finish(l) \/ Overdue(l)
    \/ Poll
    \/ Stop

(* The poller's loop and a launch that has begun go on; nothing is assumed *)
(* of the application, the GPU or the end of the process.                  *)
Spec ==
    /\ Init /\ [][Next]_vars
    /\ WF_vars(Poll) /\ \A t \in Threads : WF_vars(ThreadStep(t))

-----------------------------------------------------------------------------
Places == pool \o work \o local \o still
Holders(o) == Cardinality({i \in DOMAIN Places : Places[i] = o})
                 + Cardinality({t \in Threads : held[t] = o})

(* An event pair is in one place: free, queued, being examined or in the   *)
(* hands of one thread.  Two launches never record the same events, and no *)
(* pair is leaked while the poller and the threads pass it on.             *)
OpsInOnePlace == \A o \in 1..made : Holders(o) = 1

(* Every entry of the trace is a finished launch, under the collective it  *)
(* was made in, timed by its own two events, and no launch is there twice, *)
(* although objects are reused and collectives nest.                       *)
TraceIsRight ==
    \A i \in DOMAIN trace :
        /\ trace[i].launch \in done
        /\ trace[i].start = trace[i].launch /\ trace[i].stop = trace[i].launch
        /\ trace[i].name = truth[trace[i].launch]
        /\ \A j \in DOMAIN trace : trace[i].launch = trace[j].launch => i = j

(* A hang is reported once, for a launch that was past the timeout.        *)
HangsReportedOnce ==
    \A i, j \in DOMAIN hangs :
        hangs[i] \in overdue /\ (hangs[i] = hangs[j] => i = j)

(* "final flush": once the poller has been joined, every launch that was   *)
(* queued and finished when stop() began is in the metrics it dumps.       *)
FlushedAtStop ==
    mgr = "stopped" /\ ppc = "off" =>
        \A l \in flushing : \E i \in DOMAIN trace : trace[i].launch = l

Queued(l) == \E i \in DOMAIN Places : op[Places[i]].launch = l

(* While the manager runs, a queued launch that does not finish within the *)
(* timeout is reported as a hang, also when its object had reported one    *)
(* for an earlier launch.                                                  *)
HangReported ==
    \A l \in Launches :
        (Queued(l) /\ l \in overdue)
            ~> (l \in done \/ mgr = "stopped" \/ \E i \in DOMAIN hangs : hangs[i] = l)

(* While the manager runs, a launch that finishes reaches the metrics.     *)
FinishedIsFolded ==
    \A l \in Launches :
        l \in done ~> (mgr = "stopped" \/ \E i \in DOMAIN trace : trace[i].launch = l)
=============================================================================
