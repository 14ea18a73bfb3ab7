---------------------------- MODULE FailslowCycle ----------------------------
(***************************************************************************)
(* The cycle of a fail-slow event: LocalController.run() of every node     *)
(* (control_plane/local_controller.py) reports it, GlobalServer.run() and  *)
(* handle_failslow() (control_plane/global_controller.py) switch the job   *)
(* to profile mode, wait for profiles, pause and validate, trim the        *)
(* reports and resume; the reports and the profiles live in redis.         *)
(*                                                                         *)
(* The validation itself is module Validation and is one step here; the    *)
(* state of a node's ring (module RecordRing) is reduced to whether it is  *)
(* empty and to the profile mode its newest timed records come from.  The  *)
(* list of fail-stops and the iteration times, which the cycle never       *)
(* reads, are left out.                                                    *)
(***************************************************************************)
EXTENDS Integers, FiniteSets

CONSTANTS
    Nodes,        \* nodes, each with its local controller
    MaxReports    \* bound: reports in a behaviour

ASSUME CycleAssumption ==
    /\ IsFiniteSet(Nodes)
    /\ MaxReports \in Nat

STATE_MONITOR == 0
STATE_PROFILE == 1
STATE_VALIDATE == 2

None == -1       \* no Perf_ key, no record in the ring
Untimed == 0     \* only records without a duration

VARIABLES
    control,   \* redis: control_state
    failslow,  \* redis: the length of failslow_ranks
    perf,      \* redis: the Perf_ keys of a node, by profile mode measured
    spc,       \* where the server is
    episode,   \* handle_failslow() calls begun
    seen,      \* comm_perfs
    oldNum,    \* old_num_records
    lpc,       \* where a local controller is
    slow,      \* failed_slow
    reported,  \* reported_failslow_points is not empty
    reports,   \* drops found and reported so far, for the bound
    mode,      \* g_status.state of the ranks
    paused,    \* the ranks are in the pause loop
    ring       \* a node's ring: None, Untimed, or the episode of its timings

redisVars == <<control, failslow, perf>>
serverVars == <<spc, episode, seen, oldNum>>
localVars == <<lpc, slow, reported, reports>>
rankVars == <<mode, paused, ring>>
vars == <<redisVars, serverVars, localVars, rankVars>>

-----------------------------------------------------------------------------
(* After the pre-check and the first clear()                               *)
Init ==
    /\ control = STATE_MONITOR /\ failslow = 0
    /\ perf = [n \in Nodes |-> None]
    /\ spc = "watch" /\ episode = 0 /\ oldNum = 0
    /\ seen = [n \in Nodes |-> None]
    /\ lpc = [n \in Nodes |-> "detect"]
    /\ slow = [n \in Nodes |-> FALSE]
    /\ reported = [n \in Nodes |-> FALSE]
    /\ reports = 0
    /\ mode = STATE_MONITOR /\ paused = FALSE
    /\ ring = [n \in Nodes |-> None]

-----------------------------------------------------------------------------
(* The server                                                              *)

(* check_failslow_events() found some: set_profiling().  The loop sleeps   *)
(* five seconds in STATE_MONITOR first, in which every local controller    *)
(* that polls control_state once a second has seen it.                     *)
SetProfiling ==
    /\ spc = "watch"
    /\ failslow > 0
    /\ \A n \in Nodes : lpc[n] # "awaitMonitor"
    /\ control' = STATE_PROFILE
    /\ episode' = episode + 1
    /\ seen' = [n \in Nodes |-> None] /\ oldNum' = 0
    /\ spc' = "poll"
    /\ UNCHANGED <<failslow, perf, localVars, rankVars>>

(* Variant: the loop waits for a result of every node.                     *)
PollPerfOfAll ==
    /\ spc = "poll"
    /\ seen' = [n \in Nodes |-> IF perf[n] # None THEN perf[n] ELSE seen[n]]
    /\ spc' = IF \A n \in Nodes : seen'[n] # None THEN "delete" ELSE "poll"
    /\ UNCHANGED <<redisVars, episode, oldNum, localVars, rankVars>>

(* A pass of the loop of wait_and_build_performance_map(): it ends when a  *)
(* pass finds as many results as the one before, and some                  *)
PollPerf ==
    LET now == [n \in Nodes |-> IF perf[n] # None THEN perf[n] ELSE seen[n]]
        num == Cardinality({n \in Nodes : now[n] # None})
    IN /\ spc = "poll"
       /\ seen' = now
       /\ oldNum' = num
       /\ spc' = IF num = oldNum /\ num # 0 THEN "delete" ELSE "poll"
       /\ UNCHANGED <<redisVars, episode, localVars, rankVars>>

(* storage.delete() of every Perf_ key                                     *)
DeletePerf ==
    /\ spc = "delete"
    /\ perf' = [n \in Nodes |-> None]
    /\ spc' = "pause"
    /\ UNCHANGED <<control, failslow, episode, seen, oldNum, localVars, rankVars>>

(* Variant: the reports are consumed before the validation.                *)
PauseAndTrim ==
    /\ spc = "pause"
    /\ control' = STATE_VALIDATE
    /\ failslow' = 0
    /\ spc' = "validate"
    /\ UNCHANGED <<perf, episode, seen, oldNum, localVars, rankVars>>

PauseTraining ==
    /\ spc = "pause"
    /\ control' = STATE_VALIDATE
    /\ spc' = "validate"
    /\ UNCHANGED <<failslow, perf, episode, seen, oldNum, localVars, rankVars>>

(* The validation, which needs the ranks in their pause loop, and          *)
(* ltrim("failslow_ranks", 1, 0), which empties the list                   *)
ValidateAndTrim ==
    /\ spc = "validate"
    /\ paused
    /\ failslow' = 0
    /\ spc' = "resume"
    /\ UNCHANGED <<control, perf, episode, seen, oldNum, localVars, rankVars>>

(* Variant: the job is left in STATE_VALIDATE.                             *)
ResumeForgotten ==
    /\ spc = "resume"
    /\ spc' = "mitigate"
    /\ UNCHANGED <<redisVars, episode, seen, oldNum, localVars, rankVars>>

SetMonitoring ==
    /\ spc = "resume"
    /\ control' = STATE_MONITOR
    /\ spc' = "mitigate"
    /\ UNCHANGED <<failslow, perf, episode, seen, oldNum, localVars, rankVars>>

(* mitigate_failslow() returns, after up to twice the cost of a restart    *)
Mitigated ==
    /\ spc = "mitigate"
    /\ spc' = "watch"
    /\ UNCHANGED <<redisVars, episode, seen, oldNum, localVars, rankVars>>

Server ==
    \/ SetProfiling \/ PollPerf \/ DeletePerf \/ PauseTraining
    \/ ValidateAndTrim \/ SetMonitoring \/ Mitigated

-----------------------------------------------------------------------------
(* A local controller                                                      *)
LocalGoto(n, l) == lpc' = [lpc EXCEPT ![n] = l]

(* detect_failslow() found a period in the ring and, or not, a drop;       *)
(* otherwise the loop starts again                                         *)
Detect(n, s) ==
    /\ lpc[n] = "detect"
    /\ ring[n] # None
    /\ s => reported[n] \/ reports < MaxReports
    /\ slow' = [slow EXCEPT ![n] = s]
    /\ LocalGoto(n, IF s /\ ~reported[n] THEN "report" ELSE "state")
    /\ reports' = IF s /\ ~reported[n] THEN reports + 1 ELSE reports
    /\ UNCHANGED <<redisVars, serverVars, reported, rankVars>>

(* report_failslow(): rpush                                                *)
ReportFailslow(n) ==
    /\ lpc[n] = "report"
    /\ failslow' = failslow + 1
    /\ reported' = [reported EXCEPT ![n] = TRUE]
    /\ LocalGoto(n, "state")
    /\ UNCHANGED <<control, perf, serverVars, slow, reports, rankVars>>

(* get("control_state") and the three branches                             *)
ReadState(n) ==
    /\ lpc[n] = "state"
    /\ LocalGoto(n, CASE slow[n] \/ control = STATE_PROFILE -> "measure"
                      [] ~slow[n] /\ control = STATE_VALIDATE -> "awaitMonitor"
                      [] OTHER -> "detect")
    /\ UNCHANGED <<redisVars, serverVars, slow, reported, reports, rankVars>>

(* get_profile_results(), PROFILE_PERIOD later: the full periods of        *)
(* records with a duration, but for the first, are results to send ...     *)
Measure(n) ==
    /\ lpc[n] = "measure"
    /\ ring[n] > Untimed
    /\ LocalGoto(n, "send")
    /\ UNCHANGED <<redisVars, serverVars, slow, reported, reports, rankVars>>

(* ... and there may be none: the job was not in profile mode during the   *)
(* wait, or PROFILE_PERIOD was too short for two periods of it.            *)
MeasureNothing(n) ==
    /\ lpc[n] = "measure"
    /\ LocalGoto(n, "awaitTrim")
    /\ UNCHANGED <<redisVars, serverVars, slow, reported, reports, rankVars>>

(* find_period() failed: the exception leads back to the loop's start      *)
MeasureRaises(n) ==
    /\ lpc[n] = "measure"
    /\ LocalGoto(n, "detect")
    /\ UNCHANGED <<redisVars, serverVars, slow, reported, reports, rankVars>>

(* report_profiling_result()                                               *)
SendPerf(n) ==
    /\ lpc[n] = "send"
    /\ perf' = [perf EXCEPT ![n] = ring[n]]
    /\ LocalGoto(n, "awaitTrim")
    /\ UNCHANGED <<control, failslow, serverVars, slow, reported, reports,
                   rankVars>>

(* llen("failslow_ranks") == 0                                             *)
AwaitTrim(n) ==
    /\ lpc[n] = "awaitTrim"
    /\ failslow = 0
    /\ LocalGoto(n, "clear")
    /\ UNCHANGED <<redisVars, serverVars, slow, reported, reports, rankVars>>

(* "wait until validation done"                                            *)
AwaitMonitor(n) ==
    /\ lpc[n] = "awaitMonitor"
    /\ control = STATE_MONITOR
    /\ LocalGoto(n, "clear")
    /\ UNCHANGED <<redisVars, serverVars, slow, reported, reports, rankVars>>

(* After ten seconds: clear(), and a new set of reported points            *)
ClearRing(n) ==
    /\ lpc[n] = "clear"
    /\ ring' = [ring EXCEPT ![n] = None]
    /\ reported' = [reported EXCEPT ![n] = FALSE]
    /\ LocalGoto(n, "detect")
    /\ UNCHANGED <<redisVars, serverVars, slow, reports, mode, paused>>

Local(n) ==
    \/ \E s \in BOOLEAN : Detect(n, s)
    \/ ReportFailslow(n) \/ ReadState(n)
    \/ Measure(n) \/ MeasureNothing(n) \/ MeasureRaises(n) \/ SendPerf(n)
    \/ AwaitTrim(n) \/ AwaitMonitor(n) \/ ClearRing(n)

-----------------------------------------------------------------------------
(* The ranks, as handle_control_signal() lets them see the server          *)

(* The value rank 0 broadcasts: control_state if it differs from the state *)
(* it is in, else the device cell, which the last pause loop left at 0     *)
Broadcast ==
    IF control # mode THEN control
    ELSE IF mode = STATE_VALIDATE THEN STATE_MONITOR ELSE mode

SyncMode ==
    /\ ~paused
    /\ Broadcast # mode
    /\ mode' = Broadcast
    /\ paused' = (Broadcast = STATE_VALIDATE)
    /\ UNCHANGED <<redisVars, serverVars, localVars, ring>>

(* The pause loop ends; *state stays STATE_VALIDATE until the next check   *)
Resume ==
    /\ paused
    /\ control # STATE_VALIDATE
    /\ paused' = FALSE
    /\ UNCHANGED <<redisVars, serverVars, localVars, mode, ring>>

(* Some iterations of the training: the records have durations unless the  *)
(* ranks are in STATE_MONITOR                                              *)
Train(n) ==
    LET new == IF mode # STATE_MONITOR THEN episode
               ELSE IF ring[n] = None THEN Untimed ELSE ring[n]
    IN /\ ~paused
       /\ new # ring[n]
       /\ ring' = [ring EXCEPT ![n] = new]
       /\ UNCHANGED <<redisVars, serverVars, localVars, mode, paused>>

-----------------------------------------------------------------------------
Next ==
    \/ Server
    \/ \E n \in Nodes : Local(n) \/ Train(n)
    \/ SyncMode \/ Resume

(* Every process is scheduled and the training goes on.  That the records  *)
(* ever show a period is not assumed: there is no fairness for Detect, and *)
(* none that prefers Measure to MeasureNothing and MeasureRaises.          *)
Fairness ==
    /\ WF_vars(Server) /\ WF_vars(SyncMode) /\ WF_vars(Resume)
    /\ \A n \in Nodes :
          WF_vars(Local(n) /\ lpc[n] # "detect") /\ WF_vars(Train(n))

Spec == Init /\ [][Next]_vars /\ Fairness

-----------------------------------------------------------------------------
TypeOK ==
    /\ control \in {STATE_MONITOR, STATE_PROFILE, STATE_VALIDATE}
    /\ failslow \in 0 .. MaxReports /\ reports \in 0 .. MaxReports
    /\ perf \in [Nodes -> {None} \cup 1 .. MaxReports]
    /\ seen \in [Nodes -> {None} \cup 1 .. MaxReports]
    /\ oldNum \in 0 .. Cardinality(Nodes)
    /\ spc \in {"watch", "poll", "delete", "pause", "validate", "resume",
                "mitigate"}
    /\ episode \in 0 .. MaxReports
    /\ lpc \in [Nodes -> {"detect", "report", "state", "measure", "send",
                          "awaitTrim", "awaitMonitor", "clear"}]
    /\ slow \in [Nodes -> BOOLEAN] /\ reported \in [Nodes -> BOOLEAN]
    /\ mode \in {STATE_MONITOR, STATE_PROFILE, STATE_VALIDATE}
    /\ paused \in BOOLEAN
    /\ ring \in [Nodes -> {None, Untimed} \cup 1 .. MaxReports]

(* handle_failslow() keeps the reports listed until its validation is      *)
(* over, which is what holds the local controllers in their wait: from     *)
(* set_profiling() to ltrim() the list is never empty.                     *)
ReportsStandUntilValidated ==
    spc \in {"poll", "delete", "pause", "validate"} => failslow > 0

(* The server polls for a profile, none is there, and a local controller   *)
(* waits for the server to trim the list of reports.                       *)
CrossWait ==
    /\ spc = "poll" /\ \A n \in Nodes : perf[n] = None
    /\ \E n \in Nodes : lpc[n] = "awaitTrim"

(* No local controller ever sends a profile: each of them is at the start  *)
(* of its loop again and again, as find_period() finds no period, or       *)
(* raises.                                                                 *)
NeverMeasured == \A n \in Nodes : []<>(lpc[n] = "detect")

(* handle_failslow() gets from profile mode back to monitoring with the    *)
(* profile of any one node.  It does not in two cases: no local controller *)
(* ever finds a period in its records, or one has measured nothing,        *)
(* whether before profile mode or in a PROFILE_PERIOD too short, and the   *)
(* server waits for its profile while it waits for the server's trim.      *)
ProfilingEndsOrCrossWait ==
    control = STATE_PROFILE ~>
        (control = STATE_MONITOR \/ []CrossWait \/ NeverMeasured)

(* "This should notify each local controller to proceed"                   *)
(* (local_controller.py:132): one that waits for the end of a validation   *)
(* goes back to its monitoring loop, but for that.                         *)
LocalProceeds ==
    \A n \in Nodes :
        lpc[n] \in {"awaitTrim", "awaitMonitor"} ~>
            (lpc[n] = "detect" \/ []CrossWait)
=============================================================================
