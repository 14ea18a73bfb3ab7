----------------------------- MODULE Validation -----------------------------
(***************************************************************************)
(* A validation episode of the control plane: the GlobalServer             *)
(* (control_plane/global_controller.py) pauses the training, hands every   *)
(* rank a computation test, then the edges of the rings a task at a time,  *)
(* collects the results and resumes; the ranks                             *)
(* (EventHandler of detector/event_handler.cpp) learn of the pause through *)
(* a broadcast on the world communicator, and poll redis for their task.   *)
(*                                                                         *)
(* Redis (external) executes one command at a time.  ncclBroadcast         *)
(* (external) is taken at its weakest: rank 0 only leaves a value for      *)
(* every other rank, up to Depth of them, and waits for nobody else.       *)
(* ncclSend and ncclRecv (external) of one communicator complete together. *)
(***************************************************************************)
EXTENDS TaskSplit

CONSTANTS
    WorldSize,    \* get_world_size()
    Rings,        \* ring 0 of every clique to validate, already in global
                  \* ranks (group2global); a clique that is skipped for its
                  \* tree of one rank is not among them
    Depth,        \* broadcasts that rank 0 may be ahead of another rank
    MaxEpisodes   \* bound: validation episodes in a behaviour

ASSUME ValidationAssumption ==
    /\ WorldSize \in Nat \ {0}
    /\ Depth \in Nat \ {0}
    /\ MaxEpisodes \in Nat
    /\ Rings \in Seq(Seq(0 .. WorldSize - 1))

(* A ring of NCCL has at least a rank, and each rank of its communicator   *)
(* once.                                                                   *)
ASSUME RingAssumption ==
    \A c \in DOMAIN Rings :
        /\ Rings[c] # << >>
        /\ \A i, j \in DOMAIN Rings[c] : Rings[c][i] = Rings[c][j] => i = j

Ranks == 0 .. WorldSize - 1
Root == 0

(* ControlState, and any other bit pattern of uninitialised device memory  *)
STATE_MONITOR == 0
STATE_PROFILE == 1
STATE_VALIDATE == 2
STATE_GARBAGE == 3

None == [role |-> "none"]      \* no such key
ACKED == [role |-> "acked"]    \* TASK_ACKED

VARIABLES
    control,   \* redis: control_state
    task,      \* redis: validtask_rank_<r>
    result,    \* redis: validtask_rank_<r>_result
    spc,       \* where the server is
    episode,   \* validation episodes begun
    clique,    \* clique under validation, 0 for the computation test
    step,      \* task of that clique
    idx,       \* SETs or ACKs of this task that are done
    results,   \* the server's results dictionary
    cur,       \* the rank whose result was read and is to be deleted
    round,     \* history: number of the task under way
    rpc,       \* where a rank is
    state,     \* g_status.state of a rank
    device,    \* the control_state cell on rank 0's device
    inbox,     \* broadcast values left for a rank
    fetched    \* task_content of a rank

serverVars == <<spc, episode, clique, step, idx, results, cur, round>>
redisVars == <<control, task, result>>
rankVars == <<rpc, state, device, inbox, fetched>>
vars == <<redisVars, serverVars, rankVars>>

-----------------------------------------------------------------------------
(* The rings still to come; "Skip single-element ring/trees"               *)
Ahead == {c \in DOMAIN Rings : c > clique /\ Len(Rings[c]) # 1}

(* The keys a task sets, in order: every rank in validate_computation(),   *)
(* the sender and then the receiver of every pair in dispatch_comm_task()  *)
ComputationWork ==
    [i \in 1 .. WorldSize |->
        [rank |-> i - 1, content |-> [role |-> "comp", round |-> round]]]

(* Variant: the receiver is told its own rank.                             *)
PairWorkWrongPeer(pairs) ==
    [k \in 1 .. 2 * Len(pairs) |->
        LET p == pairs[(k + 1) \div 2] IN
        [rank |-> IF k % 2 = 1 THEN p.sender ELSE p.recver,
         content |-> [role |-> IF k % 2 = 1 THEN "send" ELSE "recv",
                      peer |-> p.recver, comm |-> clique, round |-> round]]]

PairWork(pairs) ==
    [k \in 1 .. 2 * Len(pairs) |->
        LET p == pairs[(k + 1) \div 2] IN
        IF k % 2 = 1
        THEN [rank |-> p.sender,
              content |-> [role |-> "send", peer |-> p.recver,
                           comm |-> clique, round |-> round]]
        ELSE [rank |-> p.recver,
              content |-> [role |-> "recv", peer |-> p.sender,
                           comm |-> clique, round |-> round]]]

Work == IF clique = 0 THEN ComputationWork
        ELSE PairWork(split_ring(Rings[clique])[step])

Involved == {Work[i].rank : i \in DOMAIN Work}

-----------------------------------------------------------------------------
Init ==
    /\ control = STATE_MONITOR
    /\ task = [r \in Ranks |-> None]
    /\ result = [r \in Ranks |-> None]
    /\ spc = "idle"
    /\ episode = 0 /\ clique = 0 /\ step = 0 /\ idx = 0 /\ round = 0
    /\ results = [r \in Ranks |-> None]
    /\ cur = Root
    /\ rpc = [r \in Ranks |-> "train"]
    /\ state = [r \in Ranks |-> STATE_MONITOR]
    /\ device \in {STATE_MONITOR, STATE_PROFILE, STATE_VALIDATE, STATE_GARBAGE}
    /\ inbox = [r \in Ranks \ {Root} |-> << >>]
    /\ fetched = [r \in Ranks |-> None]

-----------------------------------------------------------------------------
(* The server                                                              *)

(* handle_failslow(): set_profiling(); the profile is awaited elsewhere    *)
SetProfiling ==
    /\ spc = "idle" /\ episode > 0 /\ episode < MaxEpisodes
    /\ control' = STATE_PROFILE
    /\ spc' = "profiling"
    /\ UNCHANGED <<task, result, episode, clique, step, idx, results, cur,
                   round, rankVars>>

BeginTask(c, s) ==
    /\ clique' = c /\ step' = s /\ idx' = 0
    /\ round' = round + 1
    /\ results' = [r \in Ranks |-> None]
    /\ spc' = "set"

(* pause_training(), in do_precheck() the first time, after the profile    *)
(* later on                                                                *)
PauseTraining ==
    /\ \/ spc = "idle" /\ episode = 0 /\ MaxEpisodes > 0
       \/ spc = "profiling"
    /\ control' = STATE_VALIDATE
    /\ episode' = episode + 1
    /\ BeginTask(0, 0)
    /\ UNCHANGED <<task, result, cur, rankVars>>

(* storage.set(validtask_rank_<r>, ...)                                    *)
SetTask ==
    /\ spc = "set"
    /\ idx < Len(Work)
    /\ task' = [task EXCEPT ![Work[idx + 1].rank] = Work[idx + 1].content]
    /\ IF idx + 1 = Len(Work) THEN spc' = "ack" /\ idx' = 0
                              ELSE idx' = idx + 1 /\ UNCHANGED spc
    /\ UNCHANGED <<control, result, episode, clique, step, results, cur,
                   round, rankVars>>

(* "wait until all ranks acked the task"                                   *)
AwaitAck ==
    /\ spc = "ack"
    /\ task[Work[idx + 1].rank] = ACKED
    /\ IF idx + 1 = Len(Work) THEN spc' = "collect" /\ idx' = 0
                              ELSE idx' = idx + 1 /\ UNCHANGED spc
    /\ UNCHANGED <<redisVars, episode, clique, step, results, cur, round,
                   rankVars>>

(* collect_comm_task_results(): a GET that found a result ...              *)
CollectGet(r) ==
    /\ spc = "collect"
    /\ r \in Involved /\ result[r] # None
    /\ results' = [results EXCEPT ![r] = result[r]]
    /\ cur' = r
    /\ spc' = "delete"
    /\ UNCHANGED <<redisVars, episode, clique, step, idx, round, rankVars>>

(* ... and the DELETE after it                                             *)
(* Variant: a result that was read is left in redis.                       *)
CollectDeleteForgotten ==
    /\ spc = "delete"
    /\ spc' = "collect"
    /\ UNCHANGED <<redisVars, episode, clique, step, idx, results, cur, round,
                   rankVars>>

CollectDelete ==
    /\ spc = "delete"
    /\ result' = [result EXCEPT ![cur] = None]
    /\ spc' = "collect"
    /\ UNCHANGED <<control, task, episode, clique, step, idx, results, cur,
                   round, rankVars>>

(* Variant: the first result is enough.                                    *)
CollectedOne == \E r \in Involved : results[r] # None

Collected == \A r \in Involved : results[r] # None

LastStep == step = IF clique = 0 THEN 0 ELSE Len(split_ring(Rings[clique]))

(* The loop of validate_ring() over the tasks of a ring, and the loop of   *)
(* handle_failslow() over the rings                                        *)
NextTask ==
    /\ spc = "collect" /\ Collected
    /\ IF LastStep THEN \E c \in Ahead : /\ \A d \in Ahead : c <= d
                                         /\ BeginTask(c, 1)
                   ELSE BeginTask(clique, step + 1)
    /\ UNCHANGED <<redisVars, episode, cur, rankVars>>

(* set_monitoring() at the end of do_precheck() and handle_failslow()      *)
SetMonitoring ==
    /\ spc = "collect" /\ Collected
    /\ LastStep /\ Ahead = {}
    /\ control' = STATE_MONITOR
    /\ spc' = "idle"
    /\ UNCHANGED <<task, result, episode, clique, step, idx, results, cur,
                   round, rankVars>>

Server ==
    \/ SetProfiling \/ PauseTraining \/ SetTask \/ AwaitAck
    \/ \E r \in Ranks : CollectGet(r)
    \/ CollectDelete \/ NextTask \/ SetMonitoring

-----------------------------------------------------------------------------
(* ncclBroadcast on the world communicator                                 *)
RootCanPost == \A r \in Ranks \ {Root} : Len(inbox[r]) < Depth

RootPosts(v) == inbox' = [r \in Ranks \ {Root} |-> Append(inbox[r], v)]

Received(r, v) == /\ inbox[r] # << >>
                  /\ v = Head(inbox[r])
                  /\ inbox' = [inbox EXCEPT ![r] = Tail(@)]

RankGoto(r, l) == rpc' = [rpc EXCEPT ![r] = l]

(* handle_control_signal(), called by every rank at the same points of the *)
(* training                                                                *)

(* rank 0 reads control_state, and copies it to the device if it differs   *)
(* from the state it is in                                                 *)
CheckSignal(r) ==
    /\ rpc[r] = "train"
    /\ device' = IF r = Root /\ control # state[Root] THEN control ELSE device
    /\ RankGoto(r, "check")
    /\ UNCHANGED <<redisVars, serverVars, state, inbox, fetched>>

(* the broadcast, and *state = sync_state                                  *)
SyncState(r, v) ==
    /\ rpc[r] = "check"
    /\ IF r = Root THEN v = device /\ RootCanPost /\ RootPosts(v)
                   ELSE Received(r, v)
    /\ state' = [state EXCEPT ![r] = v]
    /\ RankGoto(r, IF v = STATE_VALIDATE THEN "fetch" ELSE "train")
    /\ UNCHANGED <<redisVars, serverVars, device, fetched>>

(* fetech_and_exec_task(): GET, and return if there is nothing to do       *)
FetchTask(r) ==
    /\ rpc[r] = "fetch"
    /\ fetched' = [fetched EXCEPT ![r] = task[r]]
    /\ RankGoto(r, IF task[r] \in {None, ACKED} THEN "poll" ELSE "ack")
    /\ UNCHANGED <<redisVars, serverVars, state, device, inbox>>

(* SET TASK_ACKED                                                          *)
(* Variant: no acknowledgement.                                            *)
AckTaskForgotten(r) ==
    /\ rpc[r] = "ack"
    /\ RankGoto(r, IF fetched[r].role = "comp" THEN "reply" ELSE "p2p")
    /\ UNCHANGED <<redisVars, serverVars, state, device, inbox, fetched>>

AckTask(r) ==
    /\ rpc[r] = "ack"
    /\ task' = [task EXCEPT ![r] = ACKED]
    /\ RankGoto(r, IF fetched[r].role = "comp" THEN "reply" ELSE "p2p")
    /\ UNCHANGED <<control, result, serverVars, state, device, inbox, fetched>>

(* p2p_profile_task(): both ends are needed                                *)
Matches(s, r) ==
    /\ fetched[s].role = "send" /\ fetched[r].role = "recv"
    /\ fetched[s].peer = r /\ fetched[r].peer = s
    /\ fetched[s].comm = fetched[r].comm

SendRecv(s, r) ==
    /\ rpc[s] = "p2p" /\ rpc[r] = "p2p"
    /\ Matches(s, r)
    /\ rpc' = [rpc EXCEPT ![s] = "reply", ![r] = "reply"]
    /\ UNCHANGED <<redisVars, serverVars, state, device, inbox, fetched>>

(* SET ..._result, after perf_gemm() or the send/recv                      *)
ReplyResult(r) ==
    /\ rpc[r] = "reply"
    /\ result' = [result EXCEPT ![r] = fetched[r]]
    /\ RankGoto(r, "poll")
    /\ UNCHANGED <<control, task, serverVars, state, device, inbox, fetched>>

(* "check if we should continue": rank 0 reads control_state again         *)
PollPause(r) ==
    /\ rpc[r] = "poll"
    /\ device' = IF r = Root /\ control # STATE_VALIDATE THEN 0 ELSE device
    /\ RankGoto(r, "sync")
    /\ UNCHANGED <<redisVars, serverVars, state, inbox, fetched>>

(* the second broadcast; *state is not assigned here                       *)
SyncPause(r, v) ==
    /\ rpc[r] = "sync"
    /\ IF r = Root THEN v = device /\ RootCanPost /\ RootPosts(v)
                   ELSE Received(r, v)
    /\ RankGoto(r, IF v = 0 THEN "train" ELSE "fetch")
    /\ UNCHANGED <<redisVars, serverVars, state, device, fetched>>

Values == {STATE_MONITOR, STATE_PROFILE, STATE_VALIDATE, STATE_GARBAGE}

RankStep(r) ==
    \/ CheckSignal(r)
    \/ \E v \in Values : SyncState(r, v) \/ SyncPause(r, v)
    \/ FetchTask(r) \/ AckTask(r) \/ ReplyResult(r) \/ PollPause(r)

-----------------------------------------------------------------------------
Next ==
    \/ Server
    \/ \E r \in Ranks : RankStep(r)
    \/ \E s, r \in Ranks : SendRecv(s, r)

(* Every process is scheduled, the training goes on, and a send/recv whose *)
(* two ends are posted completes.                                          *)
Fairness ==
    /\ WF_vars(Server)
    /\ \A r \in Ranks : WF_vars(RankStep(r))
    /\ \A s, r \in Ranks : WF_vars(SendRecv(s, r))

Spec == Init /\ [][Next]_vars /\ Fairness

-----------------------------------------------------------------------------
IsTask(t) == t \notin {None, ACKED}

Contents ==
    [role : {"comp"}, round : Nat]
    \cup [role : {"send", "recv"}, peer : Ranks, comm : Nat, round : Nat]

TypeOK ==
    /\ control \in {STATE_MONITOR, STATE_PROFILE, STATE_VALIDATE}
    /\ \A r \in Ranks : IsTask(task[r]) => task[r] \in Contents
    /\ \A r \in Ranks : result[r] = None \/ result[r] \in Contents
    /\ \A r \in Ranks : results[r] = None \/ results[r] \in Contents
    /\ \A r \in Ranks : IsTask(fetched[r]) => fetched[r] \in Contents
    /\ spc \in {"idle", "profiling", "set", "ack", "collect", "delete"}
    /\ episode \in 0 .. MaxEpisodes /\ round \in Nat
    /\ clique \in 0 .. Len(Rings) /\ step \in 0 .. 3
    /\ idx \in Nat /\ cur \in Ranks
    /\ rpc \in [Ranks -> {"train", "check", "fetch", "ack", "p2p", "reply",
                          "poll", "sync"}]
    /\ state \in [Ranks -> Values] /\ device \in Values
    /\ \A r \in Ranks \ {Root} : /\ inbox[r] \in Seq(Values)
                                 /\ Len(inbox[r]) <= Depth

(* collect_comm_task_results() and validate_computation(): a result that   *)
(* the server files under a rank is the one of the task it gave that rank  *)
(* in this round, never one left over from an earlier round.               *)
ResultsBelongToTask ==
    \A r \in Ranks : results[r] # None =>
        \E i \in DOMAIN Work : Work[i] = [rank |-> r, content |-> results[r]]

(* fetech_and_exec_task() reads its key and acknowledges it in two         *)
(* commands: the TASK_ACKED it writes never erases a task it has not read. *)
AckErasesNothing ==
    \A r \in Ranks : rpc[r] = "ack" => task[r] = fetched[r]

(* A task that was handed out is taken by its rank before the key is used  *)
(* again: dispatch_comm_task() never overwrites it.                        *)
NoTaskOverwritten ==
    [][\A r \in Ranks :
          IsTask(task[r]) /\ task'[r] # task[r] => task'[r] = ACKED]_vars

(* p2p_profile_task(): two ranks of a pair that are both in a send/recv    *)
(* are in the same one, in opposite roles, so neither waits for a partner  *)
(* that waits for somebody else.                                           *)
PairsMatch ==
    \A s, r \in Ranks :
        /\ rpc[s] = "p2p" /\ rpc[r] = "p2p"
        /\ fetched[s].peer = r
        => Matches(s, r) \/ Matches(r, s)

(* set_monitoring() comes when nothing of the episode is left: no task to  *)
(* fetch, no result in redis, no rank inside a test.                       *)
NothingLeftAtResume ==
    spc \in {"idle", "profiling"} =>
        /\ \A r \in Ranks : ~IsTask(task[r]) /\ result[r] = None
        /\ \A r \in Ranks : rpc[r] \notin {"ack", "p2p", "reply"}

(* A rank inside the send/recv of its task whose partner waits in the      *)
(* broadcast of the pause loop: rank 0 for a place, another for a value.   *)
CrossWait ==
    \E s \in Ranks :
        /\ rpc[s] = "p2p"
        /\ LET r == fetched[s].peer
           IN rpc[r] = "sync" /\ IF r = Root THEN ~RootCanPost
                                             ELSE inbox[r] = << >>

(* global_controller.py:219 and :260: at its end an episode "resume[s] all *)
(* jobs to monitoring state", and handle_control_signal() returns on every *)
(* rank.  There is one way for it not to: a rank sits for ever in the      *)
(* send/recv of its task and its partner in the broadcast.                 *)
EpisodeEndsOrCrossWait ==
    control = STATE_VALIDATE ~>
        \/ /\ control = STATE_MONITOR
           /\ \A r \in Ranks : rpc[r] \in {"train", "check"}
        \/ []CrossWait
=============================================================================
