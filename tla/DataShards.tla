----------------------------- MODULE DataShards -----------------------------
(***************************************************************************)
(* Dynamic data sharding of the DLRover master: TaskManager over a         *)
(* BatchDatasetManager and a TableDatasetSplitter (dlrover/python/master/  *)
(* shard/), with the workers that fetch shards and report them, the        *)
(* callback that recovers the tasks of a dead worker, the thread that      *)
(* times out tasks of an EVALUATION dataset, and the checkpoint of the     *)
(* dataset.                                                                *)
(*                                                                         *)
(* get_dataset_task and report_dataset_task hold the manager's lock and    *)
(* are steps; what runs without it (finished() of the master's loop, the   *)
(* servicer's checkpoint, the restore, the scan of recover_tasks, the      *)
(* timeout thread) is split where another thread can come between.  The    *)
(* checkpoint of a behaviour is taken once; speed monitoring and the time  *)
(* stamps are left out.                                                    *)
(***************************************************************************)
EXTENDS Integers, Sequences, FiniteSets, Functions

CONSTANTS
    Workers,          \* node ids; a relaunched worker is a new one
    DatasetSize, ShardSize, MaxShardCount, NumEpochs,
    MaxTaskRetries,   \* _MAX_TASK_RETRIES
    MaxFaults         \* bound: failures, deaths, timeouts, lost answers and
                      \* restores, which follow the failure of a job

ASSUME ShardsAssumption ==
    /\ IsFiniteSet(Workers)
    /\ {DatasetSize, ShardSize, MaxShardCount, NumEpochs} \subseteq Nat \ {0}
    /\ {MaxTaskRetries, MaxFaults} \subseteq Nat

-----------------------------------------------------------------------------
(* TableDatasetSplitter, without the shuffle                               *)
CeilDiv(a, b) == (a + b - 1) \div b
ShardCount == CeilDiv(DatasetSize, ShardSize)

(* _split_epoch_for_huge_dataset(): passes over a part of the dataset      *)
Subepochs == IF ShardCount > MaxShardCount
             THEN CeilDiv(ShardCount, MaxShardCount) ELSE 1
Passes == NumEpochs * Subepochs

(* Variant: the records left over make no shard.                          *)
RangeWithoutRest(from, to) ==
    [i \in 1..(to - from) \div ShardSize |->
        <<from + (i - 1) * ShardSize, from + i * ShardSize>>]

(* _create_shards_with_range(): full shards, then the records left         *)
create_shards_with_range(from, to) ==
    [i \in 1..CeilDiv(to - from, ShardSize) |->
        <<from + (i - 1) * ShardSize,
          IF from + i * ShardSize > to THEN to ELSE from + i * ShardSize>>]

(* create_shards() when `pass` passes have been created                    *)
create_shards(pass) ==
    IF Subepochs = 1 THEN create_shards_with_range(0, DatasetSize)
    ELSE LET size == MaxShardCount * ShardSize
             from == (pass % Subepochs) * size
         IN  create_shards_with_range(from,
                IF from + size > DatasetSize THEN DatasetSize ELSE from + size)

-----------------------------------------------------------------------------
VARIABLES
    todo,      \* the tasks to hand out: [id, pass, shard, retry]
    doing,     \* id -> [task, node]
    pass,      \* splitter.epoch
    nextId,    \* _task_id
    dropped,   \* tasks given up after MaxTaskRetries
    consumed,  \* <<pass, shard>> reported done, as the restored model knows it
    has,       \* the tasks a worker knows it has
    reports,   \* results sent and not answered: [id, ok, again]
    processed, \* history: <<pass, shard>> some worker really got through
    dead,      \* workers that died
    faults,    \* faults so far, for the bound
    rec,       \* recover_tasks() of a dead worker
    snap,      \* a timed-out task and its worker, in the thread's copy of doing
    reading,   \* a checkpoint being read: how far, what it holds
    ckpt,      \* the checkpoint saved with the model
    restoring, \* how far a restore is, and what is still to be put into todo
    query,     \* how far the master's completed() is, and what it answered
    raced      \* history: a lock-free step was overtaken by another thread

datasetVars == <<todo, doing, pass, nextId, dropped, consumed>>
workerVars == <<has, reports, processed, dead>>
lockFree == <<rec, snap, reading, ckpt, restoring>>
vars == <<datasetVars, workerVars, lockFree, query, raced, faults>>

NotReading == [at |-> 0, todo |-> <<>>]
NoCkpt == [pass |-> 0, tasks |-> <<>>, consumed |-> {}, dropped |-> {},
           torn |-> FALSE]
NotRestoring == [at |-> "none", left |-> <<>>]
Idle == [at |-> "idle", size |-> 0, ids |-> {}]

Init ==
    /\ todo = <<>> /\ doing = [i \in {} |-> {}] /\ pass = 0 /\ nextId = 0
    /\ dropped = {} /\ consumed = {}
    /\ has = [w \in Workers |-> {}] /\ reports = {} /\ processed = {}
    /\ dead = {}
    /\ rec = [w \in Workers |-> Idle]
    /\ snap = <<>> /\ reading = NotReading /\ ckpt = NoCkpt
    /\ restoring = NotRestoring /\ query = "none" /\ raced = FALSE
    /\ faults = 0

Fault == faults < MaxFaults /\ faults' = faults + 1

Instance(task) == <<task.pass, task.shard>>
epoch_finished == pass >= Passes

(* A completed() that has read todo is overtaken when todo is filled or    *)
(* tasks are handed out before it reads doing                              *)
Overtakes ==
    query' = IF query = "asked" /\ <<todo, pass>>' # <<todo, pass>>
             THEN "overtaken" ELSE query

(* _create_todo_tasks()                                                    *)
Tasks(shards, p) ==
    [i \in DOMAIN shards |->
        [id |-> nextId + i - 1, pass |-> p, shard |-> shards[i], retry |-> 0]]

(* Whether the checkpoint's reader or the restore is being overtaken       *)
Overtaking == reading # NotReading \/ restoring # NotRestoring

(* doing[x] = v, and del doing[x]                                          *)
With(f, x, v) == [y \in DOMAIN f \cup {x} |-> IF y = x THEN v ELSE f[y]]
Without(f, x) == [y \in DOMAIN f \ {x} |-> f[y]]

-----------------------------------------------------------------------------
(* get_dataset_task(): the tasks of the next pass when todo has run out,   *)
(* then the first task.  The reply may be lost, and the client asks again. *)
GetTask(w) ==
    /\ w \notin dead
    /\ LET fresh == IF todo = <<>> /\ ~epoch_finished
                    THEN Tasks(create_shards(pass), pass) ELSE <<>>
           queue == todo \o fresh
       IN  /\ pass' = IF todo = <<>> /\ ~epoch_finished THEN pass + 1 ELSE pass
           /\ nextId' = nextId + Len(fresh)
           /\ \/ /\ queue = <<>>
                 /\ UNCHANGED <<todo, doing, has, faults>>
              \/ /\ queue # <<>>
                 /\ todo' = Tail(queue)
                 /\ doing' = With(doing, Head(queue).id,
                                  [task |-> Head(queue), node |-> w])
                 /\ \/ /\ has' = [has EXCEPT ![w] = @ \cup {Head(queue)}]
                       /\ UNCHANGED faults
                    \/ UNCHANGED has /\ Fault
    /\ raced' = (raced \/ Overtaking)
    /\ UNCHANGED <<dropped, consumed, reports, processed, dead, lockFree>>
    /\ Overtakes

(* _check_exceed_max_task_retries()                                        *)
ExceedsRetries(task) == task.retry + 1 > MaxTaskRetries

(* report_task_status(): by id alone, whoever has the task now             *)
report_task_status(id, ok) ==
    IF id \notin DOMAIN doing THEN UNCHANGED <<todo, doing, dropped, consumed>>
    ELSE LET task == doing[id].task
         IN  /\ doing' = Without(doing, id)
             /\ \/ /\ ok
                   /\ consumed' = consumed \cup {Instance(task)}
                   /\ UNCHANGED <<todo, dropped>>
                \/ /\ ~ok /\ ExceedsRetries(task)
                   /\ dropped' = dropped \cup {Instance(task)}
                   /\ UNCHANGED <<todo, consumed>>
                \/ /\ ~ok /\ ~ExceedsRetries(task)
                   /\ todo' = Append(todo, [task EXCEPT !.retry = @ + 1])
                   /\ UNCHANGED <<dropped, consumed>>

(* A worker is through with a shard, or failed on it, and reports          *)
SendReport(w, task, ok) ==
    /\ w \notin dead /\ task \in has[w]
    /\ has' = [has EXCEPT ![w] = @ \ {task}]
    /\ reports' = reports \cup {[id |-> task.id, ok |-> ok, again |-> TRUE]}
    /\ \/ ok /\ processed' = processed \cup {Instance(task)} /\ UNCHANGED faults
       \/ ~ok /\ UNCHANGED processed /\ Fault
    /\ UNCHANGED <<datasetVars, dead, lockFree, query, raced>>

(* report_dataset_task(), at any time after it was sent; when the answer   *)
(* is lost the client sends the result again                               *)
DeliverReport(m) ==
    /\ m \in reports
    /\ report_task_status(m.id, m.ok)
    /\ \/ reports' = reports \ {m} /\ UNCHANGED faults
       \/ /\ m.again /\ Fault
          /\ reports' = (reports \ {m}) \cup {[m EXCEPT !.again = FALSE]}
    /\ raced' = (raced \/ (Overtaking /\ m.id \in DOMAIN doing))
    /\ UNCHANGED <<pass, nextId, has, processed, dead, lockFree>>
    /\ Overtakes

Die(w) ==
    /\ w \notin dead /\ dead \cup {w} # Workers
    /\ Fault
    /\ dead' = dead \cup {w}
    /\ has' = [has EXCEPT ![w] = {}]
    /\ UNCHANGED <<datasetVars, reports, processed, lockFree, query, raced>>

-----------------------------------------------------------------------------
(* recover_tasks(), from the node event's callback, in a thread of its own *)
RecoverBegin(w) ==
    /\ w \in dead /\ rec[w] = Idle
    /\ rec' = [rec EXCEPT ![w] = [at |-> "scan",
                                  size |-> Cardinality(DOMAIN doing), ids |-> {}]]
    /\ UNCHANGED <<datasetVars, workerVars, snap, reading, ckpt, restoring, query, raced,
                   faults>>

(* Variant: one task of the dead worker.                                  *)
FirstIdOf(w) ==
    LET ids == {i \in DOMAIN doing : doing[i].node = w}
    IN  {i \in ids : \A j \in ids : i <= j}

RecoverIds(w) == {i \in DOMAIN doing : doing[i].node = w}

(* The iteration over doing, without the lock: a RuntimeError, which the   *)
(* callback's wrapper only logs, when doing has changed its size           *)
RecoverScan(w) ==
    /\ rec[w].at = "scan"
    /\ rec' = [rec EXCEPT ![w] =
                  IF Cardinality(DOMAIN doing) # @.size
                  THEN [@ EXCEPT !.at = "raised"]
                  ELSE [@ EXCEPT !.at = "report",
                                 !.ids = RecoverIds(w)]]
    /\ UNCHANGED <<datasetVars, workerVars, snap, reading, ckpt, restoring, query, raced,
                   faults>>

(* One report_dataset_task(id, False), with the lock                       *)
RecoverOne(w, id) ==
    /\ rec[w].at = "report" /\ id \in rec[w].ids
    /\ report_task_status(id, FALSE)
    /\ rec' = [rec EXCEPT ![w].ids = @ \ {id}]
    /\ raced' = (raced \/ (Overtaking /\ id \in DOMAIN doing))
    /\ UNCHANGED <<pass, nextId, workerVars, snap, reading, ckpt, restoring, faults>>
    /\ Overtakes

(* _check_and_reassign_timeout_tasks(): the thread finds in its copy of    *)
(* doing a task whose worker has started none for too long ...             *)
TimeoutFound(id) ==
    /\ snap = <<>> /\ id \in DOMAIN doing
    /\ doing[id].node \notin dead /\ dead \cup {doing[id].node} # Workers
    /\ Fault
    /\ snap' = <<id, doing[id].node>>
    /\ UNCHANGED <<datasetVars, workerVars, rec, reading, ckpt, restoring, query, raced>>

(* ... and reports it without the lock, wherever the task is by now; the   *)
(* callback remove_worker() deletes the worker, and the loop is left.      *)
TimeoutReport ==
    /\ snap # <<>>
    /\ report_task_status(snap[1], FALSE)
    /\ snap' = <<>>
    /\ dead' = dead \cup {snap[2]} /\ has' = [has EXCEPT ![snap[2]] = {}]
    /\ raced' = (raced \/ (Overtaking /\ snap[1] \in DOMAIN doing))
    /\ UNCHANGED <<pass, nextId, reports, processed, rec, reading, ckpt, restoring,
                   faults>>
    /\ Overtakes

-----------------------------------------------------------------------------
(* The servicer's _get_shard_checkpoint() calls dataset.checkpoint()       *)
(* without the lock: it walks todo by index, then doing.                   *)
CheckpointBegin ==
    /\ ckpt = NoCkpt /\ reading = NotReading /\ restoring = NotRestoring
    /\ pass > 0
    /\ reading' = [at |-> 1, todo |-> <<>>]
    /\ raced' = FALSE
    /\ UNCHANGED <<datasetVars, workerVars, rec, snap, ckpt, restoring, query, faults>>

CheckpointTodo ==
    /\ reading.at \in DOMAIN todo
    /\ reading' = [at |-> reading.at + 1,
                   todo |-> Append(reading.todo, todo[reading.at])]
    /\ UNCHANGED <<datasetVars, workerVars, rec, snap, ckpt, restoring, query, raced,
                   faults>>

(* Variant: the tasks being done are not saved.                           *)
TodoOnly == reading.todo

(* doing + todo, as restore_checkpoint() takes them, with the tasks being  *)
(* done in any order                                                       *)
CheckpointTasks ==
    LET n == Cardinality(DOMAIN doing)
        order == CHOOSE f \in Bijection(1..n, DOMAIN doing) : TRUE
    IN  [i \in 1..n |-> doing[order[i]].task] \o reading.todo

(* doing, and the record; the model is saved with it                       *)
CheckpointEnd ==
    /\ reading.at > Len(todo)
    /\ ckpt' = [pass |-> pass, tasks |-> CheckpointTasks,
                consumed |-> consumed, dropped |-> dropped, torn |-> raced]
    /\ reading' = NotReading /\ raced' = FALSE
    /\ UNCHANGED <<datasetVars, workerVars, rec, snap, restoring, query, faults>>

(* Variant: a restore numbers the tasks from 0 again.                     *)
RestartIds == 0
(* restore_checkpoint() goes on counting                                   *)
NextIdAtRestore == nextId

(* restore_dataset_from_checkpoint(), without the lock: the epoch, todo,   *)
(* doing, and then one task after the other.  The model is back where it   *)
(* was when the checkpoint was taken, and the workers have restarted.      *)
RestoreBegin ==
    /\ ckpt # NoCkpt /\ restoring = NotRestoring /\ reading = NotReading
    /\ Fault
    /\ pass' = ckpt.pass
    /\ restoring' = [at |-> "todo", left |-> ckpt.tasks]
    /\ consumed' = ckpt.consumed /\ dropped' = ckpt.dropped
    /\ nextId' = NextIdAtRestore
    /\ has' = [w \in Workers |-> {}]
    /\ raced' = ckpt.torn
    /\ query' = IF query = "asked" THEN "overtaken" ELSE "none"
    /\ UNCHANGED <<todo, doing, reports, processed, dead, rec, snap, reading,
                   ckpt>>

RestoreClear ==
    /\ \/ restoring.at = "todo" /\ todo' = <<>> /\ UNCHANGED doing
       \/ restoring.at = "doing" /\ doing' = [i \in {} |-> {}] /\ UNCHANGED todo
    /\ restoring' = [restoring EXCEPT !.at = IF @ = "todo" THEN "doing" ELSE "fill"]
    /\ UNCHANGED <<pass, nextId, dropped, consumed, workerVars, rec, snap,
                   reading, ckpt, raced, faults>>
    /\ Overtakes

RestoreOne ==
    /\ restoring.at = "fill" /\ restoring.left # <<>>
    /\ LET t == Head(restoring.left)
       IN  todo' = todo \o Tasks(<<t.shard>>, t.pass)
    /\ nextId' = nextId + 1
    /\ restoring' = [restoring EXCEPT !.left = Tail(@)]
    /\ UNCHANGED <<doing, pass, dropped, consumed, workerVars, rec, snap,
                   reading, ckpt, raced, faults>>
    /\ Overtakes

RestoreEnd ==
    /\ restoring.at = "fill" /\ restoring.left = <<>>
    /\ restoring' = NotRestoring
    /\ UNCHANGED <<datasetVars, workerVars, rec, snap, reading, ckpt,
                   query, raced, faults>>

-----------------------------------------------------------------------------
(* finished() of the master's loop calls completed() without the lock,     *)
(* which reads epoch_finished() and todo ...  A read in the middle of a    *)
(* get_task may see the last pass counted and not created, or the last     *)
(* task in neither list: it is taken as a read that get_task overtakes.    *)
CompletedTodo ==
    /\ query = "none"
    /\ \/ /\ epoch_finished /\ todo = <<>>
          /\ query' = IF restoring = NotRestoring THEN "asked" ELSE "overtaken"
       \/ /\ pass + 1 >= Passes /\ Len(todo) <= 1
          /\ query' = "overtaken"
    /\ UNCHANGED <<datasetVars, workerVars, lockFree, raced, faults>>

(* ... and then doing.  A TRUE ends the job, a FALSE is asked again; in a  *)
(* call that was overtaken the last task may be in neither of the two      *)
(* lists when it is looked for there, and TRUE is in doubt.                *)
CompletedDoing ==
    /\ \/ /\ query = "asked"
          /\ query' = IF DOMAIN doing = {} THEN "true" ELSE "none"
       \/ /\ query = "overtaken"
          /\ query' \in {"none", "doubtful"}
    /\ UNCHANGED <<datasetVars, workerVars, lockFree, raced, faults>>

-----------------------------------------------------------------------------
Ids == 0..(nextId - 1)
Recover(w) == RecoverBegin(w) \/ RecoverScan(w) \/ \E id \in Ids : RecoverOne(w, id)
Restore == RestoreClear \/ RestoreOne \/ RestoreEnd

Next ==
    \/ \E w \in Workers :
          \/ GetTask(w)
          \/ \E task \in has[w], ok \in BOOLEAN : SendReport(w, task, ok)
          \/ Die(w)
          \/ Recover(w)
    \/ \E m \in reports : DeliverReport(m)
    \/ (\E id \in Ids : TimeoutFound(id)) \/ TimeoutReport
    \/ CheckpointBegin \/ CheckpointTodo \/ CheckpointEnd
    \/ RestoreBegin \/ Restore
    \/ CompletedTodo \/ CompletedDoing

Spec == Init /\ [][Next]_vars

-----------------------------------------------------------------------------
Shards(p) == Range(create_shards(p))
Occurrences(x) ==
    Cardinality({i \in DOMAIN todo : Instance(todo[i]) = x})
    + Cardinality({i \in DOMAIN doing : Instance(doing[i].task) = x})
    + Cardinality({i \in DOMAIN restoring.left : Instance(restoring.left[i]) = x})
    + (IF x \in consumed THEN 1 ELSE 0) + (IF x \in dropped THEN 1 ELSE 0)

(* Through failures, late and repeated reports, deaths, timeouts and a     *)
(* restore, a shard of a pass that has begun is in one place: to be done,  *)
(* being done, counted, or given up; unless another thread overtook the    *)
(* lock-free reading or restoring of a checkpoint.                         *)
ShardInOnePlace ==
    ~raced /\ restoring.at \in {"none", "fill"} =>
        \A p \in 0..(pass - 1) : \A s \in Shards(p) : Occurrences(<<p, s>>) = 1

(* When the master's completed() has answered TRUE, every record was in a  *)
(* shard that was counted or given up, in every epoch, also with           *)
(* subepochs, although tasks were reported between its two reads; unless a *)
(* task was handed out or put back between them, which can hide the last   *)
(* task from both, or a restore was overtaken.                             *)
EveryRecordSeen ==
    ~raced /\ query = "true" =>
        \A e \in 0..(NumEpochs - 1), r \in 0..(DatasetSize - 1) :
            \E x \in consumed \cup dropped :
                /\ x[1] \div Subepochs = e
                /\ x[2][1] <= r /\ r < x[2][2]

(* What is counted was processed: a late report of a task from before a    *)
(* restore never completes another shard that was given its id.            *)
CountedWasProcessed == consumed \subseteq processed

(* Once recover_tasks() is through with a dead worker, no task is left     *)
(* with it, although tasks are fetched and reported between its scan and   *)
(* its reports.  (A scan hit by a concurrent change ends in an exception   *)
(* that is only logged, and its tasks stay in doing for good.)             *)
DeadWorkerRecovered ==
    \A w \in Workers :
        rec[w].at = "report" /\ rec[w].ids = {} =>
            \A i \in DOMAIN doing : doing[i].node # w
=============================================================================
