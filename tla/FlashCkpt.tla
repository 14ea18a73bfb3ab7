------------------------------ MODULE FlashCkpt ------------------------------
(***************************************************************************)
(* The flash checkpoint of DLRover: trainers copy their state into shared  *)
(* memory (engine.py, full_ckpt_engine.py), the agents' savers persist the *)
(* memory to the storage and rank 0's saver commits a step when every      *)
(* shard is done (ckpt_saver.py, CommonDirCheckpointSaver), and an agent   *)
(* saves the memory, frees its lock and restarts its workers when they     *)
(* failed, when a node joins and when a diagnosis asks for it              *)
(* (training.py); only in the first case are the trainers dead by then.    *)
(*                                                                         *)
(* One shard per agent, and the same agents in every world.  A state is    *)
(* named by its step: what a memory segment or a file holds is a step,     *)
(* Nothing, or Torn.  The saver's code runs in two threads of an agent:    *)
(* "loop" takes the events of the trainer, "bp" saves at a breakpoint; one *)
(* worker of an executor runs _save_shard for both.                        *)
(***************************************************************************)
EXTENDS Integers, Sequences, FiniteSets

CONSTANTS Agents,            \* the agents, one node and one shard each
          Zero,              \* the agent of rank 0
          MaxStep,           \* bound: training steps saved
          MaxSaves,          \* bound: saves the trainers attempt
          StorageSteps,      \* steps saved to storage; the others to memory
          SaveAtBreakpoint,  \* config.save_at_breakpoint
          MaxFaults          \* bound: failures, nodes that join, diagnoses

ASSUME CkptAssumption ==
    /\ IsFiniteSet(Agents) /\ Zero \in Agents
    /\ MaxStep \in Nat \ {0} /\ MaxSaves \in Nat /\ StorageSteps \subseteq 1 .. MaxStep
    /\ SaveAtBreakpoint \in BOOLEAN /\ MaxFaults \in Nat

VARIABLES
    trainer,    \* where each trainer is
    acquired,   \* acquired of save_state_dict_to_memory
    step,       \* the step each trainer is at
    fresh,      \* the trainer's process has not opened the memory yet
    loaded,     \* the step each trainer resumed from
    agent,      \* where each agent's _invoke_run is
    pending,    \* breakpoint saves submitted and not begun
    meta,       \* the checkpoint config in the shared metadata
    data,       \* what the shared memory holds
    lock,       \* who holds each shm lock
    queue,      \* _event_queue: steps to save
    saver,      \* the two saver threads of each agent
    latest,     \* _latest_step
    writing,    \* _writing_storage
    stop,       \* _stop_commit of rank 0's saver; nobody reads the others'
    doneDirs,   \* steps whose done directory exists
    doneFiles,  \* the done files, << step, agent >>
    files,      \* what the storage holds for each step and shard
    tracker,    \* the step in the tracker file
    synced,     \* _save_ckpt_nodes of the master
    saves,      \* saves attempted so far
    faults,     \* failures so far
    stolen,     \* history: a lock was released under a thread or a live trainer
    dirty,      \* history: a trainer was killed while it wrote the memory
    split       \* history: since the last start the sources of a state differ

shm == << meta, data >>
trainers == << trainer, acquired, step, fresh, loaded >>
agents == << agent, pending >>
savers == << saver, latest, writing, stop >>
storage == << doneDirs, doneFiles, files, tracker >>
history == << saves, faults, stolen, dirty, split >>
vars == << trainers, agents, shm, lock, queue, savers, storage, synced, history >>

Steps == 1 .. MaxStep
Nothing == 0
NotLoaded == -1
Torn == MaxStep + 1
Threads == {"loop", "bp"}
Idle == [pc |-> "idle", step |-> 0, source |-> Nothing]

Init ==
    /\ trainer = [n \in Agents |-> "load"]
    /\ acquired = [n \in Agents |-> FALSE]
    /\ step = [n \in Agents |-> 0]
    /\ fresh = [n \in Agents |-> TRUE]
    /\ loaded = [n \in Agents |-> NotLoaded]
    /\ agent = [n \in Agents |-> "monitor"]
    /\ pending = [n \in Agents |-> 0]
    /\ meta = [n \in Agents |-> [step |-> 0, writing |-> FALSE]]
    /\ data = [n \in Agents |-> Nothing]
    /\ lock = [n \in Agents |-> "free"]
    /\ queue = [n \in Agents |-> << >>]
    /\ saver = [n \in Agents |-> [t \in Threads |-> Idle]]
    /\ latest = [n \in Agents |-> 0]
    /\ writing = [n \in Agents |-> FALSE]
    /\ stop = FALSE
    /\ doneDirs = {} /\ doneFiles = {}
    /\ files = [s \in Steps |-> [n \in Agents |-> Nothing]]
    /\ tracker = 0
    /\ synced = [n \in Agents |-> 0]
    /\ saves = 0 /\ faults = 0 /\ stolen = FALSE /\ dirty = FALSE /\ split = FALSE

\* SharedLock.release: whoever holds the lock, it is free afterwards.
release(n, who) ==
    /\ lock' = [lock EXCEPT ![n] = "free"]
    /\ stolen' = (stolen \/ lock[n] \notin {"free", who})

-----------------------------------------------------------------------------
(* The trainers *)

At(n, from, to) == trainer[n] = from /\ trainer' = [trainer EXCEPT ![n] = to]

Live(n) == trainer[n] \notin {"dead", "closed"}

\* Variant: the ranks do not compare their steps.
StepsNotCompared == TRUE

\* verify_all_rank_step_consistent: the ranks gather the steps of their memory.
\* Nobody writes the memory before every rank has loaded.
SameSteps == \A m, n \in Agents : meta[m].step = meta[n].step

\* load: from the memory when the steps of all ranks agree and this rank's is
\* not empty and not being written; else this rank reads the tracker file.  To
\* load from the memory opens it.
InMemory(n) == SameSteps /\ meta[n].step > 0 /\ ~meta[n].writing

LoadedStep(n) == IF InMemory(n) THEN meta[n].step ELSE tracker

Load(n) ==
    /\ At(n, "load", "train")
    /\ loaded' = [loaded EXCEPT ![n] = LoadedStep(n)]
    /\ step' = [step EXCEPT ![n] = LoadedStep(n)]
    /\ fresh' = [fresh EXCEPT ![n] = ~InMemory(n)]
    /\ UNCHANGED << acquired, agents, shm, lock, queue, savers, storage, synced,
                    history >>

\* save_state_dict_to_memory up to the all_reduce: try to lock, not blocking.
TryAcquire(n) ==
    /\ At(n, "train", "asked")
    /\ step[n] < MaxStep /\ saves < MaxSaves
    /\ step' = [step EXCEPT ![n] = @ + 1]
    /\ acquired' = [acquired EXCEPT ![n] = (lock[n] = "free")]
    /\ lock' = [lock EXCEPT ![n] = IF @ = "free" THEN "trainer" ELSE @]
    /\ UNCHANGED << fresh, loaded, agents, shm, queue, savers, storage, synced,
                    history >>

\* check_all_rank_ready: every trainer writes, or none does.
AllReduce ==
    /\ \A n \in Agents : trainer[n] = "asked"
    /\ trainer' = [n \in Agents |-> IF \A m \in Agents : acquired[m]
                                    THEN "write" ELSE "skip"]
    /\ saves' = saves + 1
    /\ UNCHANGED << acquired, step, fresh, loaded, agents, shm, lock, queue,
                    savers, storage, synced, faults, stolen, dirty, split >>

\* Variant: the metadata are not marked.
Unmarked(n) ==
    [step |-> IF fresh[n] THEN step[n] ELSE meta[n].step, writing |-> FALSE]

\* save_state_dict: a process that has not opened the memory makes new
\* metadata, any other marks the old ones, with the old step.
BeingWritten(n) ==
    [step |-> IF fresh[n] THEN step[n] ELSE meta[n].step, writing |-> TRUE]

WriteStart(n) ==
    /\ At(n, "write", "copy")
    /\ meta' = [meta EXCEPT ![n] = BeingWritten(n)]
    /\ data' = [data EXCEPT ![n] = Torn]
    /\ UNCHANGED << acquired, step, fresh, loaded, agents, lock, queue, savers,
                    storage, synced, history >>

WriteEnd(n) ==
    /\ At(n, "copy", "unlock")
    /\ meta' = [meta EXCEPT ![n] = [step |-> step[n], writing |-> FALSE]]
    /\ data' = [data EXCEPT ![n] = step[n]]
    /\ fresh' = [fresh EXCEPT ![n] = FALSE]
    /\ UNCHANGED << acquired, step, loaded, agents, lock, queue, savers,
                    storage, synced, history >>

\* if acquired: self._shm_lock.release().  This ends save_to_memory.
Unlock(n) ==
    /\ IF step[n] \in StorageSteps
       THEN At(n, "unlock", "saved") \/ At(n, "skip", "skipped")
       ELSE At(n, "unlock", "train") \/ At(n, "skip", "train")
    /\ IF acquired[n] THEN release(n, "trainer") ELSE UNCHANGED << lock, stolen >>
    /\ acquired' = [acquired EXCEPT ![n] = FALSE]
    /\ UNCHANGED << step, fresh, loaded, agents, shm, queue, savers, storage,
                    synced, saves, faults, dirty, split >>

\* The rest of save_to_storage: the barrier, then, when the memory was written,
\* an event into a queue of one place.
Barrier ==
    /\ \A n \in Agents : trainer[n] \in {"saved", "skipped"}
    /\ trainer' = [n \in Agents |-> IF trainer[n] = "saved" THEN "put" ELSE "train"]
    /\ UNCHANGED << acquired, step, fresh, loaded, agents, shm, lock, queue,
                    savers, storage, synced, history >>

PutEvent(n) ==
    /\ At(n, "put", "train")
    /\ queue[n] = << >>
    /\ queue' = [queue EXCEPT ![n] = << step[n] >>]
    /\ UNCHANGED << acquired, step, fresh, loaded, agents, shm, lock, savers,
                    storage, synced, history >>

-----------------------------------------------------------------------------
(* Failures, and what the agents do about them *)

Fault == faults < MaxFaults /\ faults' = faults + 1

\* The process of a trainer ends: by a fault, because the collectives fail
\* when another's has ended, or because its agent signals or stops it.
Killed(n) ==
    /\ Live(n)
    /\ \/ Fault
       \/ /\ agent[n] # "monitor" \/ \E m \in Agents : ~Live(m)
          /\ UNCHANGED faults
    /\ trainer' = [trainer EXCEPT ![n] = IF acquired[n] THEN "dead" ELSE "closed"]
    /\ step' = [step EXCEPT ![n] = 0]
    /\ fresh' = [fresh EXCEPT ![n] = TRUE]
    /\ loaded' = [loaded EXCEPT ![n] = NotLoaded]
    /\ dirty' = (dirty \/ trainer[n] = "copy")
    /\ UNCHANGED << acquired, agents, shm, lock, queue, savers, storage, synced,
                    saves, stolen, split >>

\* The lock's server sees the end of the connection and, when the last acquire
\* on it was granted and not released, releases the lock.
ConnectionClosed(n) ==
    /\ At(n, "dead", "closed")
    /\ release(n, "trainer")
    /\ acquired' = [acquired EXCEPT ![n] = FALSE]
    /\ UNCHANGED << step, fresh, loaded, agents, shm, queue, savers, storage,
                    synced, saves, faults, dirty, split >>

\* _save_ckpt_to_storage of some agents submits the breakpoint save to their
\* executors; next comes _restart_workers.
SaveCkptToStorage(S) ==
    /\ agent' = [n \in Agents |-> IF n \in S THEN "restart" ELSE agent[n]]
    /\ pending' = [n \in Agents |-> IF n \in S /\ SaveAtBreakpoint
                                    THEN pending[n] + 1 ELSE pending[n]]
    /\ UNCHANGED << trainers, shm, lock, queue, savers, storage, synced, saves,
                    stolen, dirty, split >>

\* _invoke_run of an agent finds its workers failed, or another agent, which
\* has stopped its own, at the rendezvous.
WorkersFailed(n) ==
    /\ agent[n] = "monitor"
    /\ ~Live(n) \/ \E m \in Agents : agent[m] = "stop" /\ ~Live(m)
    /\ SaveCkptToStorage({n})
    /\ UNCHANGED faults

\* A node joins, and every agent finds it at the rendezvous.  They do so one
\* after the other, but an agent may take any time in "restart".
NodeJoins ==
    /\ Fault
    /\ SaveCkptToStorage({n \in Agents : agent[n] = "monitor"})

\* _restart_workers, which a diagnosis action calls too, without a save: reset
\* stops the commit and frees the lock, and only then the workers are stopped.
\* What a dead trainer held is not stolen from anybody.
Reset(n) ==
    /\ \/ agent[n] = "restart" /\ UNCHANGED faults
       \/ agent[n] = "monitor" /\ Fault
    /\ agent' = [agent EXCEPT ![n] = "stop"]
    /\ stop' = (stop \/ n = Zero)
    /\ release(n, IF Live(n) THEN "free" ELSE "trainer")
    /\ UNCHANGED << trainers, pending, shm, queue, saver, latest,
                    writing, storage, synced, saves, dirty, split >>

\* The rendezvous completes when all agents have stopped their workers, whose
\* connections are closed by then, and each starts new ones.
StartWorkers ==
    /\ \A n \in Agents : agent[n] = "stop" /\ trainer[n] = "closed"
    /\ trainer' = [n \in Agents |-> "load"]
    /\ agent' = [n \in Agents |-> "monitor"]
    /\ split' = \E m, n \in Agents : meta[m].writing # meta[n].writing
    /\ UNCHANGED << acquired, step, fresh, loaded, pending, shm, lock, queue, savers,
                    storage, synced, saves, faults, stolen, dirty >>

-----------------------------------------------------------------------------
(* The savers *)

Thread(n, t, from, to) ==
    /\ saver[n][t].pc = from
    /\ saver' = [saver EXCEPT ![n][t].pc = to]

Finish(n, t) == saver' = [saver EXCEPT ![n][t] = Idle]

\* The beginning of save_step_checkpoint: the step in the memory must be the
\* one to save.  In _dist_make_dir rank 0 makes the done directory anew; the
\* others wait for it, and go on without it after a timeout.
save_step_checkpoint(n, t, s) ==
    IF meta[n].step = s
    THEN /\ saver' = [saver EXCEPT ![n][t] =
                         [pc |-> IF n = Zero THEN "mkdir" ELSE "lock",
                          step |-> s, source |-> Nothing]]
         /\ writing' = [writing EXCEPT ![n] = TRUE]
    ELSE Finish(n, t) /\ UNCHANGED writing

\* _sync_shm_to_storage takes an event.
TakeEvent(n) ==
    /\ saver[n]["loop"] = Idle /\ queue[n] # << >>
    /\ save_step_checkpoint(n, "loop", Head(queue[n]))
    /\ queue' = [queue EXCEPT ![n] = Tail(@)]
    /\ UNCHANGED << trainers, agents, shm, lock, latest, stop, storage, synced,
                    history >>

\* save_shm_to_storage: the step in the memory, agreed with the other nodes
\* through the master's sync_ckpt_nodes.
Inspect(n) ==
    /\ saver[n]["bp"] = Idle /\ pending[n] > 0
    /\ pending' = [pending EXCEPT ![n] = @ - 1]
    /\ saver' = [saver EXCEPT ![n]["bp"] =
                    IF meta[n].step = 0 THEN Idle
                    ELSE [pc |-> "sync", step |-> meta[n].step, source |-> Nothing]]
    /\ UNCHANGED << trainers, agent, shm, lock, queue, latest, writing,
                    stop, storage, synced, history >>

Sync(n) ==
    LET s == saver[n]["bp"].step
    IN /\ saver[n]["bp"].pc = "sync"
       /\ synced' = [synced EXCEPT ![n] = s]
       /\ IF \A m \in Agents : synced'[m] = s
          THEN Thread(n, "bp", "sync", "guard") ELSE UNCHANGED saver
       /\ UNCHANGED << trainers, agents, shm, lock, queue, latest, writing,
                       stop, storage, history >>

SyncTimeout(n) ==
    /\ saver[n]["bp"].pc = "sync"
    /\ Finish(n, "bp")
    /\ stop' = (stop \/ n = Zero)
    /\ UNCHANGED << trainers, agents, shm, lock, queue, latest, writing,
                    storage, synced, history >>

\* Skip while the saver writes, while the lock is held, and what is saved.
Guard(n) ==
    /\ saver[n]["bp"].pc = "guard"
    /\ IF writing[n] \/ lock[n] # "free" \/ saver[n]["bp"].step <= latest[n]
       THEN Finish(n, "bp") /\ UNCHANGED writing
       ELSE save_step_checkpoint(n, "bp", saver[n]["bp"].step)
    /\ UNCHANGED << trainers, agents, shm, lock, queue, latest, stop, storage,
                    synced, history >>

MakeDir(n, t) ==
    LET s == saver[n][t].step
    IN /\ Thread(n, t, "mkdir", "lock")
       /\ doneDirs' = doneDirs \union {s}
       /\ doneFiles' = doneFiles \ ({s} \X Agents)
       /\ UNCHANGED << trainers, agents, shm, lock, queue, latest, writing,
                       stop, files, tracker, synced, history >>

\* Variant: the step is not compared under the lock.
NotCompared(n, t) == TRUE

\* _save_shard, one at a time, takes the lock and compares the steps again.
StepInMemory(n, t) == meta[n].step = saver[n][t].step

Acquire(n, t) ==
    /\ lock[n] = "free"
    /\ \A u \in Threads \ {t} :
          saver[n][u].pc \notin {"load", "persist", "done", "finally", "error"}
    /\ IF StepInMemory(n, t)
       THEN /\ Thread(n, t, "lock", "load")
            /\ lock' = [lock EXCEPT ![n] = t]
       ELSE Thread(n, t, "lock", "error") /\ UNCHANGED lock
    /\ UNCHANGED << trainers, agents, shm, queue, latest, writing, stop,
                    storage, synced, history >>

\* load_state_dict gives views of the memory, and nothing while it is written.
LoadMemory(n, t) ==
    /\ saver[n][t].pc = "load"
    /\ saver' = [saver EXCEPT ![n][t].pc = "persist",
                              ![n][t].source = IF meta[n].writing THEN Nothing
                                                                  ELSE data[n]]
    /\ UNCHANGED << trainers, agents, shm, lock, queue, latest, writing, stop,
                    storage, synced, history >>

\* The views are read while the file is written; then the first release.
Persist(n, t) ==
    LET s == saver[n][t].step
        source == saver[n][t].source
    IN /\ Thread(n, t, "persist", "done")
       /\ files' = IF source = Nothing THEN files
                   ELSE [files EXCEPT ![s][n] = IF data[n] = source THEN source ELSE Torn]
       /\ release(n, t)
       /\ UNCHANGED << trainers, agents, shm, queue, latest, writing, stop,
                       doneDirs, doneFiles, tracker, synced, saves, faults,
                       dirty, split >>

\* Writing the done file raises when its directory is missing.
WriteDone(n, t) ==
    LET s == saver[n][t].step
    IN /\ IF s \in doneDirs
          THEN /\ Thread(n, t, "done", "finally")
               /\ doneFiles' = doneFiles \union {<< s, n >>}
          ELSE Thread(n, t, "done", "error") /\ UNCHANGED doneFiles
       /\ UNCHANGED << trainers, agents, shm, lock, queue, latest, writing,
                       stop, doneDirs, files, tracker, synced, history >>

\* The second release, of the finally clause, and what follows it in
\* save_step_checkpoint.
Finally(n, t) ==
    /\ release(n, t)
    /\ \/ /\ saver[n][t].pc = "error"
          /\ Finish(n, t)
          /\ writing' = [writing EXCEPT ![n] = FALSE]
          /\ UNCHANGED << latest, stop >>
       \/ /\ saver[n][t].pc = "finally"
          /\ latest' = [latest EXCEPT ![n] = saver[n][t].step]
          /\ IF n = Zero
             THEN /\ Thread(n, t, "finally", "commit")
                  /\ stop' = FALSE
                  /\ UNCHANGED writing
             ELSE /\ Finish(n, t)
                  /\ writing' = [writing EXCEPT ![n] = FALSE]
                  /\ UNCHANGED stop
    /\ UNCHANGED << trainers, agents, shm, queue, storage, synced, saves,
                    faults, dirty, split >>

\* Some ranks have loaded since the last start and some have not.
PartlyLoaded ==
    /\ \E n \in Agents : trainer[n] = "load"
    /\ \E n \in Agents : loaded[n] # NotLoaded

AllDone(s) == \A n \in Agents : << s, n >> \in doneFiles

\* commit_checkpoint: stopped, complete, timed out, or raised by listdir, which
\* leaves _writing_storage as it is.
Commit(n, t) ==
    LET s == saver[n][t].step
    IN /\ saver[n][t].pc = "commit"
       /\ Finish(n, t)
       /\ \/ /\ stop
             /\ UNCHANGED storage
          \/ /\ ~stop /\ s \in doneDirs
             /\ tracker' = IF AllDone(s) THEN s ELSE tracker
             /\ doneDirs' = doneDirs \ {s}
             /\ doneFiles' = doneFiles \ ({s} \X Agents)
             /\ UNCHANGED files
          \/ /\ ~stop /\ s \notin doneDirs
             /\ UNCHANGED storage
       /\ writing' = [writing EXCEPT ![n] = IF ~stop /\ s \notin doneDirs
                                            THEN @ ELSE FALSE]
       /\ split' = (split \/ (tracker' # tracker /\ PartlyLoaded))
       /\ UNCHANGED << trainers, agents, shm, lock, queue, latest, stop, synced,
                       saves, faults, stolen, dirty >>

Save(n, t) ==
    \/ MakeDir(n, t) \/ Acquire(n, t) \/ LoadMemory(n, t)
    \/ Persist(n, t) \/ WriteDone(n, t) \/ Finally(n, t) \/ Commit(n, t)

Next ==
    \/ AllReduce \/ Barrier \/ NodeJoins \/ StartWorkers
    \/ \E n \in Agents :
         \/ Load(n) \/ TryAcquire(n) \/ WriteStart(n) \/ WriteEnd(n)
         \/ Unlock(n) \/ PutEvent(n)
         \/ Killed(n) \/ ConnectionClosed(n) \/ WorkersFailed(n) \/ Reset(n)
         \/ TakeEvent(n) \/ Inspect(n) \/ Sync(n) \/ SyncTimeout(n) \/ Guard(n)
         \/ \E t \in Threads : Save(n, t)

Spec == Init /\ [][Next]_vars

-----------------------------------------------------------------------------
(* Properties *)

\* The step in the tracker file has the state of that step in every shard's
\* file.
CommittedIsComplete ==
    tracker > 0 => \A n \in Agents : files[tracker][n] = tracker

\* What a trainer that died in a write left in the memory does not get into a
\* committed checkpoint, where no lock was released under a live holder: "The
\* training process does not release the lock because it fails when writing
\* the state dict into the shared memory.  The shared memory may be dirty and
\* the saver cannot save it to the storage" (ckpt_saver.py:835-837).
DirtyIsNotSaved == stolen \/ CommittedIsComplete

\* A committed checkpoint is incomplete only after a lock was released under
\* a thread or a live trainer that held it (the second release of _save_shard,
\* the reset of a restart, the late end of a dead trainer's connection), or a
\* trainer was killed while it wrote: event queue, step checks and done files
\* let no other order of saves, skips, commits and restarts through.
CompleteUnlessUnlocked == stolen \/ dirty \/ CommittedIsComplete

\* The trainers of a world resume from the same step, unless the mark of a
\* write cut short stood in some memories and not in others when they were
\* started, or a saver moved the tracker after some had loaded and before
\* others did: load() compares steps, but neither marks nor trackers.
ResumeTogether ==
    split \/ \A m, n \in Agents :
                NotLoaded \in {loaded[m], loaded[n]} \/ loaded[m] = loaded[n]

\* Memory that is not marked as being written holds the step it names, even
\* where locks were stolen and trainers killed.
FlagGuardsMemory ==
    \A n \in Agents : ~meta[n].writing => data[n] = meta[n].step
=============================================================================
