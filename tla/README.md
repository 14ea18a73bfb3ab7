# A verification project for two fail-slow detectors and the trainer around them

The repository holds two ports of fail-slow and hang detectors for large
training jobs to MetaX accelerators.  `greyhound-metax/detector` is a probe library
in every training process, a shared-memory ring per node, a local controller per
node, one global controller, and redis between them.  `xputimer-metax` is a hook of
its own (`metax_probe`) that times kernels, beside the tree of DLRover, whose master
and agents run the job: they shard the data, form the world of each training round,
and keep checkpoints in memory.  Megatron-LM and the CUDA version of xpu_timer are
vendored.

This directory models, in TLA+: how intercepted calls become records, how records
reach the ring and are read without its lock, how a job is paused, tested link by
link and resumed, how local and global controllers go through the cycle of a
fail-slow event; how the hook times launches and reports hangs; and of DLRover the
dynamic data sharding, the training rendezvous and the flash checkpoint.

Paths below are relative to `src/greyhound-metax/` or, in the parts on DLRover and
the hook, to `src/xputimer-metax/`, unless they begin with `src/`.

## 1. Inventory

### Record ring: `detector/shm_storage.{hpp,cpp}`, `NcclRecord` in `control_plane/local_analyzer.py`

*State.*  A segment `ncclRecord`: `addr[0..6]` = fields per record, capacity,
count, head, tail, magic word, event counter; then the records.  An interprocess
mutex `recordLock` in a segment of its own.
*Operations.*  `addRecord` (lock, `loadMeta`, stamp the last field with the event
counter, `memcpy` into slot `tail`, advance, `updateMeta`, unlock), by every probe
process of the node; `NcclRecord.clear()` (three stores, no lock), by the local
controller; the constructors; the readers `NcclRecord.__getitem__` and
`read_shm_records`, neither of which locks.
*Hard.*  Everything that does not take the lock: `clear()` in the middle of a
push, a reader in the middle of one, the wrap-around at exactly full.
*Correct when.*  Between operations the ring is the newest records in order; a
push never leaves the metadata out of range; event ids never repeat; a cleared
record stays cleared.

### Snapshot reader: `read_shm_records` in `metax_eval/detect_runner.py`

*State.*  The locals of a retry loop: `event_before`, count, head, the copy.
*Operations.*  Read the event counter, the count and the head, copy slot by slot,
read the counter again, keep the copy or retry, up to ten times.
*Hard.*  One counter has to witness a multi-word copy.
*Correct when.*  An accepted copy is one state of the ring; it gives up only
beside a busy writer; it ends.

### Probe: `detector/ncclprobe.cpp`, `global_status.{hpp,cpp}`

*State.*  `g_status`: group nesting, buffered records of a group, the record that
repeated calls are accumulated in, the control state, timing events, the
communicators it knows.
*Operations.*  Every intercepted collective, `GroupStart`, `GroupEnd`, `CommInitRank`.
*Hard.*  An early return between the two ends of a group that leaves the group open;
accumulation that flushes when the kind of call changes; one start event and one
`comm_in_group` for any nesting.
*Correct when.*  The ring gets the calls in their order and at most once, nothing is
dropped but the calls of a group left open, a duration is the one of the call it is
written to.

### Validation of a paused job: `GlobalServer` in `control_plane/global_controller.py`, `detector/event_handler.{hpp,cpp}`

*State.*  Redis keys `control_state`, `validtask_rank_<r>`,
`validtask_rank_<r>_result`; on each rank `g_status.state`; on rank 0 a device
cell that is broadcast.
*Operations.*  Server: pause, hand out tasks, wait for acknowledgements, collect
and delete results, resume.  Ranks: `handle_control_signal`,
`fetech_and_exec_task`, `p2p_profile_task`.
*Interaction.*  Server and ranks only through redis, polled; ranks among each
other through a broadcast on the world communicator and send/receive pairs.
*Hard.*  Read-then-write in two redis commands on both sides under keys that each
task reuses; a blocking broadcast alternating with a blocking pair test.
*Correct when.*  No task is lost or overwritten, no result is filed under another
task, the ends of a pair agree, nothing is left over, the pause ends.

### Ring splitting: `control_plane/task_split.py`

A pure function.  Correct when every directed edge of the ring is tested once and
no rank occurs twice in a task.

### Fail-slow cycle: `local_controller.py`, `global_controller.py`, `wait_and_build_performance_map` in `global_analyzer.py`

*State.*  Redis: `control_state`, the list `failslow_ranks`, the `Perf_` keys.
*Operations.*  Local: detect, report, wait for `PROFILE_PERIOD`, send the profile,
wait for the list to be emptied or for monitoring, clear the ring.  Server: profile
mode, collect profiles until their number stands still, pause, validate, trim the
list, resume, mitigate.
*Hard.*  Two parties that wait for each other through a list and a set of keys
that neither owns; phases that are told apart by sleeps.
*Correct when.*  Profile mode always ends, local controllers always go on, and a
profile is of the episode that uses it.

### XPUTimer hook: `xpu_timer/metax_probe/xpu_timer_metax_hook.cc`

*State.*  Per thread the active collective; under two mutexes a pool of event pairs
and a work queue; the poller's local lists; the metrics.
*Operations.*  `mcLaunchKernel` (acquire a pair, record, launch, record, enqueue), the
collectives (`COLL_META`), `poll_loop`/`drain_once`, `stop`.
*Hard.*  Pairs pass from threads to poller to pool and back; collectives nest; `stop`
races with launches.
*Correct when.*  A pair is in one place; a launch is timed by its own events and
charged to its own collective; finished launches are folded, hanging ones reported,
once; the final flush misses nothing that was there.

### Data sharding: `dlrover/python/master/shard/`, `elastic_agent/sharding/client.py`

*State.*  `todo`, `doing`, the epoch, the task counter; with the workers, the tasks
they have and the results under way.
*Operations.*  `get_task`, `report_task_status`, `recover_tasks` for a dead worker, the
timeout thread, `checkpoint`, `restore_checkpoint`.
*Hard.*  Half of these do not take the manager's lock; results are matched by task id
alone; replies are lost and repeated.
*Correct when.*  A shard is in one place, every record is seen or its shard dropped
after the retries, a shard counted as done was processed, a dead worker's tasks come
back.

### Training rendezvous: `master/elastic_training/rdzv_manager.py`, `elastic_agent/torch/training.py`

*State.*  Master: waiting nodes, nodes of the standing round, of the latest round, the
round number, the time of the last join.  Agents: where they are between join and
running workers.
*Operations.*  Join, poll, membership check; timeouts of joining and of waiting for
the group's address; restart, exit, relaunch.
*Hard.*  Any join dissolves the standing round, fetched or not; nodes crash at any
point; rounding to node units.
*Correct when.*  One world per round number; no waiting node is lost; rounds are made
of whole units; never two complete worlds.

### Flash checkpoint: `elastic_agent/torch/ckpt_saver.py`, `common/multi_process.py`, `dlrover/trainer/torch/flash_checkpoint/`

*State.*  Per agent a memory segment with its metadata, a lock served over a socket, an
event queue, a saver with two threads; on storage the shard files, the done files and
the tracker.
*Operations.*  Save to memory (all ranks or none), persist, commit, breakpoint save,
restart, resume from memory or storage.
*Hard.*  A lock that anybody may release, that is released twice, that its server
releases for a dead client and a restart for a live one; steps compared at several
moments; ranks that load apart while a saver commits; a crash anywhere.
*Correct when.*  A committed step is complete; all ranks resume from the same step;
memory not marked as being written is whole.

### The rest

| Part | Where | Status |
|---|---|---|
| Communicator parsing, topology cache | `comm.cpp`, `shm_topo.cpp`, `communicator.py` | not modelled: layout reading and serialisation |
| Cliques, topology, rings | `global_analyzer.py`, `global_topo.py` | not modelled: pure functions over traces; their result is a constant of `Validation` |
| Period and change-point detection | `slow_detection.py` | out of reach: floating-point statistics; a free choice in `FailslowCycle` |
| Mitigation plan and planners | `mitigation_plan.py`, `dp_planner.py`, `pp_planner.py` | not modelled: cost models and a convex solver; a step of any length in `FailslowCycle` |
| Other parts of DLRover | node life cycle, scaling, diagnosis, schedulers, network check | not modelled; see section 6 |
| Fault injection, Megatron-LM, upstream xpu_timer | | experiment drivers and vendored code |

`PROJECT.json` lists the hazards at their lines, also those that no property covers.

## 2. Modules

| Module | What it is | Source |
|---|---|---|
| `RecordRing` | the ring, its writers and `clear()` | `shm_storage.cpp`, `local_analyzer.py` |
| `RingSnapshot` | extends `RecordRing` by the snapshot reader | `detect_runner.py` |
| `TaskSplit` | `split_ring` and its reference definition | `task_split.py` |
| `Validation` | extends `TaskSplit`: server, redis and ranks | `global_controller.py`, `event_handler.cpp` |
| `FailslowCycle` | reports, profile mode, profiles, trimming | `local_controller.py`, `global_controller.py`, `global_analyzer.py` |
| `CallLog` | abstract: calls are published in order, at most once | |
| `NcclProbe` | the probe of one rank; implements `CallLog` | `ncclprobe.cpp`, `global_status.cpp` |
| `TimerHook` | threads, pool, queue, poller, GPU | `xpu_timer_metax_hook.cc` |
| `DataShards` | master, workers, dead workers, checkpoint | `master/shard/`, `sharding/client.py` |
| `Rendezvous` | manager and agents | `rdzv_manager.py`, `training.py` |
| `FlashCkpt` | trainers, memory, locks, savers, storage | `ckpt_saver.py`, `multi_process.py`, `engine.py` |
| `MC*` | constants and symmetry for TLC; `MCTaskSplit` hands out the tasks of a ring | |
| `RecordRingProofs` | proofs about `RecordRing` and `RingSnapshot` | |
| `ValidationProofs` | proofs about `TaskSplit` (in `MCTaskSplit`) and `Validation` | |
| `FailslowCycleProofs`, `NcclProbeProofs`, `TimerHookProofs`, `DataShardsProofs`, `RendezvousProofs`, `FlashCkptProofs` | proofs about the module they are named after | |

Definitions called "Variant" are plausible mistakes in the definition that
follows them.  No specification uses one; replacing the definition by its variant
makes TLC report the property that guards against it.

### RecordRing

`numRecords`, `head`, `tail`, `eventID` are `addr[2]`, `[3]`, `[4]`, `[6]`.  A
record is its payload (`slotCall`) and its last field, the event id (`slotId`).
`loc[w]` is the set of members a writer loaded into its `RecordBuffer`.

Every load and store of a cell is one action, because two parties look at the
cells without the lock: `Lock`, `LoadNum`, `LoadHead`, `LoadTail`, then `CopyCall`
and `CopyId` in either order (a `memcpy` promises none), `PutNum`, `PutHead`,
`PutTail`, `PutEventID`, `Unlock`.  `ClearNum`, `ClearHead`, `ClearTail` are the
stores of `clear()`.  The load of `addr[6]` is merged with the one of `addr[4]`:
only lock holders store it.  Stores of one process are taken to become visible in
program order, which x86-64 gives; the code has no fences of its own.

`log`, `clearedAt`, `overlap` and `raced` are history variables: they record what
was pushed and which clears overlapped a push, and no guard reads them.  `raced`
is forgotten when a later `clear()` runs without overlap, since that one resets
all three cells.

The constructors are not modelled: the initial state is the segment after
`updateMeta(true)`.

### RingSnapshot

Each read of a cell is an action (`ReadEventBefore`, `ReadNum`, `ReadHead`,
`CompareEvent`); `CopyRecord` takes one record at a time.  A record the reader
copies while the writer's `memcpy` is half done shows up torn, since the two halves
are separate steps of the writer.

### TaskSplit

Python slices are `EverySecond(ring, first, last)`; `zip` is `Zip`, as short as the
shorter list.  `RingEdges` is the reference.  `MCTaskSplit` starts with any ring and
hands out its tasks one by one, as `validate_ring` does.

### Validation

Every redis command is an action.  A task is a record with its role, partner,
communicator and `round`, the number of the task; `round` stands for what makes
the result of one task different from another's, and no guard looks at it.
`results` is the dictionary the server fills.

`CheckSignal` is the part of `handle_control_signal` in front of the first
broadcast, `SyncState` the broadcast with `*state = sync_state`; `FetchTask`,
`AckTask`, `SendRecv`, `ReplyResult` are `fetech_and_exec_task`; `PollPause` and
`SyncPause` are the end of a turn of the pause loop.  `device` starts with any
value, since `cudaMalloc` does not initialise it.

External: redis runs one command at a time.  A broadcast is taken at its weakest,
rank 0 being at most `Depth` broadcasts ahead of a rank that has not arrived; a
stronger, barrier-like broadcast allows only a subset of these interleavings of
arrivals.  A send and its receive complete together.

The rings of the cliques are a constant: how they are built is not modelled.  They are
given in global ranks, so the step from group ranks through `group2global` has no
counterpart in the actions, and a clique that is skipped because `topo.trees[0]` has one
rank is left out of the constant; a ring of one rank is in it and skipped.

### FailslowCycle

The server's actions follow `run()` and `handle_failslow()`; `PollPerf` is one
pass of `wait_and_build_performance_map`.  The validation is one step
(`ValidateAndTrim`), because `Validation` is about its inside.  What a node's ring
contributes is whether it has records and which profile mode timed the newest of
them.  What the statistics find is a free choice: `Detect(n, s)` for both `s`,
`MeasureRaises` and `MeasureNothing` at any time, for `PROFILE_PERIOD` may pass outside
profile mode or hold too few iterations for a result.

One fact of the code is about durations and appears as a guard: the server sleeps
five seconds in monitoring state while local controllers poll each second
(`SetProfiling`).

### NcclProbe and CallLog

A call is its number, a duration the pair of calls whose events it was measured
between, so that a duration can be held against the call it is written to.  `Call` is
an intercepted collective, with `add_timing_event` in front of the real call and
`log_event` behind it; `GroupEnd` is split into its early return
(`GroupEndCompressed`) and the rest (`GroupEndFull`).  `opening`, `depth`, `created` and
`ready` are the application's; `stranded` and `skipped` are history: calls whose group
was left open or reopened, communicators that `comm_in_group` could not keep.

`CallLog` has the calls pending and published.  A step publishes some of the oldest
pending calls in order, or loses calls that are stranded.  The mapping takes for
`pending` the calls of the buffered records and of the accumulation, for `logged` those
of the written records.  So compression, buffering and mode switches never reorder or
duplicate calls, and each loss is accounted for by the early return or a nested
`GroupStart`.

### TimerHook

`Acquire`, `RecordStop` and `Enqueue` are the parts of `mcLaunchKernel` between which
the poller or another thread can run; `Swap`, `Examine` and `PushBack` those of
`drain_once`, one step per object.  An event is known by the launch it was last recorded
for.  External: a launch finishes at any time after its stop event was recorded, and the
hang timeout of an unfinished one may pass (`Finish`, `Overdue`).

### DataShards

`GetTask` and `report_task_status` under the lock are steps.  The rest is cut where the
code has no lock: `checkpoint` reads `todo` element by element and then `doing`, in any order;
`restore_checkpoint` replaces the epoch, `todo`, `doing` and then appends task by task;
`recover_tasks` takes the size of `doing` and raises if it changed during the scan; the
timeout thread acts on a copy; `completed()`, which ends the job, reads `todo` and then
`doing` (`CompletedTodo`, `CompletedDoing`), and a call between whose reads a task was
handed out or put back is `overtaken`, its TRUE `doubtful`.  A read that falls between the
two halves of a locked operation (a task is popped from one list and not yet in the
other) counts as overtaken by it.  One checkpoint is taken in a behaviour.  `raced` is history: a step of that kind was overtaken by
another thread.  What is stated about checkpoints holds unless it was; the races
themselves are listed as hazards.

### Rendezvous

A call of an agent is a step of the manager, which is under its lock.  Time is one
bit, `quiet`: `waiting_timeout` has passed since the last join.  `reported` are the
nodes whose `FAILED_EXITED` the master has noted; `taken` is history: a round took the
node and it has not joined since.  The world's address in the key-value store is the set
`published`.  `NodeExited` is the master's processing of an exit, with or without a new
node of the same rank.

### FlashCkpt

A state is named by its step; memory and files hold a step, nothing, or something torn.
`lock[n]` names its holder, and `release` frees it whoever that is, noting in `stolen`
that a thread or a live trainer still held it.  The saver's code runs in two threads,
for events and for the save at a breakpoint; each of `_save_shard`'s lock, comparison,
load, persist, first release, done file and second release is a step, and the
executor's one worker runs one `_save_shard` at a time.  `dirty` is history: a trainer
was killed inside `save_state_dict`.  The agent of rank 0 commits.

`agent[n]` is where the agent's loop is.  Workers that failed (`WorkersFailed`) or a node
that joins (`NodeJoins`) make it submit the breakpoint save, which the executor begins
later (`pending`, `Inspect`); then `_restart_workers` resets the saver and frees the lock
(`Reset`), and only then are the workers stopped.  So the trainers are dead by the reset
only where their failure was the cause; where a node joins, or a diagnosis restarts the
workers, a trainer may be anywhere in a save, and goes on until it is killed.
`StartWorkers` is the completed rendezvous.  Each new trainer then loads in its own time
(`Load`): from its memory if the gathered steps agree and its own is not marked, which
also opens the memory, so that the next save marks the metadata of the old step; or
from the tracker file as it is at that moment.  `split` is history: the memories were
not marked alike when the trainers started, or a commit moved the tracker between two
loads.  `save_to_memory` ends with the release; `save_to_storage` goes on with a barrier
and an event in a queue of one place.

Assumed: one shard per agent, as many shards as agents, the same agents in every world;
the server has seen the end of an old connection before the new workers run.

## 3. Runs

| Run | Instance | Distinct states | Result |
|---|---|---|---|
| `RingWithClear` | 2 writers, 2 calls, capacity 2, 4 records | 173,613 | passes |
| `Snapshot` | 1 writer, capacity 3, 5 records, 2 attempts | 568,578 | passes |
| `SnapshotMixed` | the same | | `SnapshotNeverMixed` fails |
| `Probe` | 3 calls, 2 communicators, groups 2 deep | 321,350 | passes |
| `TaskSplit` | all rings of 2 to 6 of 6 ranks | 6,690 | passes |
| `ValidationSafety` | 3 ranks, rings of 3, 1 and 2 ranks, 2 episodes | 278,763 | passes |
| `Cycle` | 2 nodes, 2 reports, mitigation of any length | 201,806 | passes |
| `TimerHook` | 2 threads, 2 launches, collectives 2 deep | 180,730 | passes |
| `DataShards` | 2 workers, 3 records in shards of 2, 2 passes, 2 faults | 2.97 million | passes |
| `Rendezvous` | 3 nodes, two configurations, 2 rounds, 1 fault | 802,007 | passes |
| `FlashCkpt` | 2 agents, 2 steps (the second to storage), 3 saves, 1 failure, join or diagnosis | 3.34 million | passes |
| `FlashDirty` | the same | | `DirtyIsNotSaved` fails |

**Bounds.**  A ring of capacity 2 with 4 records wraps twice; 3 with 5 wraps with
a slot that is neither the oldest nor the newest.  Two writers are enough for a
waiter and a holder.  Two payloads tell a torn record from a whole one.  Two
attempts are a first and a last one.  Three calls are a compressed one, the one that
ends its accumulation, and one of a later group.  Rings of 2, of even and of odd length
are the branches of `split_ring`; a ring of 3 and one of 2 give three tasks, two
tasks, ranks left out of a task, and keys reused between cliques; the ring of one rank
between them is the one `validate_ring` skips.  A second
episode starts from what the first left in redis, in `state` and in the device cell.
Two nodes and two reports give both a report in the middle of another's episode
and a second episode.  Two launches are a first use and a reuse of an event pair, or two
pairs at once.  Three records in shards of two make a full and a short shard in two
passes over the dataset; two faults allow a lost reply after a death, or a failure
beyond the retries.  Three nodes in units of one or two make a node that is left over, a
member that has not polled, and a round without somebody.  Two steps, the second to
storage, and three saves around one failure are an old step in memory while a new one is
written, a commit while a rank resumes, and a save after the resume.  Symmetry (writers and calls,
workers, communicators) is used only where no liveness is checked.

**Fairness.**  `RingSnapshot`: a process inside `addRecord` or `read_shm_records`
goes on; none is obliged to begin.  `ReadTerminates` is not owed to the bound on
records: a retry is counted by `attempt`, and the property fails as soon as
retries are not counted.  `Validation`: the server and each rank
take steps they can take, and a send and receive both posted complete; the training
goes on calling `handle_control_signal`.  `FailslowCycle`: the same for server, local
controllers and ranks, and nothing about the data: a local controller need never leave
`detect`, nor `find_period` ever succeed, and what follows from that is a disjunct of
the property (`NeverMeasured`).
`TimerHook`: the poller's loop and a launch that has begun go on; nothing is assumed of
the application, of the GPU, or that the process ends.  The other specifications state
safety only.

**Deadlock** is checked in the runs of the ring.  The other systems may stop: with the
last task or the last launch the bounds allow, with a job that ends, or in the two
cross waits below.

**What the passing runs show.**

* `RingHoldsRecent`, `OnlyOldestAtRisk`: the ring is what it should be between
  operations, and at each instant of a push a reader without the lock can be
  wrong about the first slot of a full ring only.
* `EventIdsUnique`: even a clear that races with a push never makes two records share
  an id.
* `CleanClearForgets`: a clear that no push overlaps does what it is for.  One that is
  overlapped may be undone: a push that loaded the metadata before `clear()` stores them
  back after it.
* `SnapshotSoundButOldest`, `FailsOnlyIfBusy`, `ReadTerminates`: what the retry loop
  really guarantees.
* `Refines`, `OwnDuration`, `SizeIsKnown`: what reaches the ring from the calls, and the
  two ways, both in `GroupEnd` and `GroupStart`, in which calls or durations go astray.
  The record of a single call has the size of its communicator; a compressed record has
  that of the call which ended it, whose record always comes next.
* `EdgesTestedOnce`, `RanksDisjoint`: `split_ring` is right.
* `ResultsBelongToTask`, `AckErasesNothing`, `NoTaskOverwritten`, `PairsMatch`,
  `NothingLeftAtResume`: although both sides use read-then-write in two commands, the
  order "all acknowledged, then all collected" makes the reuse of keys safe.
* `EpisodeEndsOrCrossWait`: the pause ends whatever the device cell held at first and
  although `*state` stays `STATE_VALIDATE` after it, with one exception.  A rank of a
  pair fetches its task and blocks in the send/receive; the other polled too early and is
  in the broadcast.  When rank 0 is one of them, or its broadcast needs both, neither
  goes on, and the server waits for their results.
* `ReportsStandUntilValidated`, `ProfilingEndsOrCrossWait`, `LocalProceeds`: nobody is left
  waiting, with two exceptions.  A controller that measures nothing, because it
  reported while the server was mitigating or because `PROFILE_PERIOD` was too short for
  two iterations, sends nothing and waits for the server, which waits for it.  And the
  server waits for ever when no controller ever finds a period.
* `OpsInOnePlace`, `TraceIsRight`, `HangsReportedOnce`, `FlushedAtStop`, `HangReported`,
  `FinishedIsFolded`: the hook is right, for threads that race with each other, the
  poller and `stop`.  A launch enqueued after the final drain is not folded.
* `ShardInOnePlace`, `EveryRecordSeen`, `CountedWasProcessed`, `DeadWorkerRecovered`: no
  order of late, repeated and lost messages, deaths and restores loses, doubles or
  miscounts a shard, except where a checkpoint or restore without the lock is overtaken,
  a recovery raises because `doing` changed under it, or a reply to `get_task` is lost
  (the shard then stays in `doing`).  And when the master is told that the dataset is
  completed, it is, unless a task moved between the two reads of that call: then the
  last shard can be missed and the job ends without it.
* `OneWorldPerRound`, `RoundTakesAllUnits`, `OneWholeWorld`, `LostOnlyAfterRound`: the
  rendezvous never splits the job.  It may forget a node: a member of a completed round
  that has not polled is in no list after the next join, and polls for ever when
  `pend_timeout` is left at infinity.
* `CompleteUnlessUnlocked`, `ResumeTogether`, `FlagGuardsMemory`: the event queue, the three
  comparisons of steps and the done files are enough to make commits complete, as long
  as the lock is a lock and no trainer dies inside the copy.  The first is not a matter
  of failures alone: when a node joins, the reset frees the lock of trainers that are
  still copying, and the breakpoint save may then commit a step of which no file was
  written.  Ranks resume together, whatever each finds in its memory, with two
  exceptions: a rank whose memory is marked reads the tracker while the others load
  their memory, and a commit between two loads gives two ranks two trackers.

**What the failing runs show.**

* `SnapshotMixed`: the comment at `metax_eval/detect_runner.py:69` says a snapshot
  cannot mix two ring states.  On a full ring the record at index 0 may be the one
  being written.
* `FlashDirty`: the comment at `ckpt_saver.py:835` relies on a dead trainer's lock
  staying locked.  The lock's server releases it; the metadata still name the step
  before; no file is written for the shard because the memory is marked; the done file
  is, and the step is committed without the shard.  The property leaves out the runs in
  which a lock was released under a live holder, so that the trace is this one.

A profile that arrives after the keys were deleted is taken by the next episode of the
cycle, however old it is; nothing in the code tells its age, so no property of the model
does either.

## 4. Proofs

Every safety property that a passing run checks, and the refinement of `CallLog`, is
also a theorem: TLC shows it on the instance of section 3, TLAPS for every value of
the constants that the assumptions of the modules allow.  There is one module of
proofs per component.

| Module | Theorem | Statement |
|---|---|---|
| `RecordRingProofs` | `TypeCorrect` | `RingSpec => []TypeOK` |
| | `IInvInductive` | `RingSpec => []IInv` |
| | `RingCorrect` | `RingSpec => []RingHoldsRecent` |
| | `OnlyOldest` | `RingSpec => []OnlyOldestAtRisk` |
| | `IdsUnique` | `RingSpec => []EventIdsUnique` |
| | `CleanClear` | `RingSpec => []CleanClearForgets` |
| | `SnapshotRing` | `SnapshotSpec => []IInv` |
| | `FailsBusy` | `SnapshotSpec => []FailsOnlyIfBusy` |
| | `SnapshotSound` | without a local controller, `SnapshotSpec => []SnapshotSoundButOldest` |
| `NcclProbeProofs` | `PInvInductive` | `Spec => []PInv` |
| | `DurationsOwn` | `Spec => []OwnDuration` |
| | `SizesKnown` | `Spec => []SizeIsKnown` |
| | `ProbeImplementsCallLog` | `Spec => Refines` |
| `ValidationProofs` | `RingTestedOnce` | `RingSpec => []EdgesTestedOnce` (of `MCTaskSplit`) |
| | `RingRanksDisjoint` | `RingSpec => []RanksDisjoint` |
| | `VInvInductive` | `Spec => []VInv` |
| | `ResultsRight` | `Spec => []ResultsBelongToTask` |
| | `AckSafe` | `Spec => []AckErasesNothing` |
| | `PairsRight` | `Spec => []PairsMatch` |
| | `ResumeClean` | `Spec => []NothingLeftAtResume` |
| | `TasksTaken` | `Spec => NoTaskOverwritten`, an action property |
| `FailslowCycleProofs` | `CInvInductive` | `Spec => []CInv` |
| | `ReportsStand` | `Spec => []ReportsStandUntilValidated` |
| | `EpisodesAreReported` | no report pays for two episodes |
| `TimerHookProofs` | `IInvInductive` | `Spec => []IInv` |
| | `OnePlace` | `Spec => []OpsInOnePlace` |
| | `TraceRight` | `Spec => []TraceIsRight` |
| | `HangsOnce` | `Spec => []HangsReportedOnce` |
| | `FlushComplete` | `Spec => []FlushedAtStop` |
| `DataShardsProofs` | `DInvInductive` | `Spec => []DInv` |
| | `InOnePlace` | `Spec => []ShardInOnePlace` |
| | `RecordsSeen` | `Spec => []EveryRecordSeen` |
| | `CountedRight` | `Spec => []CountedWasProcessed` |
| | `DeadRecovered` | `Spec => []DeadWorkerRecovered` |
| `RendezvousProofs` | `IInvInductive` | `Spec => []IInv` |
| | `WorldsAgree` | `Spec => []OneWorldPerRound` |
| | `NoneLost` | `Spec => []LostOnlyAfterRound` |
| | `UnitsTaken` | `Spec => []RoundTakesAllUnits` |
| | `NoSecondWorld` | `Spec => []OneWholeWorld` |
| `FlashCkptProofs` | `IInvInductive` | `Spec => []IInv` |
| | `FlagGuards` | `Spec => []FlagGuardsMemory` |
| | `ResumesTogether` | `Spec => []ResumeTogether` |
| | `CommittedComplete` | `Spec => []CompleteUnlessUnlocked` |

**Assumptions.**  The provers use the named `ASSUME`s of the modules and nothing else.
They say that bounds are natural numbers, that sets of threads, nodes, workers or
agents are finite, and that a null value is no member of the set it stands beside.
Four say something about the system: a ring has a slot (`RecordRing`); rings are not
empty and name a rank once, which NCCL guarantees (`Validation`); dataset and shards
have at least a record (`DataShards`); and of the rendezvous' parameters,
`unit <= min <= max`, `max` a multiple of the unit, ranks below `max` (`Rendezvous`).
The option's help asks for the multiple (`dlrover/trainer/torch/elastic_run.py:155`)
and no code checks it; a full round, which is not rounded, is made of whole units only
because of it.  `SnapshotSound` also assumes that
no local controller clears the ring: a `clear()` between two reads does not change the
event counter, so the reader cannot see it.  The runs' constants satisfy all of them,
and TLC evaluates them in each run.

**The invariants.**  Hardly any of the properties is inductive.  Each of the invariants
below was checked by TLC on the run's instance before it was proved, and most of their
parts were found by a step that did not preserve the one before.

* *Record ring* (`IInv`).  `RingHoldsRecent` speaks of quiet states only, and a step
  into a quiet state comes from the inside of a push.  `IInv` says what holds there:
  who is inside has the mutex (`MutexInv`); what a writer has loaded is still in the
  cells it has not yet stored, and what it stored is what push computes (`PushInv`); how
  far the `memcpy` has come (`CopyInv`); `eventID` is the length of the history
  (`EventInv`); any id in a slot is below it, or belongs to the record being published
  (`IdInv`).  `RingInv` requires `Sound` or its push-time form only when no clear raced;
  `RaceInv` ties the history variables to the overlap, so that a clean clear
  re-establishes `Sound` with an empty ring.  The arithmetic of slots modulo the
  capacity is in lemmas of its own.
* *Snapshot reader* (`BusyInv`, `ViewInv`).  The reader changes no cell, so `IInv` holds
  beside it.  `BusyInv` counts: a failed attempt saw the event counter move.  `ViewInv`
  is about an attempt in which it has not moved yet.  Count and head were then read from
  the ring before or from the ring after the one push that may be under way, and never a
  mixture (`Before`, `After`); the copies made so far are records of that ring, whole
  ones except for the first of a full ring (`Copied`).
* *Probe* (`PInv`).  `GroupInv` and `WaitInv` say of a record that waits in a group that
  the group is the one it was made in, that its events, if there are any, belong to that
  group, and that they are not younger than the call; when `GroupEnd` writes the time,
  `TimeInv` follows.  `CommInv` keeps apart the communicators known, skipped and being
  made.  The refinement has three kinds of steps: a new call is recorded, and the
  records it ends are published; records are published without a call; stranded calls
  are lost.  All rest on how `CallsOf`, the calls of a list of records, behaves under
  append and concatenation, the only place where a recursive function is reasoned
  about: its existence and those laws are proved with a least counterexample.
* *Ring splitting.*  The tasks are described by position, as every second edge with the
  parities apart (and the last edge alone in an odd ring); each edge then has one
  position, and the ranks of a task are as many as its two lists.
* *Validation* (`VInv`).  `Jobs` is the heart: for each rank the server has handed a
  task, the task is waiting, is being worked on, has been answered, or was collected,
  and in each of the four it says what stands under the rank's two keys and what the rank
  has in its hands; every other rank has nothing at all.  `Position` and `Entry` are
  where the server is in its loops.  That a task names a rank once is the lemma from ring
  splitting, and without it the keys could clash.
* *Fail-slow cycle* (`CInv`).  That reports stand while an episode runs needs a count:
  the episodes that are over, the reports listed and those about to be pushed are never
  more than those made (`ReportsCount`).
* *Hook* (`IInv`).  `PlaceInv` has each event pair in one place, `OpInv` what a pair
  records of the launch it was last acquired for; from them follow what trace and hang
  list may hold (`TraceInv`, `HangInv`).  `FlushInv` follows the launches that `stop`
  must flush through the poller's last two drains.
* *Data sharding* (`DInv`).  `Ident`: a task id means one shard for the life of the
  job, also in a worker's hands and in a report under way; that is why a report that
  comes after a restore cannot count another shard.  `Places`: each shard of a pass that
  has begun is in one place, also in the middle of a restore, when the list still to be
  restored is one of the places; and a checkpoint that was not overtaken has the same
  property.  `Recovering` is what a recovery between its scan and its reports still owes.
  `RecordsSeen` needs in addition that what a call of `completed()` read in `todo` stands
  until it reads `doing`, or the call is overtaken (`QInv`), and that the shards of the
  splitter cover the dataset, with subepochs, for all sizes.
* *Rendezvous* (`IInv`).  `AgreeInv` includes the worlds of ranks that no longer use
  them, since agents of the same round may poll later.  `RoundInv` and `WorldInv` bound
  the size of a world from below; two worlds with nobody missing, each more than half of
  the nodes, share a node, and it has one world.
* *Flash checkpoint* (`IInv`).  While no lock was released under its holder and nobody
  died inside a copy, the lock is held by who believes to hold it, and the step a saver
  compared is the step in memory until it has persisted it (`HolderInv`, `SavedInv`).
  Only a live trainer is held to that: what a dead one acquired may have been freed by
  the reset and be freed again when its connection ends.  `ResumeTogether` rests on
  `LoadingInv`: while a rank has still to load nobody can write a memory, since a save
  needs every rank in its all-reduce, so whoever has loaded has what it would load now,
  unless the tracker moved.
  `FlagGuardsMemory` is inductive with `AcquiredInv` and `MarkInv` alone, which is why it
  holds without that proviso.

**Only model-checked.**  The liveness properties, since fairness and `ENABLED` are beyond
the prover: `ReadTerminates`, `EpisodeEndsOrCrossWait`, `ProfilingEndsOrCrossWait`,
`LocalProceeds`, `HangReported`, `FinishedIsFolded`.  The two properties that fail
(section 3) are counterexamples of TLC.

## 5. Plan

Every property that can be a theorem is one.  What remains to be done about the proofs
is to say more: the positive halves of what the histories excuse, such as that a clear
that raced is repaired by the next clean one in the snapshot as well, or a statement of
`SnapshotSound` with clears under which the reader is still right; abstract
specifications of their own for the ring (a bounded queue that forgets its oldest) and
for the data sharding (a set of shards consumed once), with the refinement proved as for
`CallLog`; and shorter proofs.

Modelling that remains: the attach sequence of the ring (several processes construct
`NcclRecordStorage` and the mutex over the same segment while the local controller looks
for the magic word), the iteration of `NcclRecord`, the network-check rendezvous.

## 6. Not modelled

The implementation is some 137,000 lines in 751 files, most of them Megatron-LM, the
upstream xpu_timer, generated protocol code, DLRover's schedulers, its brain and its
operators.  The modules here cover the detector's protocol code nearly whole and the
three parts of DLRover with concurrency of their own; as a share of all lines that is
little, and it cannot become much: the rest is numerics (models, planners, statistics),
I/O against Kubernetes, Ray or files, configuration, or code this repository only carries
along.  What could still be added is named in the plan.

* `slow_detection.py`, the planners and Megatron-LM compute with floats and tensors.
* `comm.cpp`, `shm_topo.cpp`, `communicator.py` read a private memory layout and
  serialise it.
* `split_tree` has no live caller.
* DLRover's node management, scaling and diagnosis talk to a cluster scheduler; the
  models take from them what the modelled parts can observe: a node exits, it is
  relaunched or not.
* The network check, the universal checkpoint, the temp-dir saver, memory replicas, and
  the streaming datasets are variants beside the modelled default paths.
