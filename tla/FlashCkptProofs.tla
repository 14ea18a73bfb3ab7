--------------------------- MODULE FlashCkptProofs ---------------------------
(***************************************************************************)
(* Proofs about FlashCkpt, for every set of agents, every number of steps, *)
(* saves and failures, and with or without the save at a breakpoint.       *)
(***************************************************************************)
EXTENDS FlashCkpt, TLAPS

-----------------------------------------------------------------------------
(* The inductive invariant.                                                *)

TrainerPCs == {"load", "train", "asked", "write", "copy", "unlock", "skip",
               "saved", "skipped", "put", "dead", "closed"}
SaverPCs == {"idle", "sync", "guard", "mkdir", "lock", "load",
             "persist", "done", "finally", "error", "commit"}
SaverRecs == [pc : SaverPCs, step : 0 .. MaxStep, source : 0 .. Torn]

TypeInv ==
    /\ trainer \in [Agents -> TrainerPCs]
    /\ acquired \in [Agents -> BOOLEAN]
    /\ step \in [Agents -> 0 .. MaxStep]
    /\ loaded \in [Agents -> {NotLoaded} \cup 0 .. MaxStep]
    /\ fresh \in [Agents -> BOOLEAN]
    /\ meta \in [Agents -> [step : 0 .. MaxStep, writing : BOOLEAN]]
    /\ data \in [Agents -> 0 .. Torn]
    /\ lock \in [Agents -> {"free", "trainer"} \cup Threads]
    /\ queue \in [Agents -> Seq(Steps)]
    /\ saver \in [Agents -> [Threads -> SaverRecs]]
    /\ \A n \in Agents, t \in Threads :
           saver[n][t].pc # "idle" => saver[n][t].step \in Steps
    /\ files \in [Steps -> [Agents -> 0 .. Torn]]
    /\ tracker \in 0 .. MaxStep
    /\ stolen \in BOOLEAN /\ dirty \in BOOLEAN /\ split \in BOOLEAN

(* A trainer that writes has acquired its lock; one that loads, trains or  *)
(* puts an event, or whose connection is closed, has not.  Events are for  *)
(* the steps that go to the storage.                                       *)
AcquiredInv ==
    \A n \in Agents :
        /\ trainer[n] \in {"write", "copy", "unlock"} => acquired[n]
        /\ trainer[n] \in {"load", "train", "saved", "skipped", "put", "closed"}
              => ~acquired[n]
        /\ trainer[n] \in {"saved", "put"} => step[n] \in StorageSteps

(* The mark stands only while its trainer writes.                          *)
MarkInv == ~dirty => \A n \in Agents : meta[n].writing => trainer[n] = "copy"

(* While some trainer has still to load, nobody writes a memory; where the *)
(* sources do not differ, all memories are marked or none is, and whoever  *)
(* has loaded has what it would load now.                                  *)
Loading == \E n \in Agents : trainer[n] = "load"

LoadingInv ==
    /\ \A n \in Agents :
          trainer[n] \in {"load", "dead", "closed"} => loaded[n] = NotLoaded
    /\ Loading => \A n \in Agents :
          trainer[n] \in {"load", "train", "asked", "dead", "closed"}
    /\ Loading /\ ~split =>
          /\ \A m, n \in Agents : meta[m].writing = meta[n].writing
          /\ \A n \in Agents :
                loaded[n] # NotLoaded => loaded[n] = LoadedStep(n)

Clean == ~stolen /\ ~dirty

(* The lock is held by the live trainer that acquired it, or by the        *)
(* saver's thread that reads the memory: the step it compared stays there. *)
HolderInv ==
    \A n \in Agents :
        /\ acquired[n] /\ Live(n) => lock[n] = "trainer"
        /\ \A t \in Threads :
              saver[n][t].pc \in {"load", "persist"} =>
                  lock[n] = t /\ meta[n].step = saver[n][t].step

(* What a thread is about to write is the step it saves; what it has       *)
(* written, and what a done file stands for, is too.                       *)
SavedInv ==
    /\ \A n \in Agents, t \in Threads :
           /\ saver[n][t].pc = "persist" =>
                 /\ saver[n][t].source = saver[n][t].step
                 /\ data[n] = saver[n][t].step
           /\ saver[n][t].pc = "done" =>
                 files[saver[n][t].step][n] = saver[n][t].step
    /\ \A s \in Steps, n \in Agents :
           << s, n >> \in doneFiles => files[s][n] = s
    /\ CommittedIsComplete

IInv ==
    /\ TypeInv /\ AcquiredInv /\ MarkInv /\ LoadingInv
    /\ FlagGuardsMemory /\ ResumeTogether
    /\ Clean => HolderInv /\ SavedInv

-----------------------------------------------------------------------------
(* Every step preserves the invariant.                                     *)

(* What the assumptions say of the constants.                              *)
LEMMA ConstantFacts ==
    /\ MaxStep \in Nat \ {0} /\ Zero \in Agents /\ StorageSteps \subseteq Steps
    /\ Torn \in Nat /\ Steps \subseteq 0 .. MaxStep /\ 0 .. MaxStep \subseteq 0 .. Torn
    /\ Torn \in 0 .. Torn /\ 0 \in 0 .. MaxStep /\ 0 \in 0 .. Torn
    /\ \A s \in Steps : s # 0
BY CkptAssumption DEF Steps, Torn

(* A thread of a saver moves, and its record is r afterwards.              *)
LEMMA SaverUpdate ==
    ASSUME TypeInv, NEW n \in Agents, NEW t \in Threads, NEW r \in SaverRecs,
           r.pc # "idle" => r.step \in Steps,
           saver' = [saver EXCEPT ![n][t] = r]
    PROVE  /\ saver' \in [Agents -> [Threads -> SaverRecs]]
           /\ \A m \in Agents, u \in Threads :
                  saver'[m][u] = IF m = n /\ u = t THEN r ELSE saver[m][u]
           /\ \A m \in Agents, u \in Threads :
                  saver'[m][u].pc # "idle" => saver'[m][u].step \in Steps
<1>1. saver \in [Agents -> [Threads -> SaverRecs]]
    BY DEF TypeInv
<1>2. saver' = [saver EXCEPT ![n] = [saver[n] EXCEPT ![t] = r]]
    BY <1>1
<1>3. /\ saver' \in [Agents -> [Threads -> SaverRecs]]
      /\ \A m \in Agents, u \in Threads :
             saver'[m][u] = IF m = n /\ u = t THEN r ELSE saver[m][u]
    BY <1>1, <1>2
<1> QED BY <1>3 DEF TypeInv

(* The record of a thread that has finished.                               *)
LEMMA SaverFacts ==
    Idle \in SaverRecs /\ Idle.pc = "idle"
BY ConstantFacts DEF Idle, SaverRecs, SaverPCs, Nothing

(* Steps of a saver's thread: a thread takes the lock only where it is     *)
(* free, and releases it only where it is its own; what it claims to have  *)
(* read or written is there; nothing that was saved is lost.               *)
LEMMA SaverStep ==
    ASSUME IInv, NEW n \in Agents, NEW t \in Threads, NEW r \in SaverRecs,
           r.pc # "idle" => r.step \in Steps,
           saver' = [saver EXCEPT ![n][t] = r],
           UNCHANGED << trainers, shm, dirty >>,
           lock' \in [Agents -> {"free", "trainer"} \cup Threads],
           queue' \in [Agents -> Seq(Steps)],
           files' \in [Steps -> [Agents -> 0 .. Torn]],
           tracker' \in 0 .. MaxStep, stolen' \in BOOLEAN,
           \/ tracker' = tracker /\ split' = split
           \/ split' = (split \/ PartlyLoaded),
           Clean' =>
               /\ Clean
               /\ \A m \in Agents :
                     lock'[m] # lock[m] => m = n /\ lock[n] \in {"free", t}
               /\ r.pc \in {"load", "persist"} =>
                     lock'[n] = t /\ meta[n].step = r.step
               /\ r.pc = "persist" => r.source = r.step /\ data[n] = r.step
               /\ r.pc = "done" => files'[r.step][n] = r.step
               /\ \A s \in Steps, m \in Agents :
                     /\ files[s][m] = s => files'[s][m] = s
                     /\ << s, m >> \in doneFiles' => files'[s][m] = s
               /\ CommittedIsComplete'
    PROVE  IInv'
<1>1. TypeInv /\ AcquiredInv
    BY DEF IInv
<1>2. /\ saver' \in [Agents -> [Threads -> SaverRecs]]
      /\ \A m \in Agents, u \in Threads :
             saver'[m][u] = IF m = n /\ u = t THEN r ELSE saver[m][u]
      /\ \A m \in Agents, u \in Threads :
             saver'[m][u].pc # "idle" => saver'[m][u].step \in Steps
    BY <1>1, SaverUpdate
<1>3. TypeInv'
    BY <1>1, <1>2 DEF TypeInv, trainers, shm
<1>4. split => split'
    BY <1>1 DEF TypeInv
<1>5. AcquiredInv' /\ MarkInv' /\ FlagGuardsMemory' /\ ResumeTogether'
    BY <1>4 DEF IInv, AcquiredInv, MarkInv, FlagGuardsMemory, ResumeTogether,
           trainers, shm
<1>6. LoadingInv'
  <2>1. CASE tracker' = tracker /\ split' = split
      BY <2>1 DEF IInv, LoadingInv, Loading, LoadedStep, InMemory, SameSteps,
                 trainers, shm
  <2>2. CASE split' = (split \/ PartlyLoaded)
      BY <2>2 DEF IInv, LoadingInv, Loading, PartlyLoaded, trainers, shm
  <2> QED BY <2>1, <2>2
<1>7. ASSUME Clean' PROVE HolderInv'
  <2>1. HolderInv /\ lock'[n] \in {"free", "trainer"} \cup Threads
      BY <1>7 DEF IInv
  <2>2. \A m \in Agents : acquired[m] /\ Live(m) => lock'[m] = "trainer"
      BY <1>7, <2>1, ZenonT(30) DEF HolderInv, Threads
  <2>3. ASSUME NEW m \in Agents, NEW u \in Threads,
               saver'[m][u].pc \in {"load", "persist"}
        PROVE  lock'[m] = u /\ meta[m].step = saver'[m][u].step
    <3>1. CASE m = n /\ u = t
        BY <1>2, <1>7, <2>3, <3>1
    <3>2. CASE ~(m = n /\ u = t)
      <4>1. lock[m] = u /\ meta[m].step = saver[m][u].step
          BY <1>2, <2>1, <2>3, <3>2 DEF HolderInv
      <4> QED BY <1>2, <1>7, <3>2, <4>1 DEF Threads
    <3> QED BY <3>1, <3>2
  <2> QED BY <2>2, <2>3 DEF HolderInv, Live, trainers, shm
<1>8. ASSUME Clean' PROVE SavedInv'
  <2>1. SavedInv
      BY <1>7, <1>8 DEF IInv
  <2>2. ASSUME NEW m \in Agents, NEW u \in Threads
        PROVE  /\ saver'[m][u].pc = "persist" =>
                      /\ saver'[m][u].source = saver'[m][u].step
                      /\ data[m] = saver'[m][u].step
               /\ saver'[m][u].pc = "done" =>
                      files'[saver'[m][u].step][m] = saver'[m][u].step
    <3>1. CASE m = n /\ u = t
        BY <1>2, <1>8, <3>1
    <3>2. CASE ~(m = n /\ u = t)
      <4>1. saver'[m][u] = saver[m][u]
          BY <1>2, <3>2
      <4>2. saver[m][u].pc = "done" => saver[m][u].step \in Steps
          BY <1>1 DEF TypeInv
      <4> DEFINE s == saver[m][u].step
      <4>3. saver[m][u].pc = "done" => s \in Steps /\ files[s][m] = s
          BY <2>1, <4>2 DEF SavedInv
      <4>4. s \in Steps /\ files[s][m] = s => files'[s][m] = s
          BY <1>8
      <4> QED BY <2>1, <4>1, <4>3, <4>4 DEF SavedInv
    <3> QED BY <3>1, <3>2
  <2> QED BY <1>8, <2>2 DEF SavedInv, shm
<1> QED BY <1>3, <1>5, <1>7, <1>8, <1>6 DEF IInv

(* A trainer that loads sets only its own step.  Where the sources do not  *)
(* differ it gets what the others got.                                     *)
LEMMA LoadInv ==
    ASSUME IInv, NEW n \in Agents, Load(n)
    PROVE  IInv'
<1>1. /\ TypeInv /\ LoadingInv /\ ResumeTogether /\ Loading
      /\ LoadedStep(n) \in 0 .. MaxStep /\ LoadedStep(n) # NotLoaded
    BY ConstantFacts, SMTT(30)
        DEF Load, At, IInv, TypeInv, Loading, LoadedStep, NotLoaded
<1>2. /\ \A m \in Agents : loaded'[m] = IF m = n THEN LoadedStep(n) ELSE loaded[m]
      /\ \A m \in Agents : trainer'[m] = IF m = n THEN "train" ELSE trainer[m]
      /\ trainer[n] = "load" /\ UNCHANGED << shm, tracker, split >>
    BY <1>1 DEF Load, At, TypeInv, storage, history
<1>3. \A m \in Agents : LoadedStep(m)' = LoadedStep(m)
    BY <1>2 DEF LoadedStep, InMemory, SameSteps, shm
<1>4. TypeInv'
    BY <1>1, <1>2 DEF Load, At, trainers, shm, savers, storage, history,
        IInv, TypeInv, TrainerPCs
<1>5. AcquiredInv' /\ MarkInv'
    BY DEF Load, At, trainers, shm, savers, storage, history, IInv, TypeInv,
        AcquiredInv, MarkInv, Live
<1>6. FlagGuardsMemory'
    BY DEF Load, At, trainers, shm, savers, storage, history, IInv, TypeInv,
        FlagGuardsMemory
<1>7. LoadingInv'
    BY <1>1, <1>2, <1>3 DEF LoadingInv, Loading, shm
<1>8. ResumeTogether'
  <2>1. SUFFICES ASSUME ~split, NEW m \in Agents, loaded[m] # NotLoaded
                 PROVE  loaded[m] = LoadedStep(n)
      BY <1>1, <1>2 DEF ResumeTogether
  <2>2. loaded[m] = LoadedStep(m) /\ meta[m].writing = meta[n].writing
      BY <1>1, <2>1 DEF LoadingInv
  <2>3. SameSteps => meta[m].step = meta[n].step
      BY DEF SameSteps
  <2> QED BY <2>2, <2>3 DEF LoadedStep, InMemory
<1>9. ASSUME Clean' PROVE HolderInv'
    BY <1>9 DEF Load, At, trainers, shm, savers, storage, history, IInv,
        TypeInv, Clean, AcquiredInv, HolderInv, Live, Threads
<1>10. ASSUME Clean' PROVE SavedInv'
    BY <1>10 DEF Load, At, trainers, shm, savers, storage, history, IInv,
        TypeInv, Clean, AcquiredInv, HolderInv, Live, SavedInv,
        CommittedIsComplete, Threads
<1> QED BY <1>4, <1>5, <1>6, <1>7, <1>8, <1>9, <1>10 DEF IInv

(* save_state_dict_to_memory: only a free lock is taken.                   *)
LEMMA TryAcquireInv ==
    ASSUME IInv, NEW n \in Agents, TryAcquire(n)
    PROVE  IInv'
<1>1. TypeInv'
    BY ConstantFacts, SMTT(30) DEF TryAcquire, At, trainers, shm, savers, storage,
        history, IInv, TypeInv, TrainerPCs
<1>2. AcquiredInv' /\ MarkInv'
    BY DEF TryAcquire, At, trainers, shm, savers, storage, history, IInv,
        TypeInv, AcquiredInv, MarkInv, Live
<1>3. FlagGuardsMemory'
    BY DEF TryAcquire, At, trainers, shm, savers, storage, history, IInv,
        TypeInv, FlagGuardsMemory
<1>4. LoadingInv'
    BY SMTT(30) DEF TryAcquire, At, trainers, shm, savers, storage, history, IInv,
        TypeInv, LoadingInv, Loading, LoadedStep, InMemory, SameSteps, Live
<1>5. ResumeTogether'
    BY DEF TryAcquire, At, trainers, shm, savers, storage, history, IInv,
        TypeInv, ResumeTogether, LoadingInv
<1>6. ASSUME Clean' PROVE HolderInv'
    BY <1>6 DEF TryAcquire, At, trainers, shm, savers, storage, history, IInv,
        TypeInv, Clean, AcquiredInv, HolderInv, Live, Threads
<1>7. ASSUME Clean' PROVE SavedInv'
    BY <1>7 DEF TryAcquire, At, trainers, shm, savers, storage, history, IInv,
        TypeInv, Clean, AcquiredInv, HolderInv, Live, SavedInv,
        CommittedIsComplete, Threads
<1> QED BY <1>1, <1>2, <1>3, <1>4, <1>5, <1>6, <1>7 DEF IInv

(* All trainers write, each with its lock, or none does.                   *)
LEMMA AllReduceInv ==
    ASSUME IInv, AllReduce
    PROVE  IInv'
<1>1. TypeInv'
    BY ConstantFacts DEF AllReduce, trainers, shm, savers, storage, history,
        IInv, TypeInv, TrainerPCs
<1>2. AcquiredInv' /\ MarkInv'
    BY DEF AllReduce, trainers, shm, savers, storage, history, IInv, TypeInv,
        AcquiredInv, MarkInv, Live
<1>3. FlagGuardsMemory'
    BY DEF AllReduce, trainers, shm, savers, storage, history, IInv, TypeInv,
        FlagGuardsMemory
<1>4. LoadingInv'
    BY DEF AllReduce, trainers, shm, savers, storage, history, IInv, TypeInv,
        LoadingInv, Loading, LoadedStep, InMemory, SameSteps, Live
<1>5. ResumeTogether'
    BY DEF AllReduce, trainers, shm, savers, storage, history, IInv, TypeInv,
        ResumeTogether, LoadingInv
<1>6. ASSUME Clean' PROVE HolderInv'
    BY <1>6 DEF AllReduce, trainers, shm, savers, storage, history, IInv,
        TypeInv, Clean, AcquiredInv, HolderInv, Live, Threads
<1>7. ASSUME Clean' PROVE SavedInv'
    BY <1>7 DEF AllReduce, trainers, shm, savers, storage, history, IInv,
        TypeInv, Clean, AcquiredInv, HolderInv, Live, SavedInv,
        CommittedIsComplete, Threads
<1> QED BY <1>1, <1>2, <1>3, <1>4, <1>5, <1>6, <1>7 DEF IInv

(* The trainer marks the memory before it writes.                          *)
LEMMA WriteStartInv ==
    ASSUME IInv, NEW n \in Agents, WriteStart(n)
    PROVE  IInv'
<1>1. TypeInv'
    BY ConstantFacts DEF WriteStart, At, BeingWritten, trainers, shm, savers,
        storage, history, IInv, TypeInv, TrainerPCs
<1>2. AcquiredInv' /\ MarkInv'
    BY DEF WriteStart, At, BeingWritten, trainers, shm, savers, storage,
        history, IInv, TypeInv, AcquiredInv, MarkInv, Live
<1>3. FlagGuardsMemory'
    BY DEF WriteStart, At, BeingWritten, trainers, shm, savers, storage,
        history, IInv, TypeInv, FlagGuardsMemory
<1>4. LoadingInv'
    BY DEF WriteStart, At, BeingWritten, trainers, shm, savers, storage,
        history, IInv, TypeInv, LoadingInv, Loading, LoadedStep, InMemory,
        SameSteps, Live
<1>5. ResumeTogether'
    BY DEF WriteStart, At, BeingWritten, trainers, shm, savers, storage,
        history, IInv, TypeInv, ResumeTogether, LoadingInv
<1>6. ASSUME Clean' PROVE HolderInv'
    BY <1>6 DEF WriteStart, At, BeingWritten, trainers, shm, savers, storage,
        history, IInv, TypeInv, Clean, AcquiredInv, HolderInv, Live, Threads
<1>7. ASSUME Clean' PROVE SavedInv'
  <2>1. /\ saver' = saver /\ files' = files /\ doneFiles' = doneFiles
        /\ tracker' = tracker /\ \A m \in Agents \ {n} : data'[m] = data[m]
      BY DEF WriteStart, IInv, TypeInv, savers, storage
  <2>2. Clean /\ HolderInv /\ SavedInv
      BY <1>7 DEF WriteStart, IInv, Clean, history
  <2>3. \A t \in Threads : saver[n][t].pc # "persist"
      BY <2>2 DEF WriteStart, At, IInv, AcquiredInv, HolderInv, Live, Threads
  <2> QED BY <2>1, <2>2, <2>3, ZenonT(30) DEF SavedInv, CommittedIsComplete
<1> QED BY <1>1, <1>2, <1>3, <1>4, <1>5, <1>6, <1>7 DEF IInv

(* The mark goes when the memory holds the step.                           *)
LEMMA WriteEndInv ==
    ASSUME IInv, NEW n \in Agents, WriteEnd(n)
    PROVE  IInv'
<1>1. TypeInv'
    BY ConstantFacts DEF WriteEnd, At, trainers, shm, savers, storage,
        history, IInv, TypeInv, TrainerPCs
<1>2. AcquiredInv' /\ MarkInv'
    BY DEF WriteEnd, At, trainers, shm, savers, storage, history, IInv,
        TypeInv, AcquiredInv, MarkInv, Live
<1>3. FlagGuardsMemory'
    BY DEF WriteEnd, At, trainers, shm, savers, storage, history, IInv,
        TypeInv, FlagGuardsMemory
<1>4. LoadingInv'
    BY DEF WriteEnd, At, trainers, shm, savers, storage, history, IInv,
        TypeInv, LoadingInv, Loading, LoadedStep, InMemory, SameSteps, Live
<1>5. ResumeTogether'
    BY DEF WriteEnd, At, trainers, shm, savers, storage, history, IInv,
        TypeInv, ResumeTogether, LoadingInv
<1>6. ASSUME Clean' PROVE HolderInv'
    BY <1>6 DEF WriteEnd, At, trainers, shm, savers, storage, history, IInv,
        TypeInv, Clean, AcquiredInv, HolderInv, Live, Threads
<1>7. ASSUME Clean' PROVE SavedInv'
  <2>1. /\ saver' = saver /\ files' = files /\ doneFiles' = doneFiles
        /\ tracker' = tracker /\ \A m \in Agents \ {n} : data'[m] = data[m]
      BY DEF WriteEnd, IInv, TypeInv, savers, storage
  <2>2. Clean /\ HolderInv /\ SavedInv
      BY <1>7 DEF WriteEnd, IInv, Clean, history
  <2>3. \A t \in Threads : saver[n][t].pc # "persist"
      BY <2>2 DEF WriteEnd, At, IInv, AcquiredInv, HolderInv, Live, Threads
  <2> QED BY <2>1, <2>2, <2>3, ZenonT(30) DEF SavedInv, CommittedIsComplete
<1> QED BY <1>1, <1>2, <1>3, <1>4, <1>5, <1>6, <1>7 DEF IInv

(* The trainer releases the lock it acquired, and no other.                *)
LEMMA UnlockInv ==
    ASSUME IInv, NEW n \in Agents, Unlock(n)
    PROVE  IInv'
<1>1. TypeInv'
    BY ConstantFacts DEF Unlock, At, release, trainers, shm, savers, storage,
        history, IInv, TypeInv, TrainerPCs
<1>2. AcquiredInv' /\ MarkInv'
    BY DEF Unlock, At, release, trainers, shm, savers, storage, history, IInv,
        TypeInv, AcquiredInv, MarkInv, Live
<1>3. FlagGuardsMemory'
    BY DEF Unlock, At, release, trainers, shm, savers, storage, history, IInv,
        TypeInv, FlagGuardsMemory
<1>4. LoadingInv'
    BY DEF Unlock, At, release, trainers, shm, savers, storage, history, IInv,
        TypeInv, LoadingInv, Loading, LoadedStep, InMemory, SameSteps, Live
<1>5. ResumeTogether'
    BY DEF Unlock, At, release, trainers, shm, savers, storage, history, IInv,
        TypeInv, ResumeTogether, LoadingInv
<1>6. ASSUME Clean' PROVE HolderInv'
    BY <1>6 DEF Unlock, At, release, trainers, shm, savers, storage, history,
        IInv, TypeInv, Clean, AcquiredInv, HolderInv, Live, Threads
<1>7. ASSUME Clean' PROVE SavedInv'
    BY <1>7 DEF Unlock, At, release, trainers, shm, savers, storage, history,
        IInv, TypeInv, Clean, AcquiredInv, HolderInv, Live, SavedInv,
        CommittedIsComplete, Threads
<1> QED BY <1>1, <1>2, <1>3, <1>4, <1>5, <1>6, <1>7 DEF IInv

(* The barrier, with no lock held.                                         *)
LEMMA BarrierInv ==
    ASSUME IInv, Barrier
    PROVE  IInv'
<1>1. TypeInv'
    BY ConstantFacts DEF Barrier, trainers, shm, savers, storage, history,
        IInv, TypeInv, TrainerPCs
<1>2. AcquiredInv' /\ MarkInv'
    BY DEF Barrier, trainers, shm, savers, storage, history, IInv, TypeInv,
        AcquiredInv, MarkInv, Live
<1>3. FlagGuardsMemory'
    BY DEF Barrier, trainers, shm, savers, storage, history, IInv, TypeInv,
        FlagGuardsMemory
<1>4. LoadingInv'
    BY DEF Barrier, trainers, shm, savers, storage, history, IInv, TypeInv,
        LoadingInv, Loading, LoadedStep, InMemory, SameSteps, Live
<1>5. ResumeTogether'
    BY DEF Barrier, trainers, shm, savers, storage, history, IInv, TypeInv,
        ResumeTogether, LoadingInv
<1>6. ASSUME Clean' PROVE HolderInv'
    BY <1>6 DEF Barrier, trainers, shm, savers, storage, history, IInv,
        TypeInv, Clean, AcquiredInv, HolderInv, Live, Threads
<1>7. ASSUME Clean' PROVE SavedInv'
    BY <1>7 DEF Barrier, trainers, shm, savers, storage, history, IInv,
        TypeInv, Clean, AcquiredInv, HolderInv, Live, SavedInv,
        CommittedIsComplete, Threads
<1> QED BY <1>1, <1>2, <1>3, <1>4, <1>5, <1>6, <1>7 DEF IInv

(* The event is a step of training.                                        *)
LEMMA PutEventInv ==
    ASSUME IInv, NEW n \in Agents, PutEvent(n)
    PROVE  IInv'
<1>1. TypeInv'
  <2>1. step[n] \in Steps
      BY ConstantFacts DEF PutEvent, At, IInv, AcquiredInv
  <2>2. queue' \in [Agents -> Seq(Steps)]
      BY <2>1 DEF PutEvent, IInv, TypeInv
  <2> QED BY <2>2 DEF PutEvent, At, shm, savers, storage, history, IInv, TypeInv,
          TrainerPCs
<1>2. AcquiredInv' /\ MarkInv'
    BY DEF PutEvent, At, trainers, shm, savers, storage, history, IInv,
        TypeInv, AcquiredInv, MarkInv, Live
<1>3. FlagGuardsMemory'
    BY DEF PutEvent, At, trainers, shm, savers, storage, history, IInv,
        TypeInv, FlagGuardsMemory
<1>4. LoadingInv'
    BY DEF PutEvent, At, trainers, shm, savers, storage, history, IInv,
        TypeInv, LoadingInv, Loading, LoadedStep, InMemory, SameSteps, Live
<1>5. ResumeTogether'
    BY DEF PutEvent, At, trainers, shm, savers, storage, history, IInv,
        TypeInv, ResumeTogether, LoadingInv
<1>6. ASSUME Clean' PROVE HolderInv'
    BY <1>6 DEF PutEvent, At, trainers, shm, savers, storage, history, IInv,
        TypeInv, Clean, AcquiredInv, HolderInv, Live, Threads
<1>7. ASSUME Clean' PROVE SavedInv'
    BY <1>7 DEF PutEvent, IInv, Clean, SavedInv, CommittedIsComplete, shm,
        savers, storage, history
<1> QED BY <1>1, <1>2, <1>3, <1>4, <1>5, <1>6, <1>7 DEF IInv

(* A trainer killed in the copy makes the memory dirty.                    *)
LEMMA KilledInv ==
    ASSUME IInv, NEW n \in Agents, Killed(n)
    PROVE  IInv'
<1>1. TypeInv'
    BY ConstantFacts DEF Killed, Live, trainers, shm, savers, storage,
        history, IInv, TypeInv, TrainerPCs
<1>2. AcquiredInv' /\ MarkInv'
    BY DEF Killed, Live, trainers, shm, savers, storage, history, IInv,
        TypeInv, AcquiredInv, MarkInv, Live
<1>3. FlagGuardsMemory'
    BY DEF Killed, Live, trainers, shm, savers, storage, history, IInv,
        TypeInv, FlagGuardsMemory
<1>4. LoadingInv'
    BY SMTT(30) DEF Killed, Live, trainers, shm, savers, storage, history, IInv,
        TypeInv, LoadingInv, Loading, LoadedStep, InMemory, SameSteps, Live
<1>5. ResumeTogether'
    BY DEF Killed, Live, trainers, shm, savers, storage, history, IInv,
        TypeInv, ResumeTogether, LoadingInv
<1>6. ASSUME Clean' PROVE HolderInv'
    BY <1>6 DEF Killed, Live, trainers, shm, savers, storage, history, IInv,
        TypeInv, Clean, AcquiredInv, HolderInv, Live, Threads
<1>7. ASSUME Clean' PROVE SavedInv'
    BY <1>7 DEF Killed, Live, trainers, shm, savers, storage, history, IInv,
        TypeInv, Clean, AcquiredInv, HolderInv, Live, SavedInv,
        CommittedIsComplete, Threads
<1> QED BY <1>1, <1>2, <1>3, <1>4, <1>5, <1>6, <1>7 DEF IInv

(* The server releases what a dead trainer had acquired.                   *)
LEMMA ConnectionClosedInv ==
    ASSUME IInv, NEW n \in Agents, ConnectionClosed(n)
    PROVE  IInv'
<1>1. TypeInv'
    BY ConstantFacts DEF ConnectionClosed, At, release, trainers, shm, savers,
        storage, history, IInv, TypeInv, TrainerPCs
<1>2. AcquiredInv' /\ MarkInv'
    BY DEF ConnectionClosed, At, release, trainers, shm, savers, storage,
        history, IInv, TypeInv, AcquiredInv, MarkInv, Live
<1>3. FlagGuardsMemory'
    BY DEF ConnectionClosed, At, release, trainers, shm, savers, storage,
        history, IInv, TypeInv, FlagGuardsMemory
<1>4. LoadingInv'
    BY DEF ConnectionClosed, At, release, trainers, shm, savers, storage,
        history, IInv, TypeInv, LoadingInv, Loading, LoadedStep, InMemory,
        SameSteps, Live
<1>5. ResumeTogether'
    BY DEF ConnectionClosed, At, release, trainers, shm, savers, storage,
        history, IInv, TypeInv, ResumeTogether, LoadingInv
<1>6. ASSUME Clean' PROVE HolderInv'
    BY <1>6 DEF ConnectionClosed, At, release, trainers, shm, savers, storage,
        history, IInv, TypeInv, Clean, AcquiredInv, HolderInv, Live, Threads
<1>7. ASSUME Clean' PROVE SavedInv'
    BY <1>7 DEF ConnectionClosed, At, release, trainers, shm, savers, storage,
        history, IInv, TypeInv, Clean, AcquiredInv, HolderInv, Live, SavedInv,
        CommittedIsComplete, Threads
<1> QED BY <1>1, <1>2, <1>3, <1>4, <1>5, <1>6, <1>7 DEF IInv

(* Where only the agents move, nothing the invariant speaks of changes.    *)
LEMMA AgentStep ==
    ASSUME IInv,
           UNCHANGED << trainers, shm, lock, queue, saver, storage, stolen, dirty,
                        split >>
    PROVE  IInv'
BY DEF IInv, TypeInv, AcquiredInv, MarkInv, LoadingInv, Loading, LoadedStep,
    InMemory, SameSteps, FlagGuardsMemory, ResumeTogether, Clean, HolderInv,
    Live, SavedInv, CommittedIsComplete, trainers, shm, storage

(* reset frees the lock; it is stolen from a thread and from a live        *)
(* trainer.                                                                *)
LEMMA ResetInv ==
    ASSUME IInv, NEW n \in Agents, Reset(n)
    PROVE  IInv'
<1>1. TypeInv'
    BY ConstantFacts DEF Reset, release, trainers, shm, savers, storage,
        history, IInv, TypeInv, TrainerPCs
<1>2. AcquiredInv' /\ MarkInv'
    BY DEF Reset, release, trainers, shm, savers, storage, history, IInv,
        TypeInv, AcquiredInv, MarkInv, Live
<1>3. FlagGuardsMemory'
    BY DEF Reset, release, trainers, shm, savers, storage, history, IInv,
        TypeInv, FlagGuardsMemory
<1>4. LoadingInv'
    <2>1. UNCHANGED << trainers, shm, storage, split >>
        BY DEF Reset
    <2> QED BY <2>1, SMTT(30) DEF trainers, shm, storage, IInv, LoadingInv,
        Loading, LoadedStep, InMemory, SameSteps, Live
<1>5. ResumeTogether'
    BY DEF Reset, release, trainers, shm, savers, storage, history, IInv,
        TypeInv, ResumeTogether, LoadingInv
<1>6. ASSUME Clean' PROVE HolderInv'
    BY <1>6 DEF Reset, release, trainers, shm, savers, storage, history, IInv,
        TypeInv, Clean, AcquiredInv, HolderInv, Live, Threads
<1>7. ASSUME Clean' PROVE SavedInv'
    BY <1>7 DEF Reset, release, trainers, shm, savers, storage, history, IInv,
        TypeInv, Clean, AcquiredInv, HolderInv, Live, SavedInv,
        CommittedIsComplete, Threads
<1> QED BY <1>1, <1>2, <1>3, <1>4, <1>5, <1>6, <1>7 DEF IInv

(* New trainers have loaded nothing and hold nothing.                      *)
LEMMA StartWorkersInv ==
    ASSUME IInv, StartWorkers
    PROVE  IInv'
<1>1. TypeInv'
    BY ConstantFacts DEF StartWorkers, trainers, shm, savers, storage,
        history, IInv, TypeInv, TrainerPCs
<1>2. AcquiredInv' /\ MarkInv'
    BY DEF StartWorkers, trainers, shm, savers, storage, history, IInv,
        TypeInv, AcquiredInv, MarkInv, Live
<1>3. FlagGuardsMemory'
    BY DEF StartWorkers, trainers, shm, savers, storage, history, IInv,
        TypeInv, FlagGuardsMemory
<1>4. LoadingInv'
    BY DEF StartWorkers, trainers, shm, savers, storage, history, IInv,
        TypeInv, LoadingInv, Loading, LoadedStep, InMemory, SameSteps, Live
<1>5. ResumeTogether'
    BY DEF StartWorkers, trainers, shm, savers, storage, history, IInv,
        TypeInv, ResumeTogether, LoadingInv
<1>6. ASSUME Clean' PROVE HolderInv'
    BY <1>6 DEF StartWorkers, trainers, shm, savers, storage, history, IInv,
        TypeInv, Clean, AcquiredInv, HolderInv, Live, Threads
<1>7. ASSUME Clean' PROVE SavedInv'
    BY <1>7 DEF StartWorkers, trainers, shm, savers, storage, history, IInv,
        TypeInv, Clean, AcquiredInv, HolderInv, Live, SavedInv,
        CommittedIsComplete, Threads
<1> QED BY <1>1, <1>2, <1>3, <1>4, <1>5, <1>6, <1>7 DEF IInv

(* A thread that begins has claimed nothing yet.                           *)
LEMMA TakeEventInv ==
    ASSUME IInv, NEW n \in Agents, TakeEvent(n)
    PROVE  IInv'
<1>1. TypeInv /\ queue[n] # << >> /\ "loop" \in Threads
    BY DEF IInv, TakeEvent, Threads
<1>2. Head(queue[n]) \in Steps /\ Tail(queue[n]) \in Seq(Steps)
    BY <1>1 DEF TypeInv
<1>3. PICK r \in SaverRecs :
          /\ saver' = [saver EXCEPT ![n]["loop"] = r]
          /\ r.pc \in {"idle", "mkdir", "lock"}
          /\ r.pc # "idle" => r.step \in Steps
  <2> DEFINE to == [pc |-> IF n = Zero THEN "mkdir" ELSE "lock",
                    step |-> Head(queue[n]), source |-> Nothing]
  <2>1. to \in SaverRecs /\ to.pc \in {"mkdir", "lock"} /\ to.step \in Steps
      BY <1>2, ConstantFacts DEF SaverRecs, SaverPCs, Nothing
  <2>2. saver' = [saver EXCEPT ![n]["loop"] = to]
           \/ saver' = [saver EXCEPT ![n]["loop"] = Idle]
      BY DEF TakeEvent, save_step_checkpoint, Finish
  <2> QED BY <2>1, <2>2, SaverFacts
<1>4. queue' \in [Agents -> Seq(Steps)]
    BY <1>1, <1>2 DEF TakeEvent, TypeInv
<1>5. UNCHANGED << trainers, shm, lock, storage, stolen, dirty, split >>
    BY DEF TakeEvent, history
<1> QED BY <1>1, <1>3, <1>4, <1>5, SaverStep
        DEF IInv, TypeInv, storage, Clean, SavedInv, CommittedIsComplete

(* Steps of a thread that only change its pc, to one of those between      *)
(* which nothing is claimed.                                               *)
LEMMA QuietStep ==
    ASSUME IInv, NEW n \in Agents, NEW t \in Threads, NEW r \in SaverRecs,
           r.pc \notin {"load", "persist", "done"},
           r.pc # "idle" => r.step \in Steps,
           saver' = [saver EXCEPT ![n][t] = r],
           UNCHANGED << trainers, shm, lock, queue, files, stolen, dirty, split >>,
           doneFiles' \subseteq doneFiles,
           UNCHANGED tracker
    PROVE  IInv'
BY SaverStep DEF IInv, TypeInv, Clean, SavedInv, CommittedIsComplete

(* save_shm_to_storage reads the step of the memory.                       *)
LEMMA InspectInv ==
    ASSUME IInv, NEW n \in Agents, Inspect(n)
    PROVE  IInv'
<1>1. TypeInv /\ "bp" \in Threads
    BY DEF IInv, Threads
<1>2. PICK r \in SaverRecs :
          /\ saver' = [saver EXCEPT ![n]["bp"] = r]
          /\ r.pc \in {"idle", "sync"} /\ (r.pc # "idle" => r.step \in Steps)
  <2> DEFINE to == [pc |-> "sync", step |-> meta[n].step, source |-> Nothing]
  <2>1. CASE meta[n].step = 0
      BY <2>1, SaverFacts DEF Inspect
  <2>2. CASE meta[n].step # 0
    <3>1. meta[n].step \in Steps
        BY <1>1, <2>2, ConstantFacts, SMTT(30) DEF TypeInv, Steps
    <3>2. to \in SaverRecs
        BY <3>1, ConstantFacts DEF SaverRecs, SaverPCs, Nothing
    <3>3. saver' = [saver EXCEPT ![n]["bp"] = to]
        BY <2>2 DEF Inspect
    <3> QED BY <3>1, <3>2, <3>3
  <2> QED BY <2>1, <2>2
<1> QED BY <1>1, <1>2, QuietStep DEF Inspect, storage, history

(* The pc of a thread changes, and nothing else of its record.             *)
LEMMA ThreadMoves ==
    ASSUME TypeInv, NEW n \in Agents, NEW t \in Threads, NEW from, NEW to \in SaverPCs,
           Thread(n, t, from, to), from # "idle"
    PROVE  \E r \in SaverRecs :
               /\ saver' = [saver EXCEPT ![n][t] = r]
               /\ r.pc = to /\ r.step = saver[n][t].step
               /\ r.source = saver[n][t].source /\ r.step \in Steps
<1> DEFINE r == [saver[n][t] EXCEPT !.pc = to]
<1>1. saver \in [Agents -> [Threads -> SaverRecs]] /\ saver[n][t] \in SaverRecs
    BY DEF TypeInv
<1>2. saver' = [saver EXCEPT ![n][t] = r]
    BY <1>1 DEF Thread
<1>3. /\ r \in SaverRecs /\ r.pc = to /\ r.step = saver[n][t].step
      /\ r.source = saver[n][t].source
    BY <1>1 DEF SaverRecs
<1>4. saver[n][t].step \in Steps
    BY DEF Thread, TypeInv
<1> QED BY <1>2, <1>3, <1>4

(* sync_ckpt_nodes.                                                        *)
LEMMA SyncInv ==
    ASSUME IInv, NEW n \in Agents, Sync(n)
    PROVE  IInv'
<1>1. TypeInv /\ "bp" \in Threads
    BY DEF IInv, Threads
<1>2. UNCHANGED << trainers, shm, lock, queue, storage, history >>
    BY DEF Sync
<1>3. CASE Thread(n, "bp", "sync", "guard")
  <2>1. PICK r \in SaverRecs :
            /\ saver' = [saver EXCEPT ![n]["bp"] = r]
            /\ r.pc = "guard" /\ r.step \in Steps
      BY <1>1, <1>3, ThreadMoves DEF SaverPCs
  <2> QED BY <1>1, <1>2, <2>1, QuietStep DEF storage, history
<1>4. CASE UNCHANGED saver
    BY <1>2, <1>4, AgentStep DEF history
<1> QED BY <1>3, <1>4 DEF Sync

(* A thread that gives up is idle.                                         *)
LEMMA SyncTimeoutInv ==
    ASSUME IInv, NEW n \in Agents, SyncTimeout(n)
    PROVE  IInv'
<1>1. "bp" \in Threads
    BY DEF Threads
<1> QED BY <1>1, SaverFacts, QuietStep DEF SyncTimeout, Finish, storage, history

(* A breakpoint save that goes on has claimed nothing yet.                 *)
LEMMA GuardInv ==
    ASSUME IInv, NEW n \in Agents, Guard(n)
    PROVE  IInv'
<1>1. TypeInv /\ "bp" \in Threads
    BY DEF IInv, Threads
<1>2. saver[n]["bp"].step \in Steps
    BY <1>1 DEF Guard, TypeInv
<1>3. PICK r \in SaverRecs :
          /\ saver' = [saver EXCEPT ![n]["bp"] = r]
          /\ r.pc \in {"idle", "mkdir", "lock"}
          /\ r.pc # "idle" => r.step \in Steps
  <2> DEFINE to == [pc |-> IF n = Zero THEN "mkdir" ELSE "lock",
                    step |-> saver[n]["bp"].step, source |-> Nothing]
  <2>1. to \in SaverRecs /\ to.pc \in {"mkdir", "lock"} /\ to.step \in Steps
      BY <1>2, ConstantFacts DEF SaverRecs, SaverPCs, Nothing
  <2>2. saver' = [saver EXCEPT ![n]["bp"] = to]
           \/ saver' = [saver EXCEPT ![n]["bp"] = Idle]
      BY DEF Guard, save_step_checkpoint, Finish
  <2> QED BY <2>1, <2>2, SaverFacts
<1> QED BY <1>1, <1>3, QuietStep DEF Guard, storage, history

(* A new done directory only takes done files away.                        *)
LEMMA MakeDirInv ==
    ASSUME IInv, NEW n \in Agents, NEW t \in Threads, MakeDir(n, t)
    PROVE  IInv'
<1>1. TypeInv
    BY DEF IInv
<1>2. PICK r \in SaverRecs : /\ saver' = [saver EXCEPT ![n][t] = r]
                             /\ r.pc = "lock" /\ r.step \in Steps
    BY <1>1, ThreadMoves DEF MakeDir, SaverPCs
<1> QED BY <1>2, QuietStep DEF MakeDir, history

(* _save_shard takes a lock that is free, and only for the step that is in *)
(* the memory.                                                             *)
LEMMA AcquireInv ==
    ASSUME IInv, NEW n \in Agents, NEW t \in Threads, Acquire(n, t)
    PROVE  IInv'
<1>1. TypeInv /\ lock[n] = "free"
    BY DEF IInv, Acquire
<1>2. UNCHANGED << trainers, shm, queue, storage, history >>
    BY DEF Acquire
<1>3. CASE StepInMemory(n, t)
  <2>1. PICK r \in SaverRecs :
            /\ saver' = [saver EXCEPT ![n][t] = r]
            /\ r.pc = "load" /\ r.step = saver[n][t].step /\ r.step \in Steps
      BY <1>1, <1>3, ThreadMoves DEF Acquire, SaverPCs
  <2>2. lock' = [lock EXCEPT ![n] = t] /\ meta[n].step = r.step
      BY <1>3, <2>1 DEF Acquire, StepInMemory
  <2>3. /\ lock' \in [Agents -> {"free", "trainer"} \cup Threads]
        /\ lock'[n] = t /\ \A m \in Agents : m # n => lock'[m] = lock[m]
      BY <1>1, <2>2 DEF TypeInv
  <2> QED BY <1>1, <1>2, <2>1, <2>2, <2>3, SaverStep
          DEF IInv, TypeInv, storage, history, Clean, SavedInv,
              CommittedIsComplete
<1>4. CASE ~StepInMemory(n, t)
  <2>1. PICK r \in SaverRecs : /\ saver' = [saver EXCEPT ![n][t] = r]
                               /\ r.pc = "error" /\ r.step \in Steps
      BY <1>1, <1>4, ThreadMoves DEF Acquire, SaverPCs
  <2> QED BY <1>2, <1>4, <2>1, QuietStep DEF Acquire, storage, history
<1> QED BY <1>3, <1>4

(* Under the lock the memory is whole, unless a trainer was killed while   *)
(* it wrote: the views are of the step to save.                            *)
LEMMA LoadMemoryInv ==
    ASSUME IInv, NEW n \in Agents, NEW t \in Threads, LoadMemory(n, t)
    PROVE  IInv'
<1> DEFINE r == [saver[n][t] EXCEPT !.pc = "persist",
                     !.source = IF meta[n].writing THEN Nothing ELSE data[n]]
<1>1. TypeInv /\ saver[n][t] \in SaverRecs /\ saver[n][t].pc = "load"
    BY DEF IInv, TypeInv, LoadMemory
<1>2. saver' = [saver EXCEPT ![n][t] = r]
    BY <1>1 DEF LoadMemory, TypeInv
<1>3. /\ r \in SaverRecs /\ r.pc = "persist" /\ r.step = saver[n][t].step
      /\ r.source = (IF meta[n].writing THEN Nothing ELSE data[n])
    BY <1>1, ConstantFacts DEF SaverRecs, SaverPCs, Nothing, TypeInv
<1>4. r.step \in Steps
    BY <1>1, <1>3 DEF TypeInv
<1>5. UNCHANGED << trainers, shm, lock, queue, storage, history >>
    BY DEF LoadMemory
<1> HIDE DEF r
<1>6. ASSUME Clean
      PROVE  /\ lock[n] = t /\ meta[n].step = r.step
             /\ r.source = r.step /\ data[n] = r.step
  <2>1. lock[n] = t /\ meta[n].step = r.step
      BY <1>1, <1>3, <1>6 DEF IInv, HolderInv
  <2>2. ~meta[n].writing
    <3>1. SUFFICES ASSUME meta[n].writing PROVE FALSE
        OBVIOUS
    <3>2. trainer[n] = "copy" /\ acquired[n]
        BY <1>6, <3>1 DEF IInv, MarkInv, Clean, AcquiredInv
    <3>3. lock[n] = "trainer"
        BY <1>6, <3>2 DEF IInv, HolderInv, Live
    <3> QED BY <2>1, <3>3 DEF Threads
  <2>3. data[n] = meta[n].step
      BY <2>2 DEF IInv, FlagGuardsMemory
  <2> QED BY <1>3, <2>1, <2>2, <2>3
<1>7. Clean' => Clean
    BY <1>5 DEF Clean, history
<1> QED BY <1>1, <1>2, <1>3, <1>4, <1>5, <1>6, <1>7, SaverStep
        DEF IInv, TypeInv, storage, history, SavedInv, CommittedIsComplete

(* release() steals the lock unless it is free or one's own.               *)
LEMMA ReleaseStep ==
    ASSUME TypeInv, NEW n \in Agents, NEW who, release(n, who)
    PROVE  /\ lock' \in [Agents -> {"free", "trainer"} \cup Threads]
           /\ stolen' \in BOOLEAN
           /\ ~stolen' => ~stolen /\ lock[n] \in {"free", who}
           /\ \A m \in Agents : m # n => lock'[m] = lock[m]
BY DEF TypeInv, release

(* The file gets what the memory holds, which is the step to save.         *)
LEMMA PersistInv ==
    ASSUME IInv, NEW n \in Agents, NEW t \in Threads, Persist(n, t)
    PROVE  IInv'
<1> DEFINE s == saver[n][t].step
           source == saver[n][t].source
<1>1. TypeInv /\ saver[n][t] \in SaverRecs /\ saver[n][t].pc = "persist"
    BY DEF IInv, TypeInv, Persist, Thread
<1>2. s \in Steps /\ source \in 0 .. Torn
    BY <1>1 DEF TypeInv, SaverRecs
<1>3. /\ Thread(n, t, "persist", "done") /\ release(n, t)
      /\ files' = IF source = Nothing THEN files
                  ELSE [files EXCEPT ![s][n] = IF data[n] = source THEN source ELSE Torn]
      /\ UNCHANGED << trainers, shm, queue, doneFiles, tracker, dirty, split >>
    BY DEF Persist
<1>4. PICK r \in SaverRecs : /\ saver' = [saver EXCEPT ![n][t] = r]
                             /\ r.pc = "done" /\ r.step = s
    BY <1>1, <1>3, ThreadMoves DEF SaverPCs
<1>5. /\ lock' \in [Agents -> {"free", "trainer"} \cup Threads]
      /\ stolen' \in BOOLEAN
      /\ ~stolen' => ~stolen /\ lock[n] \in {"free", t}
      /\ \A m \in Agents : m # n => lock'[m] = lock[m]
    BY <1>1, <1>3, ReleaseStep
<1>6. \E x \in 0 .. Torn :
         /\ files' = [files EXCEPT ![s] = [files[s] EXCEPT ![n] = x]]
         /\ source # Nothing /\ data[n] = source => x = source
  <2>1. files \in [Steps -> [Agents -> 0 .. Torn]] /\ files[s][n] \in 0 .. Torn
      BY <1>1, <1>2 DEF TypeInv
  <2>2. CASE source = Nothing
    <3>1. files' = [files EXCEPT ![s] = [files[s] EXCEPT ![n] = files[s][n]]]
        BY <1>2, <1>3, <2>1, <2>2
    <3> QED BY <2>1, <2>2, <3>1
  <2>3. CASE source # Nothing
    <3> DEFINE y == IF data[n] = source THEN source ELSE Torn
    <3>1. files' = [files EXCEPT ![s] = [files[s] EXCEPT ![n] = y]]
        BY <1>2, <1>3, <2>1, <2>3
    <3>2. y \in 0 .. Torn /\ (data[n] = source => y = source)
        BY <1>2, ConstantFacts
    <3> QED BY <3>1, <3>2
  <2> QED BY <2>2, <2>3
<1>7. PICK x \in 0 .. Torn :
         /\ files' = [files EXCEPT ![s] = [files[s] EXCEPT ![n] = x]]
         /\ source # Nothing /\ data[n] = source => x = source
    BY <1>6
<1>8. files' \in [Steps -> [Agents -> 0 .. Torn]]
    BY <1>1, <1>2, <1>7 DEF TypeInv
<1>9. \A q \in Steps, m \in Agents :
          files'[q][m] = IF q = s /\ m = n THEN x ELSE files[q][m]
    BY <1>1, <1>2, <1>7 DEF TypeInv
<1>10. ASSUME Clean'
       PROVE  Clean /\ x = s
  <2>1. Clean
      BY <1>3, <1>5, <1>10 DEF Clean
  <2>2. source = s /\ data[n] = s
      BY <1>1, <2>1 DEF IInv, SavedInv
  <2>3. source # Nothing
      BY <1>2, <2>2, ConstantFacts DEF Nothing
  <2> QED BY <1>7, <2>1, <2>2, <2>3
<1>11. ASSUME Clean'
       PROVE  /\ files'[s][n] = s
              /\ \A q \in Steps, m \in Agents :
                     /\ files[q][m] = q => files'[q][m] = q
                     /\ << q, m >> \in doneFiles' => files'[q][m] = q
  <2>1. \A q \in Steps, m \in Agents : files[q][m] = q => files'[q][m] = q
      BY <1>9, <1>10, <1>11
  <2>2. \A q \in Steps, m \in Agents : << q, m >> \in doneFiles => files[q][m] = q
      BY <1>10, <1>11 DEF IInv, SavedInv
  <2> QED BY <1>2, <1>3, <1>9, <1>10, <1>11, <2>1, <2>2
<1>12. ASSUME Clean' PROVE CommittedIsComplete'
  <2>1. CommittedIsComplete
      BY <1>10, <1>12 DEF IInv, SavedInv
  <2>2. tracker > 0 => tracker \in Steps
      BY <1>1, ConstantFacts DEF TypeInv, Steps
  <2>3. tracker' = tracker
      BY <1>3
  <2>4. \A q \in Steps, m \in Agents : files[q][m] = q => files'[q][m] = q
      BY <1>11, <1>12
  <2> HIDE DEF s, source
  <2> QED BY <2>1, <2>2, <2>3, <2>4 DEF CommittedIsComplete
<1> HIDE DEF s, source
<1>13. Clean' => /\ Clean
                 /\ \A m \in Agents :
                       lock'[m] # lock[m] => m = n /\ lock[n] \in {"free", t}
    BY <1>5, <1>10 DEF Clean
<1>14. /\ UNCHANGED << trainers, shm, dirty, split, tracker >>
       /\ queue' \in [Agents -> Seq(Steps)] /\ tracker' \in 0 .. MaxStep
    BY <1>1, <1>3 DEF TypeInv
<1> QED BY <1>2, <1>4, <1>5, <1>8, <1>11, <1>12, <1>13, <1>14, SaverStep

(* A done file is made for a file that has been written.                   *)
LEMMA WriteDoneInv ==
    ASSUME IInv, NEW n \in Agents, NEW t \in Threads, WriteDone(n, t)
    PROVE  IInv'
<1> DEFINE s == saver[n][t].step
<1>1. TypeInv /\ s \in Steps /\ saver[n][t].pc = "done"
    BY DEF IInv, TypeInv, WriteDone, Thread
<1>2. UNCHANGED << trainers, shm, lock, queue, files, tracker, stolen, dirty, split >>
    BY DEF WriteDone, history
<1>3. PICK r \in SaverRecs : /\ saver' = [saver EXCEPT ![n][t] = r]
                             /\ r.pc \in {"finally", "error"} /\ r.step \in Steps
    BY <1>1, ThreadMoves DEF WriteDone, SaverPCs
<1>4. doneFiles' \subseteq doneFiles \union {<< s, n >>}
    BY DEF WriteDone
<1>5. ASSUME Clean'
      PROVE  /\ Clean /\ CommittedIsComplete'
             /\ \A q \in Steps, m \in Agents :
                    << q, m >> \in doneFiles' => files'[q][m] = q
  <2>1. Clean
      BY <1>2, <1>5 DEF Clean
  <2>2. SavedInv /\ files[s][n] = s
      BY <1>1, <2>1 DEF IInv, SavedInv
  <2> QED BY <1>2, <1>4, <2>1, <2>2 DEF SavedInv, CommittedIsComplete
<1> QED BY <1>1, <1>2, <1>3, <1>5, SaverStep DEF TypeInv

(* The second release is of a lock that is free, or steals one.            *)
LEMMA FinallyInv ==
    ASSUME IInv, NEW n \in Agents, NEW t \in Threads, Finally(n, t)
    PROVE  IInv'
<1>1. TypeInv
    BY DEF IInv
<1>2. release(n, t) /\ UNCHANGED << trainers, shm, queue, storage, dirty, split >>
    BY DEF Finally
<1>3. PICK r \in SaverRecs : /\ saver' = [saver EXCEPT ![n][t] = r]
                             /\ r.pc \in {"idle", "commit"}
                             /\ r.pc # "idle" => r.step \in Steps
  <2>1. CASE Thread(n, t, "finally", "commit")
      BY <1>1, <2>1, ThreadMoves DEF SaverPCs
  <2>2. CASE Finish(n, t)
      BY <2>2, SaverFacts DEF Finish
  <2> QED BY <2>1, <2>2 DEF Finally
<1>4. /\ lock' \in [Agents -> {"free", "trainer"} \cup Threads]
      /\ stolen' \in BOOLEAN
      /\ ~stolen' => ~stolen /\ lock[n] \in {"free", t}
      /\ \A m \in Agents : m # n => lock'[m] = lock[m]
    BY <1>1, <1>2, ReleaseStep
<1>5. Clean' => Clean /\ SavedInv
    BY <1>2, <1>4 DEF Clean, IInv
<1> QED BY <1>1, <1>2, <1>3, <1>4, <1>5, SaverStep
        DEF TypeInv, storage, Clean, SavedInv, CommittedIsComplete

(* A commit moves the tracker only to a step all of whose done files are   *)
(* there.                                                                  *)
LEMMA CommitInv ==
    ASSUME IInv, NEW n \in Agents, NEW t \in Threads, Commit(n, t)
    PROVE  IInv'
<1> DEFINE s == saver[n][t].step
<1>1. TypeInv /\ s \in Steps
    BY DEF IInv, TypeInv, Commit
<1>2. /\ saver' = [saver EXCEPT ![n][t] = Idle]
      /\ UNCHANGED << trainers, shm, lock, queue, stolen, dirty, files >>
    BY DEF Commit, Finish, history, storage
<1>3. \/ tracker' = tracker /\ split' = split
      \/ split' = (split \/ PartlyLoaded)
    BY <1>1 DEF Commit, TypeInv
<1>4. /\ tracker' = tracker \/ (tracker' = s /\ AllDone(s))
      /\ doneFiles' \subseteq doneFiles
  <2>1. CASE UNCHANGED storage
      BY <2>1 DEF storage
  <2>2. CASE /\ tracker' = IF AllDone(s) THEN s ELSE tracker
             /\ doneFiles' = doneFiles \ ({s} \X Agents)
      BY <2>2
  <2> QED BY <2>1, <2>2 DEF Commit
<1>5. tracker' \in 0 .. MaxStep
    BY <1>1, <1>4, ConstantFacts DEF TypeInv
<1>6. ASSUME Clean'
      PROVE  Clean /\ SavedInv /\ CommittedIsComplete'
  <2>1. Clean /\ SavedInv
      BY <1>2, <1>6 DEF Clean, IInv
  <2>2. CASE tracker' = tracker
      BY <1>2, <2>1, <2>2 DEF SavedInv, CommittedIsComplete
  <2>3. CASE tracker' = s /\ AllDone(s)
    <3>1. \A m \in Agents : files[s][m] = s
        BY <1>1, <2>1, <2>3 DEF SavedInv, AllDone
    <3> QED BY <1>2, <2>1, <2>3, <3>1 DEF CommittedIsComplete
  <2> QED BY <1>4, <2>1, <2>2, <2>3
<1> QED BY <1>1, <1>2, <1>4, <1>5, <1>6, <1>3, SaverFacts, SaverStep
        DEF TypeInv, SavedInv

(* Everything is empty.                                                    *)
LEMMA InitInv == Init => IInv
<1> SUFFICES ASSUME Init PROVE IInv
    OBVIOUS
<1>1. TypeInv
  <2>1. /\ saver \in [Agents -> [Threads -> SaverRecs]]
        /\ \A n \in Agents, t \in Threads : saver[n][t].pc = "idle"
      BY SaverFacts DEF Init
  <2>2. /\ trainer \in [Agents -> TrainerPCs] /\ queue \in [Agents -> Seq(Steps)]
        /\ meta \in [Agents -> [step : 0 .. MaxStep, writing : BOOLEAN]]
      BY ConstantFacts DEF Init, TrainerPCs
  <2>3. /\ data \in [Agents -> 0 .. Torn]
        /\ files \in [Steps -> [Agents -> 0 .. Torn]]
        /\ lock \in [Agents -> {"free", "trainer"} \cup Threads]
      BY ConstantFacts DEF Init, Nothing
  <2> QED BY <2>1, <2>2, <2>3, ConstantFacts DEF Init, TypeInv
<1>2. AcquiredInv /\ MarkInv /\ LoadingInv /\ FlagGuardsMemory /\ ResumeTogether
    BY DEF Init, AcquiredInv, MarkInv, LoadingInv, FlagGuardsMemory,
        ResumeTogether, Nothing
<1>3. HolderInv /\ SavedInv
    BY SaverFacts DEF Init, HolderInv, SavedInv, CommittedIsComplete
<1> QED BY <1>1, <1>2, <1>3 DEF IInv

(* One case for each action.                                               *)
LEMMA NextInv == IInv /\ [Next]_vars => IInv'
<1> SUFFICES ASSUME IInv, [Next]_vars PROVE IInv'
    OBVIOUS
<1>1. ASSUME NEW n \in Agents,
             \/ Load(n) \/ TryAcquire(n) \/ WriteStart(n) \/ WriteEnd(n)
             \/ Unlock(n) \/ PutEvent(n)
             \/ Killed(n) \/ ConnectionClosed(n) \/ WorkersFailed(n) \/ Reset(n)
      PROVE  IInv'
    BY <1>1, LoadInv, TryAcquireInv, WriteStartInv, WriteEndInv, UnlockInv,
       PutEventInv, KilledInv, ConnectionClosedInv, AgentStep, ResetInv
       DEF WorkersFailed, SaveCkptToStorage, savers
<1>2. ASSUME NEW n \in Agents,
             \/ TakeEvent(n) \/ Inspect(n) \/ Sync(n) \/ SyncTimeout(n) \/ Guard(n)
      PROVE  IInv'
    BY <1>2, TakeEventInv, InspectInv, SyncInv, SyncTimeoutInv, GuardInv
<1>3. ASSUME NEW n \in Agents, NEW t \in Threads, Save(n, t) PROVE IInv'
    BY <1>3, MakeDirInv, AcquireInv, LoadMemoryInv, PersistInv, WriteDoneInv,
       FinallyInv, CommitInv DEF Save
<1>4. CASE AllReduce \/ Barrier \/ NodeJoins \/ StartWorkers
    BY <1>4, AllReduceInv, BarrierInv, AgentStep, StartWorkersInv
       DEF NodeJoins, SaveCkptToStorage, savers
<1>5. CASE UNCHANGED vars
    BY <1>5, AgentStep DEF vars, savers, history
<1> QED BY <1>1, <1>2, <1>3, <1>4, <1>5 DEF Next

-----------------------------------------------------------------------------
(* The theorems.                                                           *)

(* The invariant holds in every reachable state of trainers, savers, lock  *)
(* server and storage.                                                     *)
THEOREM IInvInductive == Spec => []IInv
<1> QED BY InitInv, NextInv, PTL DEF Spec

(* Memory that is not marked as being written holds the step it names      *)
(* (save_state_dict and load_state_dict of ckpt_saver.py), even where      *)
(* locks were stolen and trainers killed.                                  *)
THEOREM FlagGuards == Spec => []FlagGuardsMemory
<1>1. IInv => FlagGuardsMemory
    BY DEF IInv
<1> QED BY <1>1, IInvInductive, PTL

(* The trainers of a world resume from one step (load of                   *)
(* full_ckpt_engine.py), although each decides for itself where to load    *)
(* from, unless their memories are not marked alike when they start or a   *)
(* saver moves the tracker file between the loads of two of them.          *)
THEOREM ResumesTogether == Spec => []ResumeTogether
<1>1. IInv => ResumeTogether
    BY DEF IInv
<1> QED BY <1>1, IInvInductive, PTL

(* commit_checkpoint of ckpt_saver.py never names an incomplete step in    *)
(* the tracker file unless a lock was released under a thread or a live    *)
(* trainer that held it, or a trainer killed while it wrote: the lock and  *)
(* the comparison of the steps under it are enough, whatever the savers'   *)
(* two threads, the event queue, the done directories, the timeouts and    *)
(* the restarts do.                                                        *)
THEOREM CommittedComplete == Spec => []CompleteUnlessUnlocked
<1>1. IInv => CompleteUnlessUnlocked
    BY DEF IInv, Clean, SavedInv, CompleteUnlessUnlocked
<1> QED BY <1>1, IInvInductive, PTL
==============================================================================
