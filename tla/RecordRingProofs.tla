-------------------------- MODULE RecordRingProofs --------------------------
(***************************************************************************)
(* Proofs about RecordRing and RingSnapshot, for every set of writers and  *)
(* calls, every capacity and every number of attempts.  What is said of    *)
(* the ring holds with or without a local controller.                      *)
(***************************************************************************)
EXTENDS RingSnapshot, TLAPS

-----------------------------------------------------------------------------
(* The inductive invariant.                                                *)

(* A writer inside addRecord pushes a real record.                         *)
CallInv == \A w \in Writers : Inside(w) => call[w] \in Calls

(* The scoped_lock works: whoever is inside has locked the mutex, alone.   *)
MutexInv ==
    /\ \A w \in Writers : Inside(w) => locked
    /\ \A v, w \in Writers : Inside(v) /\ Inside(w) => v = w

(* The history variables see every overlap of a clear() with a push.       *)
RaceInv ==
    /\ cpc # "off" /\ overlap => raced
    /\ cpc # "off" /\ SomeInside => overlap
    /\ cpc # "off" /\ ~overlap => numRecords = 0
    /\ cpc = "clear4" /\ ~overlap => head = 0

(* addr[6] counts the finished pushes, whatever clear() does.              *)
HasLoaded(w) ==
    wpc[w] \in {"copy", "copyCall", "copyId", "put2", "put3", "put4", "put6"}

EventInv ==
    /\ eventID = Len(log)
    /\ clearedAt <= eventID
    /\ \A w \in Writers : HasLoaded(w) => loc[w].ev = eventID

(* How far the memcpy has come.                                            *)
HasCopied(w) == wpc[w] \in {"put2", "put3", "put4", "put6"}

CopyInv ==
    \A w \in Writers :
        /\ wpc[w] = "copyId" \/ HasCopied(w) => slotCall[loc[w].tail] = call[w]
        /\ wpc[w] = "copyCall" \/ HasCopied(w) => slotId[loc[w].tail] = eventID

(* A slot under a half-done memcpy, and one whose record is published.     *)
Torn(s) ==
    \E w \in Writers : wpc[w] \in {"copyCall", "copyId"} /\ loc[w].tail = s

Fresh(s) ==
    /\ slotId[s] = eventID
    /\ \E w \in Writers : HasCopied(w) /\ loc[w].tail = s

IdInv ==
    \A s \in Slots :
        slotCall[s] # NoCall /\ ~Torn(s) => slotId[s] < eventID \/ Fresh(s)

(* n records from slot h on are the newest n finished ones; those after    *)
(* the oldest of a full ring are.                                          *)
Window(n, h) ==
    \A i \in 0 .. n - 1 : Holds(Slot(h, i), eventID - n + i)

WindowButOldest(n, h) ==
    \A i \in 0 .. n - 1 :
        i > 0 \/ n < MaxRecords => Holds(Slot(h, i), eventID - n + i)

Sound ==
    /\ tail = Slot(head, numRecords)
    /\ numRecords <= eventID - clearedAt
    /\ Window(numRecords, head)

(* The ring as a push finds it, takes it apart and leaves it.              *)
PushInv(w) ==
    /\ wpc[w] \in {"load2", "load3", "load4", "copy", "unlock"} => Sound
    /\ wpc[w] \in {"load3", "load4", "copy", "copyCall", "copyId", "put2"}
          => numRecords = loc[w].num
    /\ wpc[w] \in {"put3", "put4", "put6"} => numRecords = NewNum(loc[w])
    /\ wpc[w] \in {"load4", "copy", "copyCall", "copyId", "put2", "put3"}
          => head = loc[w].head
    /\ wpc[w] \in {"put4", "put6"} => head = NewHead(loc[w])
    /\ wpc[w] \in {"copy", "copyCall", "copyId", "put2", "put3", "put4"}
          => tail = loc[w].tail
    /\ wpc[w] = "put6" => tail = NewTail(loc[w])
    /\ HasLoaded(w) => /\ loc[w].tail = Slot(loc[w].head, loc[w].num)
                       /\ loc[w].num <= eventID - clearedAt
                       /\ WindowButOldest(loc[w].num, loc[w].head)

RingInv ==
    ~raced => /\ Quiet => Sound
              /\ \A w \in Writers : PushInv(w)

IInv ==
    /\ TypeOK /\ CallInv /\ MutexInv /\ RaceInv
    /\ EventInv /\ CopyInv /\ IdInv /\ EventIdsUnique
    /\ RingInv

-----------------------------------------------------------------------------
(* Arithmetic of the ring.                                                 *)

(* The slot of the i-th oldest record, without the modulo.                 *)
LEMMA SlotIs ==
    ASSUME NEW h \in Slots, NEW i \in 0 .. MaxRecords
    PROVE  /\ Slot(h, i) = IF h + i < MaxRecords THEN h + i
                           ELSE h + i - MaxRecords
           /\ Slot(h, i) \in Slots
<1> DEFINE x == h + i
<1>1. MaxRecords \in Nat \ {0} /\ x \in Nat /\ x < 2 * MaxRecords
    BY RingAssumption DEF Slots
<1> HIDE DEF x
<1>2. x % MaxRecords = IF x < MaxRecords THEN x ELSE x - MaxRecords
    BY <1>1
<1>3. Slot(h, i) = x % MaxRecords
    BY DEF x, Slot
<1>4. x % MaxRecords \in Slots
    BY <1>1, <1>2 DEF Slots
<1> QED BY <1>1, <1>2, <1>3, <1>4 DEF x, Slots

(* Two different positions of the window are two different slots.          *)
LEMMA SlotInjective ==
    ASSUME NEW h \in Slots,
           NEW i \in 0 .. MaxRecords - 1, NEW j \in 0 .. MaxRecords - 1,
           Slot(h, i) = Slot(h, j)
    PROVE  i = j
<1>1. i \in 0 .. MaxRecords /\ j \in 0 .. MaxRecords
    BY RingAssumption
<1>2. Slot(h, i) = IF h + i < MaxRecords THEN h + i ELSE h + i - MaxRecords
    BY <1>1, SlotIs
<1>3. Slot(h, j) = IF h + j < MaxRecords THEN h + j ELSE h + j - MaxRecords
    BY <1>1, SlotIs
<1>4. h \in Int /\ i \in Int /\ j \in Int /\ MaxRecords \in Int
    BY RingAssumption DEF Slots
<1>5. 0 <= i /\ i < MaxRecords /\ 0 <= j /\ j < MaxRecords
    BY RingAssumption
<1>6. (IF h + i < MaxRecords THEN h + i ELSE h + i - MaxRecords)
        = (IF h + j < MaxRecords THEN h + j ELSE h + j - MaxRecords)
    BY <1>2, <1>3
<1> QED BY <1>4, <1>5, <1>6

(* Advancing head by one moves every position by one.                      *)
LEMMA SlotShift ==
    ASSUME NEW h \in Slots, NEW i \in 0 .. MaxRecords - 1
    PROVE  /\ Slot(h, 1) \in Slots
           /\ Slot(Slot(h, 1), i) = Slot(h, i + 1)
           /\ Slot(Slot(h, i), 1) = Slot(h, i + 1)
           /\ Slot(h, 0) = h
           /\ Slot(h, MaxRecords) = h
<1>1. /\ i \in 0 .. MaxRecords /\ i + 1 \in 0 .. MaxRecords
      /\ 0 \in 0 .. MaxRecords /\ 1 \in 0 .. MaxRecords
      /\ MaxRecords \in 0 .. MaxRecords
    BY RingAssumption
<1>2. Slot(h, 1) \in Slots /\ Slot(h, i) \in Slots
    BY <1>1, SlotIs
<1>3. Slot(h, 1) = IF h + 1 < MaxRecords THEN h + 1 ELSE h + 1 - MaxRecords
    BY <1>1, SlotIs
<1>4. Slot(h, i) = IF h + i < MaxRecords THEN h + i ELSE h + i - MaxRecords
    BY <1>1, SlotIs
<1>5. Slot(Slot(h, 1), i) = IF Slot(h, 1) + i < MaxRecords
                            THEN Slot(h, 1) + i ELSE Slot(h, 1) + i - MaxRecords
    BY <1>1, <1>2, SlotIs
<1>6. Slot(Slot(h, i), 1) = IF Slot(h, i) + 1 < MaxRecords
                            THEN Slot(h, i) + 1 ELSE Slot(h, i) + 1 - MaxRecords
    BY <1>1, <1>2, SlotIs
<1>7. Slot(h, i + 1) = IF h + (i + 1) < MaxRecords THEN h + (i + 1)
                       ELSE h + (i + 1) - MaxRecords
    BY <1>1, SlotIs
<1>8. Slot(h, 0) = h /\ Slot(h, MaxRecords) = h
    BY <1>1, SlotIs, RingAssumption DEF Slots
<1> QED BY <1>2, <1>3, <1>4, <1>5, <1>6, <1>7, <1>8, RingAssumption DEF Slots

(* What push() stores stays in range.                                      *)
LEMMA NewInRange ==
    ASSUME NEW l \in [num : 0 .. MaxRecords, head : Slots, tail : Slots,
                      ev : Nat]
    PROVE  /\ NewNum(l) \in 0 .. MaxRecords
           /\ NewHead(l) \in Slots
           /\ NewTail(l) \in Slots
           /\ NewTail(l) = Slot(l.tail, 1)
           /\ NewHead(l) = IF l.num = MaxRecords THEN Slot(l.head, 1)
                           ELSE l.head
<1>1. l.num \in 0 .. MaxRecords /\ l.head \in Slots /\ l.tail \in Slots
    OBVIOUS
<1>2. 1 \in 0 .. MaxRecords
    BY RingAssumption
<1>3. Slot(l.tail, 1) \in Slots /\ Slot(l.head, 1) \in Slots
    BY <1>1, <1>2, SlotIs
<1>4. NewTail(l) = Slot(l.tail, 1)
    BY DEF NewTail, Slot
<1>5. NewHead(l) = IF l.num = MaxRecords THEN Slot(l.head, 1) ELSE l.head
    BY DEF NewHead, Slot
<1>6. NewNum(l) \in 0 .. MaxRecords
    BY <1>1, RingAssumption DEF NewNum
<1> QED BY <1>1, <1>3, <1>4, <1>5, <1>6

-----------------------------------------------------------------------------
(* Type correctness.                                                       *)

(* The zero-filled segment after updateMeta(true) is well typed, and every *)
(* writer inside addRecord has a record in hand.                           *)
LEMMA TypeInit == Init => TypeOK /\ CallInv
<1> SUFFICES ASSUME Init PROVE TypeOK /\ CallInv
    OBVIOUS
<1>1. 0 \in Slots /\ 0 \in 0 .. MaxRecords
    BY RingAssumption DEF Slots
<1> QED BY <1>1 DEF Init, TypeOK, CallInv, Inside, WriterPCs

(* Every load, store, lock operation and clear step keeps the types.       *)
LEMMA TypeStep == TypeOK /\ CallInv /\ [RingNext]_ringVars => TypeOK' /\ CallInv'
<1> SUFFICES ASSUME TypeOK, CallInv, [RingNext]_ringVars
             PROVE  TypeOK' /\ CallInv'
    OBVIOUS
<1> USE DEF TypeOK, CallInv, Inside, Goto, WriterPCs
<1>1. CASE \E w \in Writers, c \in Calls : Lock(w, c)
    BY <1>1, SMTT(30) DEF Lock
<1>2. ASSUME NEW w \in Writers, LoadNum(w) PROVE TypeOK' /\ CallInv'
    BY <1>2 DEF LoadNum
<1>3. ASSUME NEW w \in Writers, LoadHead(w) PROVE TypeOK' /\ CallInv'
    BY <1>3 DEF LoadHead
<1>4. ASSUME NEW w \in Writers, LoadTail(w) PROVE TypeOK' /\ CallInv'
    BY <1>4, ZenonT(30) DEF LoadTail
<1>5. ASSUME NEW w \in Writers, CopyCall(w) PROVE TypeOK' /\ CallInv'
    BY <1>5 DEF CopyCall
<1>6. ASSUME NEW w \in Writers, CopyId(w) PROVE TypeOK' /\ CallInv'
    BY <1>6 DEF CopyId
<1>7. ASSUME NEW w \in Writers, PutNum(w) PROVE TypeOK' /\ CallInv'
    BY <1>7, NewInRange DEF PutNum
<1>8. ASSUME NEW w \in Writers, PutHead(w) PROVE TypeOK' /\ CallInv'
    BY <1>8, NewInRange DEF PutHead
<1>9. ASSUME NEW w \in Writers, PutTail(w) PROVE TypeOK' /\ CallInv'
    BY <1>9, NewInRange DEF PutTail
<1>10. ASSUME NEW w \in Writers, PutEventID(w) PROVE TypeOK' /\ CallInv'
    BY <1>10, SMTT(30) DEF PutEventID
<1>11. ASSUME NEW w \in Writers, Unlock(w) PROVE TypeOK' /\ CallInv'
    BY <1>11 DEF Unlock
<1>12. CASE Clear
  <2>1. 0 \in Slots /\ 0 \in 0 .. MaxRecords
      BY RingAssumption DEF Slots
  <2>2. overlap' \in BOOLEAN /\ raced' \in BOOLEAN
      BY <1>12, Zenon DEF Clear, ClearNum, ClearHead, ClearTail, SomeInside
  <2> QED BY <1>12, <2>1, <2>2 DEF Clear, ClearNum, ClearHead, ClearTail
<1>13. CASE UNCHANGED ringVars
    BY <1>13 DEF ringVars
<1> QED BY <1>1, <1>2, <1>3, <1>4, <1>5, <1>6, <1>7, <1>8, <1>9, <1>10, <1>11,
        <1>12, <1>13 DEF RingNext, Push

(* No interleaving of pushes and clears takes a cell of the ring out of    *)
(* its range (push and updateMeta of shm_storage.cpp, clear of             *)
(* local_analyzer.py).                                                     *)
THEOREM TypeCorrect == RingSpec => []TypeOK
<1>1. TypeOK /\ CallInv /\ [RingNext]_ringVars => (TypeOK /\ CallInv)'
    BY TypeStep
<1> QED BY TypeInit, <1>1, PTL DEF RingSpec

-----------------------------------------------------------------------------
(* The parts of the inductive invariant, one step lemma each.              *)

(* recordLock is held exactly while one writer is inside addRecord.        *)
LEMMA MutexStep ==
    TypeOK /\ MutexInv /\ [RingNext]_ringVars => MutexInv'
<1> SUFFICES ASSUME TypeOK, MutexInv, [RingNext]_ringVars
             PROVE  MutexInv'
    OBVIOUS
<1> USE DEF TypeOK, MutexInv, Inside, Goto, WriterPCs
<1>1. ASSUME NEW w \in Writers, NEW c \in Calls, Lock(w, c) PROVE MutexInv'
    BY <1>1 DEF Lock
<1>2. ASSUME NEW w \in Writers, LoadNum(w) PROVE MutexInv'
    BY <1>2 DEF LoadNum
<1>3. ASSUME NEW w \in Writers, LoadHead(w) PROVE MutexInv'
    BY <1>3 DEF LoadHead
<1>4. ASSUME NEW w \in Writers, LoadTail(w) PROVE MutexInv'
    BY <1>4 DEF LoadTail
<1>5. ASSUME NEW w \in Writers, CopyCall(w) PROVE MutexInv'
    BY <1>5 DEF CopyCall
<1>6. ASSUME NEW w \in Writers, CopyId(w) PROVE MutexInv'
    BY <1>6 DEF CopyId
<1>7. ASSUME NEW w \in Writers, PutNum(w) PROVE MutexInv'
    BY <1>7 DEF PutNum
<1>8. ASSUME NEW w \in Writers, PutHead(w) PROVE MutexInv'
    BY <1>8 DEF PutHead
<1>9. ASSUME NEW w \in Writers, PutTail(w) PROVE MutexInv'
    BY <1>9 DEF PutTail
<1>10. ASSUME NEW w \in Writers, PutEventID(w) PROVE MutexInv'
    BY <1>10 DEF PutEventID
<1>11. ASSUME NEW w \in Writers, Unlock(w) PROVE MutexInv'
    BY <1>11 DEF Unlock
<1>12. CASE ClearNum
    BY <1>12 DEF ClearNum
<1>13. CASE ClearHead
    BY <1>13 DEF ClearHead
<1>14. CASE ClearTail
    BY <1>14 DEF ClearTail
<1>15. CASE UNCHANGED ringVars
    BY <1>15 DEF ringVars
<1> QED BY <1>1, <1>2, <1>3, <1>4, <1>5, <1>6, <1>7, <1>8, <1>9, <1>10, <1>11,
        <1>12, <1>13, <1>14, <1>15 DEF RingNext, Push, Clear

(* A clear() under way while a writer is inside is recorded as a race.     *)
LEMMA RaceStep ==
    TypeOK /\ MutexInv /\ RaceInv /\ [RingNext]_ringVars => RaceInv'
<1> SUFFICES ASSUME TypeOK, MutexInv, RaceInv, [RingNext]_ringVars
             PROVE  RaceInv'
    OBVIOUS
<1> USE DEF TypeOK, MutexInv, RaceInv, SomeInside, Inside, Goto, WriterPCs
<1>1. ASSUME NEW w \in Writers, NEW c \in Calls, Lock(w, c) PROVE RaceInv'
    BY <1>1 DEF Lock
<1>2. ASSUME NEW w \in Writers, LoadNum(w) PROVE RaceInv'
    BY <1>2 DEF LoadNum
<1>3. ASSUME NEW w \in Writers, LoadHead(w) PROVE RaceInv'
    BY <1>3 DEF LoadHead
<1>4. ASSUME NEW w \in Writers, LoadTail(w) PROVE RaceInv'
    BY <1>4 DEF LoadTail
<1>5. ASSUME NEW w \in Writers, CopyCall(w) PROVE RaceInv'
    BY <1>5 DEF CopyCall
<1>6. ASSUME NEW w \in Writers, CopyId(w) PROVE RaceInv'
    BY <1>6 DEF CopyId
<1>7. ASSUME NEW w \in Writers, PutNum(w) PROVE RaceInv'
    BY <1>7 DEF PutNum
<1>8. ASSUME NEW w \in Writers, PutHead(w) PROVE RaceInv'
    BY <1>8 DEF PutHead
<1>9. ASSUME NEW w \in Writers, PutTail(w) PROVE RaceInv'
    BY <1>9 DEF PutTail
<1>10. ASSUME NEW w \in Writers, PutEventID(w) PROVE RaceInv'
    BY <1>10 DEF PutEventID
<1>11. ASSUME NEW w \in Writers, Unlock(w) PROVE RaceInv'
    BY <1>11 DEF Unlock
<1>12. CASE ClearNum
    BY <1>12 DEF ClearNum
<1>13. CASE ClearHead
    BY <1>13 DEF ClearHead
<1>14. CASE ClearTail
    BY <1>14 DEF ClearTail
<1>15. CASE UNCHANGED ringVars
    BY <1>15 DEF ringVars
<1> QED BY <1>1, <1>2, <1>3, <1>4, <1>5, <1>6, <1>7, <1>8, <1>9, <1>10, <1>11,
        <1>12, <1>13, <1>14, <1>15 DEF RingNext, Push, Clear

(* addr[6] counts the finished pushes, and the writer inside has loaded it. *)
LEMMA EventStep ==
    TypeOK /\ CallInv /\ MutexInv /\ EventInv /\ [RingNext]_ringVars => EventInv'
<1> SUFFICES ASSUME TypeOK, CallInv, MutexInv, EventInv, [RingNext]_ringVars
             PROVE  EventInv'
    OBVIOUS
<1> USE DEF TypeOK, CallInv, MutexInv, EventInv, HasLoaded, Inside, Goto, WriterPCs
<1>1. ASSUME NEW w \in Writers, NEW c \in Calls, Lock(w, c) PROVE EventInv'
    BY <1>1 DEF Lock
<1>2. ASSUME NEW w \in Writers, LoadNum(w) PROVE EventInv'
    BY <1>2 DEF LoadNum
<1>3. ASSUME NEW w \in Writers, LoadHead(w) PROVE EventInv'
    BY <1>3 DEF LoadHead
<1>4. ASSUME NEW w \in Writers, LoadTail(w) PROVE EventInv'
    BY <1>4 DEF LoadTail
<1>5. ASSUME NEW w \in Writers, CopyCall(w) PROVE EventInv'
    BY <1>5 DEF CopyCall
<1>6. ASSUME NEW w \in Writers, CopyId(w) PROVE EventInv'
    BY <1>6 DEF CopyId
<1>7. ASSUME NEW w \in Writers, PutNum(w) PROVE EventInv'
    BY <1>7 DEF PutNum
<1>8. ASSUME NEW w \in Writers, PutHead(w) PROVE EventInv'
    BY <1>8 DEF PutHead
<1>9. ASSUME NEW w \in Writers, PutTail(w) PROVE EventInv'
    BY <1>9 DEF PutTail
<1>10. ASSUME NEW w \in Writers, PutEventID(w) PROVE EventInv'
  <2>1. eventID' = eventID + 1 /\ clearedAt' = clearedAt
      BY <1>10 DEF PutEventID
  <2>2. log' = Append(log, call[w]) /\ call[w] \in Calls
      BY <1>10 DEF PutEventID
  <2>3. Len(log') = Len(log) + 1
      BY <2>2
  <2>4. \A v \in Writers : ~HasLoaded(v)'
      BY <1>10 DEF PutEventID
  <2> QED BY <2>1, <2>3, <2>4
<1>11. ASSUME NEW w \in Writers, Unlock(w) PROVE EventInv'
    BY <1>11 DEF Unlock
<1>12. CASE ClearNum
    BY <1>12 DEF ClearNum
<1>13. CASE ClearHead
    BY <1>13 DEF ClearHead
<1>14. CASE ClearTail
    BY <1>14 DEF ClearTail
<1>15. CASE UNCHANGED ringVars
    BY <1>15 DEF ringVars
<1> QED BY <1>1, <1>2, <1>3, <1>4, <1>5, <1>6, <1>7, <1>8, <1>9, <1>10, <1>11,
        <1>12, <1>13, <1>14, <1>15 DEF RingNext, Push, Clear

(* What a writer has copied of its record is in the slot it loaded.        *)
LEMMA CopyStep ==
    TypeOK /\ MutexInv /\ EventInv /\ CopyInv /\ [RingNext]_ringVars => CopyInv'
<1> SUFFICES ASSUME TypeOK, MutexInv, EventInv, CopyInv, [RingNext]_ringVars
             PROVE  CopyInv'
    OBVIOUS
<1> USE DEF TypeOK, MutexInv, EventInv, CopyInv, HasLoaded, HasCopied, Inside, Goto, WriterPCs
<1>1. ASSUME NEW w \in Writers, NEW c \in Calls, Lock(w, c) PROVE CopyInv'
    BY <1>1 DEF Lock
<1>2. ASSUME NEW w \in Writers, LoadNum(w) PROVE CopyInv'
    BY <1>2 DEF LoadNum
<1>3. ASSUME NEW w \in Writers, LoadHead(w) PROVE CopyInv'
    BY <1>3 DEF LoadHead
<1>4. ASSUME NEW w \in Writers, LoadTail(w) PROVE CopyInv'
    BY <1>4 DEF LoadTail
<1>5. ASSUME NEW w \in Writers, CopyCall(w) PROVE CopyInv'
    BY <1>5 DEF CopyCall
<1>6. ASSUME NEW w \in Writers, CopyId(w) PROVE CopyInv'
    BY <1>6 DEF CopyId
<1>7. ASSUME NEW w \in Writers, PutNum(w) PROVE CopyInv'
    BY <1>7 DEF PutNum
<1>8. ASSUME NEW w \in Writers, PutHead(w) PROVE CopyInv'
    BY <1>8 DEF PutHead
<1>9. ASSUME NEW w \in Writers, PutTail(w) PROVE CopyInv'
    BY <1>9 DEF PutTail
<1>10. ASSUME NEW w \in Writers, PutEventID(w) PROVE CopyInv'
    BY <1>10 DEF PutEventID
<1>11. ASSUME NEW w \in Writers, Unlock(w) PROVE CopyInv'
    BY <1>11 DEF Unlock
<1>12. CASE ClearNum
    BY <1>12 DEF ClearNum
<1>13. CASE ClearHead
    BY <1>13 DEF ClearHead
<1>14. CASE ClearTail
    BY <1>14 DEF ClearTail
<1>15. CASE UNCHANGED ringVars
    BY <1>15 DEF ringVars
<1> QED BY <1>1, <1>2, <1>3, <1>4, <1>5, <1>6, <1>7, <1>8, <1>9, <1>10, <1>11,
        <1>12, <1>13, <1>14, <1>15 DEF RingNext, Push, Clear

(* While w is inside, everybody else is outside.                           *)
LEMMA Alone ==
    ASSUME TypeOK, MutexInv, NEW w \in Writers, Inside(w)
    PROVE  \A v \in Writers : v # w => wpc[v] = "out"
BY DEF TypeOK, MutexInv, Inside

(* Every record outside the slot of the push under way is older than it,   *)
(* and carries an id of its own.                                           *)
LEMMA OthersOlder ==
    ASSUME TypeOK, MutexInv, IdInv, EventIdsUnique,
           NEW w \in Writers, HasLoaded(w)
    PROVE  /\ \A s \in Slots : s # loc[w].tail /\ slotCall[s] # NoCall
                                  => slotId[s] < eventID
           /\ \A s, t \in Slots :
                 /\ s # t /\ s # loc[w].tail /\ t # loc[w].tail
                 /\ slotCall[s] # NoCall /\ slotCall[t] # NoCall
                 => slotId[s] # slotId[t]
<1>1. \A v \in Writers : v # w => wpc[v] = "out"
    BY Alone DEF HasLoaded, Inside
<1>2. \A s \in Slots : s # loc[w].tail => ~Torn(s) /\ ~Fresh(s)
    BY <1>1 DEF Torn, Fresh, HasCopied
<1>3. \A s \in Slots : s # loc[w].tail /\ slotCall[s] # NoCall
                          => slotId[s] < eventID
    BY <1>2 DEF IdInv
<1>4. ASSUME NEW s \in Slots, NEW t \in Slots,
             s # t, s # loc[w].tail, t # loc[w].tail,
             slotCall[s] # NoCall, slotCall[t] # NoCall
      PROVE  slotId[s] # slotId[t]
  <2>1. SUFFICES ASSUME slotId[s] = slotId[t] PROVE FALSE
      OBVIOUS
  <2>2. PICK v \in Writers :
            wpc[v] \in {"copyCall", "copyId"} /\ loc[v].tail \in {s, t}
      BY <1>4, <2>1 DEF EventIdsUnique
  <2> QED BY <1>1, <1>4, <2>2
<1> QED BY <1>3, <1>4

(* The two id invariants from what is true of the slot of the push: it is  *)
(* torn, or it holds the newest id.                                        *)
LEMMA IdsAfterCopy ==
    ASSUME TypeOK, MutexInv, IdInv, EventIdsUnique, TypeOK',
           NEW w \in Writers, HasLoaded(w),
           eventID' = eventID, loc' = loc,
           \A s \in Slots : s # loc[w].tail =>
               slotCall'[s] = slotCall[s] /\ slotId'[s] = slotId[s],
           \/ wpc'[w] \in {"copyCall", "copyId"}
           \/ HasCopied(w)' /\ slotId'[loc[w].tail] = eventID
    PROVE  IdInv' /\ EventIdsUnique'
<1>0. PICK z \in Slots : z = loc[w].tail
    BY DEF TypeOK
<1>1. loc'[w].tail = z
    BY <1>0
<1>2. \A s \in Slots : s # z /\ slotCall'[s] # NoCall => slotId'[s] < eventID
    BY <1>0, OthersOlder
<1>3. \A s, t \in Slots :
          /\ s # t /\ s # z /\ t # z
          /\ slotCall'[s] # NoCall /\ slotCall'[t] # NoCall
          => slotId'[s] # slotId'[t]
    BY <1>0, OthersOlder
<1>4. slotId' \in [Slots -> Nat] /\ eventID \in Nat
    BY DEF TypeOK
<1>5. CASE wpc'[w] \in {"copyCall", "copyId"}
  <2>1. Torn(z)'
      BY <1>1, <1>5 DEF Torn
  <2>2. IdInv'
      BY <1>2, <2>1 DEF IdInv
  <2>3. EventIdsUnique'
      BY <1>1, <1>3, <1>5 DEF EventIdsUnique
  <2> QED BY <2>2, <2>3
<1>6. CASE HasCopied(w)' /\ slotId'[z] = eventID
  <2>1. Fresh(z)'
      BY <1>1, <1>6 DEF Fresh
  <2>2. IdInv'
      BY <1>2, <2>1 DEF IdInv
  <2>3. \A s \in Slots : s # z /\ slotCall'[s] # NoCall => slotId'[s] # slotId'[z]
      BY <1>2, <1>4, <1>6
  <2>4. EventIdsUnique'
      BY <1>3, <2>3 DEF EventIdsUnique
  <2> QED BY <2>2, <2>4
<1> QED BY <1>0, <1>5, <1>6

(* The ids in the slots stay below addr[6] and differ from each other,     *)
(* save in a slot under a half-done memcpy.                                *)
LEMMA IdStep ==
    TypeOK /\ CallInv /\ MutexInv /\ EventInv /\ CopyInv /\ IdInv
        /\ EventIdsUnique /\ [RingNext]_ringVars
        => IdInv' /\ EventIdsUnique'
<1> SUFFICES ASSUME TypeOK, CallInv, MutexInv, EventInv, CopyInv, IdInv,
                    EventIdsUnique, [RingNext]_ringVars
             PROVE  IdInv' /\ EventIdsUnique'
    OBVIOUS
<1>0. TypeOK'
    BY TypeStep
<1> USE DEF TypeOK, CallInv, MutexInv, EventInv, CopyInv, IdInv, EventIdsUnique,
       HasLoaded, HasCopied, Torn, Fresh, Inside, Goto, WriterPCs
<1>1. ASSUME NEW w \in Writers, NEW c \in Calls, Lock(w, c) PROVE IdInv' /\ EventIdsUnique'
    BY <1>1 DEF Lock
<1>2. ASSUME NEW w \in Writers, LoadNum(w) PROVE IdInv' /\ EventIdsUnique'
    BY <1>2 DEF LoadNum
<1>3. ASSUME NEW w \in Writers, LoadHead(w) PROVE IdInv' /\ EventIdsUnique'
    BY <1>3 DEF LoadHead
<1>4. ASSUME NEW w \in Writers, LoadTail(w) PROVE IdInv' /\ EventIdsUnique'
    BY <1>4 DEF LoadTail
<1>5. ASSUME NEW w \in Writers, CopyCall(w) PROVE IdInv' /\ EventIdsUnique'
  <2>1. HasLoaded(w) /\ eventID' = eventID /\ loc' = loc
      BY <1>5 DEF CopyCall
  <2>2. \A s \in Slots : s # loc[w].tail =>
            slotCall'[s] = slotCall[s] /\ slotId'[s] = slotId[s]
      BY <1>5 DEF CopyCall
  <2>3. \/ wpc'[w] \in {"copyCall", "copyId"}
        \/ HasCopied(w)' /\ slotId'[loc[w].tail] = eventID
      BY <1>5 DEF CopyCall
  <2> HIDE DEF TypeOK, MutexInv, IdInv, EventIdsUnique, HasLoaded, HasCopied
  <2> QED BY <1>0, <2>1, <2>2, <2>3, IdsAfterCopy
<1>6. ASSUME NEW w \in Writers, CopyId(w) PROVE IdInv' /\ EventIdsUnique'
  <2>1. HasLoaded(w) /\ eventID' = eventID /\ loc' = loc
      BY <1>6 DEF CopyId
  <2>2. \A s \in Slots : s # loc[w].tail =>
            slotCall'[s] = slotCall[s] /\ slotId'[s] = slotId[s]
      BY <1>6 DEF CopyId
  <2>3. \/ wpc'[w] \in {"copyCall", "copyId"}
        \/ HasCopied(w)' /\ slotId'[loc[w].tail] = eventID
      BY <1>6 DEF CopyId
  <2> HIDE DEF TypeOK, MutexInv, IdInv, EventIdsUnique, HasLoaded, HasCopied
  <2> QED BY <1>0, <2>1, <2>2, <2>3, IdsAfterCopy
<1>7. ASSUME NEW w \in Writers, PutNum(w) PROVE IdInv' /\ EventIdsUnique'
  <2>1. HasLoaded(w) /\ eventID' = eventID /\ loc' = loc
      BY <1>7 DEF PutNum
  <2>2. \A s \in Slots : s # loc[w].tail =>
            slotCall'[s] = slotCall[s] /\ slotId'[s] = slotId[s]
      BY <1>7 DEF PutNum
  <2>3. \/ wpc'[w] \in {"copyCall", "copyId"}
        \/ HasCopied(w)' /\ slotId'[loc[w].tail] = eventID
      BY <1>7 DEF PutNum
  <2> HIDE DEF TypeOK, MutexInv, IdInv, EventIdsUnique, HasLoaded, HasCopied
  <2> QED BY <1>0, <2>1, <2>2, <2>3, IdsAfterCopy
<1>8. ASSUME NEW w \in Writers, PutHead(w) PROVE IdInv' /\ EventIdsUnique'
    BY <1>8 DEF PutHead
<1>9. ASSUME NEW w \in Writers, PutTail(w) PROVE IdInv' /\ EventIdsUnique'
    BY <1>9 DEF PutTail
<1>10. ASSUME NEW w \in Writers, PutEventID(w) PROVE IdInv' /\ EventIdsUnique'
  <2>1. /\ HasLoaded(w) /\ eventID' = eventID + 1
        /\ slotCall' = slotCall /\ slotId' = slotId
      BY <1>10 DEF PutEventID
  <2>2. slotId[loc[w].tail] = eventID
      BY <1>10 DEF PutEventID
  <2>3. /\ \A s \in Slots : s # loc[w].tail /\ slotCall[s] # NoCall
                               => slotId[s] < eventID
        /\ \A s, t \in Slots :
              /\ s # t /\ s # loc[w].tail /\ t # loc[w].tail
              /\ slotCall[s] # NoCall /\ slotCall[t] # NoCall
              => slotId[s] # slotId[t]
      BY <2>1, OthersOlder
  <2>4. slotId \in [Slots -> Nat] /\ eventID \in Nat
      OBVIOUS
  <2>5. IdInv'
    <3>1. \A s \in Slots : slotCall[s] # NoCall => slotId[s] < eventID + 1
      <4> HIDE DEF TypeOK, CallInv, MutexInv, EventInv, CopyInv, IdInv,
              EventIdsUnique
      <4> QED BY <2>2, <2>3, <2>4
    <3>2. \A s \in Slots : slotCall'[s] # NoCall => slotId'[s] < eventID'
      <4> HIDE DEF TypeOK, CallInv, MutexInv, EventInv, CopyInv, IdInv,
              EventIdsUnique
      <4> QED BY <2>1, <3>1
    <3> HIDE DEF TypeOK, CallInv, MutexInv, EventInv, CopyInv,
            EventIdsUnique, Torn, Fresh
    <3> QED BY <3>2
  <2>6. \A s, t \in Slots :
            s # t /\ slotCall[s] # NoCall /\ slotCall[t] # NoCall
            => slotId[s] # slotId[t]
    <3> HIDE DEF TypeOK, CallInv, MutexInv, EventInv, CopyInv, IdInv,
            EventIdsUnique
    <3> QED BY <2>2, <2>3, <2>4
  <2>7. EventIdsUnique'
      BY <2>1, <2>6
  <2> QED BY <2>5, <2>7
<1>11. ASSUME NEW w \in Writers, Unlock(w) PROVE IdInv' /\ EventIdsUnique'
    BY <1>11 DEF Unlock
<1>12. CASE ClearNum
    BY <1>12 DEF ClearNum
<1>13. CASE ClearHead
    BY <1>13 DEF ClearHead
<1>14. CASE ClearTail
    BY <1>14 DEF ClearTail
<1>15. CASE UNCHANGED ringVars
    BY <1>15 DEF ringVars
<1> QED BY <1>1, <1>2, <1>3, <1>4, <1>5, <1>6, <1>7, <1>8, <1>9, <1>10, <1>11,
        <1>12, <1>13, <1>14, <1>15 DEF RingNext, Push, Clear

(* A step of the only writer inside establishes RingInv through PushInv.   *)
LEMMA RingByPush ==
    ASSUME NEW w \in Writers, Inside(w)',
           \A v \in Writers : v # w => wpc'[v] = "out",
           PushInv(w)'
    PROVE  RingInv'
<1>1. ~Quiet'
    BY DEF Quiet, SomeInside
<1>2. ASSUME NEW v \in Writers, v # w PROVE PushInv(v)'
    BY <1>2 DEF PushInv, HasLoaded
<1> QED BY <1>1, <1>2 DEF RingInv

(* The memcpy of a push touches no record but the oldest of a full ring.   *)
LEMMA CopyKeepsWindow ==
    ASSUME TypeOK, NEW n \in 0 .. MaxRecords, NEW h \in Slots,
           WindowButOldest(n, h),
           eventID' = eventID, log' = log,
           \A s \in Slots : s # Slot(h, n) =>
               slotCall'[s] = slotCall[s] /\ slotId'[s] = slotId[s]
    PROVE  WindowButOldest(n, h)'
<1> SUFFICES ASSUME NEW i \in 0 .. n - 1, i > 0 \/ n < MaxRecords
             PROVE  Holds(Slot(h, i), eventID - n + i)'
    BY DEF WindowButOldest, Slot
<1>1. Holds(Slot(h, i), eventID - n + i)
    BY DEF WindowButOldest
<1>2. /\ i \in 0 .. MaxRecords - 1 /\ i \in 0 .. MaxRecords
      /\ 0 \in 0 .. MaxRecords - 1 /\ i # n
    BY RingAssumption
<1>3. Slot(h, i) \in Slots
    BY <1>2, SlotIs
<1>4. Slot(h, i) # Slot(h, n)
  <2>1. CASE n < MaxRecords
    <3>1. n \in 0 .. MaxRecords - 1
        BY <2>1, RingAssumption
    <3> QED BY <1>2, <3>1, SlotInjective
  <2>2. CASE n = MaxRecords
    <3>1. Slot(h, n) = Slot(h, 0)
        BY <1>2, <2>2, SlotShift
    <3> QED BY <1>2, <2>2, <3>1, SlotInjective
  <2> QED BY <2>1, <2>2, RingAssumption
<1>5. Slot(h, i)' = Slot(h, i)
    BY DEF Slot
<1> QED BY <1>1, <1>3, <1>4, <1>5 DEF Holds

(* Publishing the new record turns what the push found into what it        *)
(* leaves: the newest records, one more or one further.                    *)
LEMMA PublishKeepsWindow ==
    ASSUME TypeOK, NEW w \in Writers,
           EventInv, CopyInv, HasCopied(w), call[w] \in Calls,
           loc[w].tail = Slot(loc[w].head, loc[w].num),
           WindowButOldest(loc[w].num, loc[w].head),
           numRecords' = NewNum(loc[w]), head' = NewHead(loc[w]),
           eventID' = eventID + 1, log' = Append(log, call[w]),
           slotCall' = slotCall, slotId' = slotId
    PROVE  Window(numRecords, head)'
<1> DEFINE n == loc[w].num
           h == loc[w].head
<1>1. loc[w] \in [num : 0 .. MaxRecords, head : Slots, tail : Slots, ev : Nat]
    BY DEF TypeOK
<1>2. n \in 0 .. MaxRecords /\ h \in Slots
    BY <1>1
<1>3. eventID \in Nat /\ eventID = Len(log) /\ log \in Seq(Calls)
    BY DEF TypeOK, EventInv
<1> HIDE DEF n, h
<1>4. /\ Len(log') = eventID + 1
      /\ \A k \in 1 .. eventID : log'[k] = log[k]
      /\ log'[eventID + 1] = call[w]
    BY <1>3
<1>5. slotCall[Slot(h, n)] = call[w] /\ slotId[Slot(h, n)] = eventID
    BY DEF CopyInv, n, h
<1>6. \A s, k : Holds(s, k) => /\ k \in 0 .. eventID - 1
                               /\ slotCall[s] = log'[k + 1]
                               /\ slotId[s] = k
    BY <1>3, <1>4 DEF Holds
<1>7. ASSUME NEW i \in 0 .. numRecords' - 1
      PROVE  /\ eventID' - numRecords' + i \in 0 .. Len(log') - 1
             /\ slotCall[Slot(head', i)] = log'[eventID' - numRecords' + i + 1]
             /\ slotId[Slot(head', i)] = eventID' - numRecords' + i
  <2>1. CASE n < MaxRecords
    <3>1. numRecords' = n + 1 /\ head' = h
        BY <1>2, <2>1, RingAssumption DEF NewNum, NewHead, n, h
    <3>a. n \in Int /\ i \in Int /\ 0 <= i /\ i <= n
        BY <1>2, <1>7, <3>1
    <3>2. CASE i = n
        BY <1>2, <1>3, <1>4, <1>5, <3>1, <3>2
    <3>3. CASE i < n
      <4>1. Holds(Slot(h, i), eventID - n + i)
          BY <1>2, <3>a, <2>1, <3>3, RingAssumption DEF WindowButOldest, n, h
      <4>2. eventID' - numRecords' + i = eventID - n + i
        <5>1. n \in Int /\ i \in Int /\ eventID \in Int
            BY <1>3, <3>a
        <5>2. (eventID + 1) - (n + 1) + i = eventID - n + i
            BY <5>1
        <5> QED BY <3>1, <5>2
      <4>3. eventID - n + i \in 0 .. eventID - 1
          BY <4>1, <1>6
      <4> QED BY <1>3, <1>4, <1>6, <3>1, <4>1, <4>2, <4>3
    <3> QED BY <3>a, <3>2, <3>3
  <2>2. CASE n = MaxRecords
    <3>1. numRecords' = n /\ head' = Slot(h, 1)
        BY <1>1, <1>2, <2>2, NewInRange, RingAssumption DEF NewNum, n, h
    <3>2. i \in 0 .. MaxRecords - 1
        BY <1>7, <2>2, <3>1
    <3>3. Slot(head', i) = Slot(h, i + 1)
        BY <1>2, <3>1, <3>2, SlotShift
    <3>4. CASE i = MaxRecords - 1
      <4>1. Slot(head', i) = Slot(h, n)
          BY <2>2, <3>3, <3>4, RingAssumption
      <4>2. eventID' - numRecords' + i = eventID
          BY <1>2, <1>3, <2>2, <3>1, <3>4, RingAssumption
      <4> QED BY <1>3, <1>4, <1>5, <4>1, <4>2
    <3>5. CASE i < MaxRecords - 1
      <4>1. i + 1 \in 0 .. n - 1 /\ i + 1 > 0
          BY <2>2, <3>2, <3>5, RingAssumption
      <4>2. Holds(Slot(h, i + 1), eventID - n + (i + 1))
          BY <4>1 DEF WindowButOldest, n, h
      <4>3. eventID' - numRecords' + i = eventID - n + (i + 1)
        <5>1. n \in Int /\ i \in Int
            BY <1>2, <3>2
        <5> QED BY <1>3, <3>1, <5>1
      <4>4. eventID - n + (i + 1) \in 0 .. eventID - 1
          BY <4>2, <1>6
      <4> QED BY <1>3, <1>4, <1>6, <3>3, <4>2, <4>3, <4>4
    <3> QED BY <3>2, <3>4, <3>5, RingAssumption
  <2> QED BY <1>2, <2>1, <2>2, RingAssumption
<1> QED BY <1>7 DEF Window, Holds, Slot

(* The ring keeps its shape: RingInv is preserved by every step.           *)
LEMMA RingStep ==
    TypeOK /\ CallInv /\ MutexInv /\ RaceInv /\ EventInv /\ CopyInv /\ RingInv
        /\ [RingNext]_ringVars
        => RingInv'
<1> SUFFICES ASSUME TypeOK, CallInv, MutexInv, RaceInv, EventInv, CopyInv,
                    RingInv, [RingNext]_ringVars, ~raced'
             PROVE  RingInv'
    BY DEF RingInv
<1>a. ASSUME UNCHANGED <<numRecords, head, tail, eventID, slotCall, slotId,
                         log, clearedAt>>
      PROVE  Sound <=> Sound'
    BY <1>a DEF Sound, Window, Holds, Slot
<1>b. ASSUME NEW w \in Writers, Inside(w), cpc' = cpc, raced' = raced,
             \A v \in Writers : v # w => wpc'[v] = wpc[v]
      PROVE  /\ PushInv(w)
             /\ \A v \in Writers : v # w => wpc'[v] = "out"
             /\ cpc' = "off"
  <2>1. \A v \in Writers : v # w => wpc[v] = "out"
      BY <1>b, Alone
  <2> QED BY <1>b, <2>1 DEF RingInv, RaceInv, SomeInside, TypeOK
<1>1. ASSUME NEW w \in Writers, NEW c \in Calls, Lock(w, c) PROVE RingInv'
  <2>1. ~raced /\ Quiet /\ \A v \in Writers : v # w => wpc'[v] = "out"
      BY <1>1 DEF Lock, Quiet, SomeInside, MutexInv, Inside, Goto, TypeOK
  <2>2. Sound'
      BY <1>1, <1>a, <2>1 DEF Lock, RingInv
  <2>3. wpc'[w] = "load2"
      BY <1>1 DEF Lock, Goto, TypeOK
  <2>4. PushInv(w)' /\ Inside(w)'
      BY <2>2, <2>3 DEF PushInv, HasLoaded, Inside
  <2> QED BY <2>1, <2>4, RingByPush
<1>2. ASSUME NEW w \in Writers, LoadNum(w) PROVE RingInv'
  <2>1. PushInv(w) /\ \A v \in Writers : v # w => wpc'[v] = "out"
      BY <1>2, <1>b DEF LoadNum, Inside, Goto, TypeOK
  <2>2. Sound'
      BY <1>2, <1>a, <2>1 DEF LoadNum, PushInv
  <2>3. wpc'[w] = "load3" /\ numRecords' = loc'[w].num
      BY <1>2 DEF LoadNum, Goto, TypeOK
  <2>4. PushInv(w)' /\ Inside(w)'
      BY <2>2, <2>3 DEF PushInv, HasLoaded, Inside
  <2> QED BY <2>1, <2>4, RingByPush
<1>3. ASSUME NEW w \in Writers, LoadHead(w) PROVE RingInv'
  <2>1. PushInv(w) /\ \A v \in Writers : v # w => wpc'[v] = "out"
      BY <1>3, <1>b DEF LoadHead, Inside, Goto, TypeOK
  <2>2. Sound'
      BY <1>3, <1>a, <2>1 DEF LoadHead, PushInv
  <2>3. wpc'[w] = "load4" /\ numRecords' = loc'[w].num /\ head' = loc'[w].head
      BY <1>3, <2>1 DEF LoadHead, Goto, TypeOK, PushInv
  <2>4. PushInv(w)' /\ Inside(w)'
      BY <2>2, <2>3 DEF PushInv, HasLoaded, Inside
  <2> QED BY <2>1, <2>4, RingByPush
<1>4. ASSUME NEW w \in Writers, LoadTail(w) PROVE RingInv'
  <2>1. PushInv(w) /\ \A v \in Writers : v # w => wpc'[v] = "out"
      BY <1>4, <1>b DEF LoadTail, Inside, Goto, TypeOK
  <2>2. Sound'
      BY <1>4, <1>a, <2>1 DEF LoadTail, PushInv
  <2>3. /\ wpc'[w] = "copy" /\ numRecords' = loc'[w].num
        /\ head' = loc'[w].head /\ tail' = loc'[w].tail
      BY <1>4, <2>1 DEF LoadTail, Goto, TypeOK, PushInv
  <2>4. /\ loc'[w].tail = Slot(loc'[w].head, loc'[w].num)
        /\ loc'[w].num <= eventID' - clearedAt'
        /\ WindowButOldest(loc[w].num, loc[w].head)'
      BY <2>2, <2>3 DEF Sound, Window, WindowButOldest, Slot
  <2>5. PushInv(w)' /\ Inside(w)'
      BY <2>2, <2>3, <2>4 DEF PushInv, HasLoaded, Inside, Slot
  <2> QED BY <2>1, <2>5, RingByPush
<1>c. ASSUME NEW w \in Writers, CopyCall(w) \/ CopyId(w)
      PROVE  RingInv'
  <2>1. PushInv(w) /\ \A v \in Writers : v # w => wpc'[v] = "out"
      BY <1>c, <1>b DEF CopyCall, CopyId, Inside, Goto, TypeOK
  <2>2. HasLoaded(w) /\ wpc'[w] \in {"copyCall", "copyId", "put2"}
      BY <1>c DEF CopyCall, CopyId, Goto, TypeOK, HasLoaded
  <2>3. /\ loc[w].tail = Slot(loc[w].head, loc[w].num)
        /\ loc[w].num <= eventID - clearedAt
        /\ WindowButOldest(loc[w].num, loc[w].head)
      BY <2>1, <2>2 DEF PushInv
  <2>4. loc[w].num \in 0 .. MaxRecords /\ loc[w].head \in Slots
      BY DEF TypeOK
  <2>5. PICK n \in 0 .. MaxRecords, h \in Slots :
            n = loc[w].num /\ h = loc[w].head
      BY <2>4
  <2>6. WindowButOldest(n, h)'
    <3>1. /\ eventID' = eventID /\ log' = log
          /\ \A s \in Slots : s # Slot(h, n) =>
                slotCall'[s] = slotCall[s] /\ slotId'[s] = slotId[s]
        BY <1>c, <2>3, <2>5 DEF CopyCall, CopyId, TypeOK
    <3> QED BY <2>3, <2>5, <3>1, CopyKeepsWindow
  <2>7. /\ loc' = loc /\ eventID' = eventID /\ clearedAt' = clearedAt
        /\ numRecords' = loc[w].num /\ head' = loc[w].head
        /\ tail' = loc[w].tail
      BY <1>c, <2>1 DEF CopyCall, CopyId, PushInv
  <2>8. PushInv(w)' /\ Inside(w)'
      BY <2>2, <2>3, <2>5, <2>6, <2>7
         DEF PushInv, HasLoaded, Inside, Slot, WindowButOldest
  <2> QED BY <2>1, <2>8, RingByPush
<1>d. ASSUME NEW w \in Writers, PutNum(w) \/ PutHead(w) \/ PutTail(w)
      PROVE  RingInv'
  <2>1. PushInv(w) /\ \A v \in Writers : v # w => wpc'[v] = "out"
      BY <1>d, <1>b DEF PutNum, PutHead, PutTail, Inside, Goto, TypeOK
  <2>2. HasLoaded(w) /\ Inside(w)'
      BY <1>d DEF PutNum, PutHead, PutTail, Goto, TypeOK, HasLoaded, Inside
  <2>3. /\ loc[w].tail = Slot(loc[w].head, loc[w].num)
        /\ loc[w].num <= eventID - clearedAt
        /\ WindowButOldest(loc[w].num, loc[w].head)
      BY <2>1, <2>2 DEF PushInv
  <2>4. UNCHANGED <<loc, eventID, log, clearedAt, slotCall, slotId>>
      BY <1>d DEF PutNum, PutHead, PutTail
  <2>5. /\ loc'[w].tail = Slot(loc'[w].head, loc'[w].num)
        /\ loc'[w].num <= eventID' - clearedAt'
        /\ WindowButOldest(loc[w].num, loc[w].head)'
      BY <2>3, <2>4 DEF WindowButOldest, Holds, Slot
  <2>6. \/ /\ wpc'[w] = "put3" /\ numRecords' = NewNum(loc[w])
           /\ head' = loc[w].head /\ tail' = loc[w].tail
        \/ /\ wpc'[w] = "put4" /\ numRecords' = NewNum(loc[w])
           /\ head' = NewHead(loc[w]) /\ tail' = loc[w].tail
        \/ /\ wpc'[w] = "put6" /\ numRecords' = NewNum(loc[w])
           /\ head' = NewHead(loc[w]) /\ tail' = NewTail(loc[w])
      BY <1>d, <2>1 DEF PutNum, PutHead, PutTail, Goto, TypeOK, PushInv
  <2>7. PushInv(w)'
      BY <2>4, <2>5, <2>6 DEF PushInv, HasLoaded, Slot, NewNum, NewHead, NewTail
  <2> QED BY <2>1, <2>2, <2>7, RingByPush
<1>10. ASSUME NEW w \in Writers, PutEventID(w) PROVE RingInv'
  <2>1. PushInv(w) /\ \A v \in Writers : v # w => wpc'[v] = "out"
      BY <1>10, <1>b DEF PutEventID, Inside, Goto, TypeOK
  <2>2. HasLoaded(w) /\ HasCopied(w) /\ call[w] \in Calls
      BY <1>10 DEF PutEventID, HasLoaded, HasCopied, CallInv, Inside
  <2>3. /\ loc[w].tail = Slot(loc[w].head, loc[w].num)
        /\ loc[w].num <= eventID - clearedAt
        /\ WindowButOldest(loc[w].num, loc[w].head)
      BY <2>1, <2>2 DEF PushInv
  <2>4. /\ numRecords' = NewNum(loc[w]) /\ head' = NewHead(loc[w])
        /\ tail' = NewTail(loc[w])
        /\ eventID' = eventID + 1 /\ log' = Append(log, call[w])
        /\ slotCall' = slotCall /\ slotId' = slotId
        /\ clearedAt' = clearedAt /\ wpc'[w] = "unlock"
      BY <1>10, <2>1, <2>2 DEF PutEventID, PushInv, EventInv, Goto, TypeOK
  <2>5. Window(numRecords, head)'
      BY <2>2, <2>3, <2>4, PublishKeepsWindow
  <2>6. loc[w] \in [num : 0 .. MaxRecords, head : Slots, tail : Slots, ev : Nat]
      BY DEF TypeOK
  <2>7. loc[w].num \in 0 .. MaxRecords /\ loc[w].head \in Slots
      BY <2>6
  <2>8. tail' = Slot(head', numRecords')
    <3>1. tail' = Slot(Slot(loc[w].head, loc[w].num), 1)
        BY <2>3, <2>4, <2>6, NewInRange
    <3>2. CASE loc[w].num < MaxRecords
      <4>1. loc[w].num \in 0 .. MaxRecords - 1
          BY <2>7, <3>2, RingAssumption
      <4>2. numRecords' = loc[w].num + 1 /\ head' = loc[w].head
          BY <2>4, <2>7, <3>2, RingAssumption DEF NewNum, NewHead
      <4> QED BY <2>7, <3>1, <4>1, <4>2, SlotShift
    <3>3. CASE loc[w].num = MaxRecords
      <4>1. numRecords' = MaxRecords /\ head' = Slot(loc[w].head, 1)
          BY <2>4, <2>6, <3>3, NewInRange, RingAssumption DEF NewNum
      <4>2. 0 \in 0 .. MaxRecords - 1
          BY RingAssumption
      <4>3. Slot(loc[w].head, MaxRecords) = loc[w].head
          BY <2>7, <4>2, SlotShift
      <4>4. Slot(Slot(loc[w].head, 1), MaxRecords) = Slot(loc[w].head, 1)
          BY <2>7, <4>2, SlotShift
      <4> QED BY <3>1, <3>3, <4>1, <4>3, <4>4
    <3> QED BY <2>7, <3>2, <3>3, RingAssumption
  <2>9. numRecords' <= eventID' - clearedAt'
    <3>1. loc[w].num \in Int /\ eventID \in Int /\ clearedAt \in Int
        BY <2>7 DEF TypeOK
    <3>2. NewNum(loc[w]) = loc[w].num + 1 \/ NewNum(loc[w]) = loc[w].num
        BY DEF NewNum
    <3> QED BY <2>3, <2>4, <3>1, <3>2
  <2>10. PushInv(w)' /\ Inside(w)'
    <3>1. Sound'
        BY <2>5, <2>8, <2>9 DEF Sound, Slot
    <3> QED BY <2>4, <3>1 DEF PushInv, HasLoaded, Inside
  <2> QED BY <2>1, <2>10, RingByPush
<1>11. ASSUME NEW w \in Writers, Unlock(w) PROVE RingInv'
  <2>1. PushInv(w) /\ \A v \in Writers : v # w => wpc'[v] = "out"
      BY <1>11, <1>b DEF Unlock, Inside, Goto, TypeOK
  <2>2. Sound' /\ wpc'[w] = "out"
      BY <1>11, <1>a, <2>1 DEF Unlock, PushInv, Goto, TypeOK
  <2>3. \A v \in Writers : PushInv(v)'
      BY <2>1, <2>2 DEF PushInv, HasLoaded
  <2> QED BY <2>2, <2>3 DEF RingInv
<1>12. CASE ClearNum \/ ClearHead
  <2>1. ~SomeInside /\ wpc' = wpc /\ cpc' # "off"
      BY <1>12 DEF ClearNum, ClearHead, RaceInv
  <2>2. \A v \in Writers : PushInv(v)'
      BY <2>1 DEF PushInv, HasLoaded, SomeInside, Inside
  <2> QED BY <2>1, <2>2 DEF RingInv, Quiet
<1>13. CASE ClearTail
  <2>1. ~overlap
      BY <1>13 DEF ClearTail, RaceInv
  <2>2. numRecords' = 0 /\ head' = 0 /\ tail' = 0 /\ wpc' = wpc /\ ~SomeInside
      BY <1>13, <2>1 DEF ClearTail, RaceInv
  <2>3. \A v \in Writers : PushInv(v)'
      BY <2>2 DEF PushInv, HasLoaded, SomeInside, Inside
  <2>4. Slot(0, 0) = 0 /\ clearedAt' <= eventID'
    <3>1. 0 \in 0 .. MaxRecords - 1 /\ 0 \in Slots
        BY RingAssumption DEF Slots
    <3>2. Slot(0, 0) = 0
        BY <3>1, SlotShift
    <3> QED BY <1>13, <3>2 DEF ClearTail, EventInv
  <2>5. Sound'
    <3>1. Window(numRecords, head)'
        BY <2>2 DEF Window
    <3>2. eventID' \in Int /\ clearedAt' \in Int
        BY <1>13 DEF ClearTail, TypeOK
    <3>3. numRecords' <= eventID' - clearedAt'
      <4>1. clearedAt' <= eventID'
          BY <2>4
      <4>2. \A a, b \in Int : a <= b => 0 <= b - a
          OBVIOUS
      <4>3. 0 <= eventID' - clearedAt'
          BY <3>2, <4>1, <4>2
      <4> QED BY <2>2, <4>3
    <3>4. tail' = Slot(head', numRecords')
        BY <2>2, <2>4
    <3> QED BY <3>1, <3>3, <3>4 DEF Sound, Slot
  <2> QED BY <2>3, <2>5 DEF RingInv
<1>14. CASE UNCHANGED ringVars
  <2>1. UNCHANGED <<numRecords, head, tail, eventID, slotCall, slotId, log,
                    clearedAt, wpc, cpc, loc>> /\ ~raced
      BY <1>14 DEF ringVars
  <2>2. ASSUME NEW w \in Writers PROVE PushInv(w)'
      BY <1>a, <2>1 DEF RingInv, PushInv, HasLoaded, WindowButOldest, Holds,
         Slot, NewNum, NewHead, NewTail
  <2> QED BY <1>a, <2>1, <2>2 DEF RingInv, Quiet, SomeInside, Inside
<1> QED BY <1>1, <1>2, <1>3, <1>4, <1>c, <1>d, <1>10, <1>11, <1>12, <1>13, <1>14
        DEF RingNext, Push, Clear

-----------------------------------------------------------------------------
(* The results.                                                            *)

(* The invariant holds of the freshly mapped segment.                      *)
LEMMA InitIInv == Init => IInv
<1> SUFFICES ASSUME Init PROVE IInv
    OBVIOUS
<1>1. TypeOK /\ CallInv
    BY TypeInit
<1>2. MutexInv /\ RaceInv /\ CopyInv /\ IdInv /\ EventIdsUnique
    BY DEF Init, MutexInv, RaceInv, CopyInv, IdInv, EventIdsUnique, HasCopied,
       Inside, Slots
<1>3. EventInv
    BY DEF Init, EventInv, HasLoaded
<1>4. RingInv
  <2>1. Slot(0, 0) = 0
    <3>1. 0 \in 0 .. MaxRecords - 1 /\ 0 \in Slots
        BY RingAssumption DEF Slots
    <3> QED BY <3>1, SlotShift
  <2>2. Sound
      BY <2>1 DEF Init, Sound, Window
  <2> QED BY <2>2 DEF Init, RingInv, PushInv, HasLoaded
<1> QED BY <1>1, <1>2, <1>3, <1>4 DEF IInv

(* The invariant is inductive: every load, store, lock operation and clear *)
(* step of the node preserves it.                                          *)
THEOREM IInvInductive == RingSpec => []IInv
<1>1. IInv /\ [RingNext]_ringVars => IInv'
    BY TypeStep, MutexStep, RaceStep, EventStep, CopyStep, IdStep, RingStep
       DEF IInv
<1> QED BY InitIInv, <1>1, PTL DEF RingSpec

(* Between pushes the ring is exactly the newest records, for every        *)
(* capacity and any number of probe processes, as long as no clear() of    *)
(* the local controller overlapped a push (RecordBuffer::push).            *)
THEOREM RingCorrect == RingSpec => []RingHoldsRecent
<1>1. IInv => RingHoldsRecent
    BY DEF IInv, EventInv, RingInv, Sound, Window, RingHoldsRecent
<1> QED BY <1>1, IInvInductive, PTL

(* No two records ever carry the same event id, whatever clear() does      *)
(* (the stamping in RecordBuffer::push).                                   *)
THEOREM IdsUnique == RingSpec => []EventIdsUnique
<1>1. IInv => EventIdsUnique
    BY DEF IInv
<1> QED BY <1>1, IInvInductive, PTL

(* A clear() that no push overlaps leaves no older record readable         *)
(* (NcclRecord.clear of local_analyzer.py).                                *)
THEOREM CleanClear == RingSpec => []CleanClearForgets
<1>1. IInv => CleanClearForgets
  <2> SUFFICES ASSUME IInv, Quiet, ~raced, NEW i \in 0 .. numRecords - 1
               PROVE  slotId[Slot(head, i)] >= clearedAt
      BY DEF CleanClearForgets
  <2>1. Sound /\ TypeOK
      BY DEF IInv, RingInv
  <2>2. slotId[Slot(head, i)] = eventID - numRecords + i
      BY <2>1 DEF Sound, Window, Holds
  <2>3. numRecords \in Int /\ eventID \in Int /\ clearedAt \in Int /\ i >= 0
      BY <2>1 DEF TypeOK
  <2>4. numRecords <= eventID - clearedAt
      BY <2>1 DEF Sound
  <2> QED BY <2>2, <2>3, <2>4
<1> QED BY <1>1, IInvInductive, PTL

(* The window a reader sees while w publishes: n + 1 records where there   *)
(* is room, the n = MaxRecords newest where there is none.                 *)
LEMMA PublishingWindow ==
    ASSUME IInv, ~raced, NEW w \in Writers, HasCopied(w),
           NEW num, num = NewNum(loc[w]), NEW first, first = NewHead(loc[w]),
           NEW i \in 0 .. num - 1
    PROVE  \/ Holds(Slot(first, i), (eventID - num + 1) + i)
           \/ HoldsInFlight(Slot(first, i), (eventID - num + 1) + i)
<1>1. TypeOK /\ EventInv /\ CopyInv /\ PushInv(w) /\ HasLoaded(w)
    BY DEF IInv, RingInv, HasLoaded, HasCopied
<1>2. PICK n \in 0 .. MaxRecords, h \in Slots, e \in Nat :
          n = loc[w].num /\ h = loc[w].head /\ e = eventID
    BY <1>1 DEF TypeOK
<1>3. loc[w] \in [num : 0 .. MaxRecords, head : Slots, tail : Slots, ev : Nat]
    BY <1>1 DEF TypeOK
<1>4. loc[w].tail = Slot(h, n) /\ WindowButOldest(n, h) /\ loc[w].ev = e
    BY <1>1, <1>2 DEF PushInv, EventInv
<1>5. HoldsInFlight(Slot(h, n), e)
    BY <1>1, <1>2, <1>4 DEF HoldsInFlight, CopyInv, HasCopied
<1>6. num = NewNum(loc[w])
    OBVIOUS
<1>7. CASE n < MaxRecords
  <2>1. num = n + 1 /\ first = h
      BY <1>2, <1>6, <1>7, RingAssumption DEF NewNum, NewHead
  <2>2. i \in Int /\ 0 <= i /\ i <= n /\ n \in Int
      BY <1>2, <2>1
  <2>3. (eventID - num + 1) + i = e - n + i
      BY <1>2, <2>1, <2>2
  <2>4. CASE i = n
    <3>1. e - n + i = e
        BY <2>2, <2>4
    <3> QED BY <1>5, <2>1, <2>3, <2>4, <3>1
  <2>5. CASE i < n
    <3>1. Holds(Slot(h, i), e - n + i)
        BY <1>2, <1>4, <1>7, <2>2, <2>5 DEF WindowButOldest
    <3> QED BY <2>1, <2>3, <3>1
  <2> QED BY <2>2, <2>4, <2>5
<1>8. CASE n = MaxRecords
  <2>1. num = n /\ first = Slot(h, 1)
    <3>1. first = Slot(h, 1)
        BY <1>2, <1>3, <1>8, NewInRange
    <3>2. num = n
        BY <1>2, <1>6, <1>8, RingAssumption DEF NewNum
    <3> QED BY <3>1, <3>2
  <2>2. i \in 0 .. MaxRecords - 1 /\ i \in Int /\ n \in Int
      BY <1>8, <2>1, RingAssumption
  <2>3. Slot(first, i) = Slot(h, i + 1)
      BY <2>1, <2>2, SlotShift
  <2>4. (eventID - num + 1) + i = e - n + (i + 1)
      BY <1>2, <2>1, <2>2
  <2>5. CASE i = MaxRecords - 1
    <3>1. i + 1 = n /\ e - n + (i + 1) = e
        BY <1>8, <2>2, <2>5
    <3> QED BY <1>5, <2>3, <2>4, <3>1
  <2>6. CASE i < MaxRecords - 1
    <3>1. i + 1 \in 0 .. n - 1 /\ i + 1 > 0
        BY <1>8, <2>2, <2>6, RingAssumption
    <3>2. Holds(Slot(h, i + 1), e - n + (i + 1))
        BY <1>2, <1>4, <3>1 DEF WindowButOldest
    <3> QED BY <2>3, <2>4, <3>2
  <2> QED BY <2>2, <2>5, <2>6, RingAssumption
<1> QED BY <1>2, <1>7, <1>8, RingAssumption

(* Readers that take no lock see whole consecutive records everywhere but  *)
(* in the first slot of a full ring, at every instant of every push; what  *)
(* read_shm_records of detect_runner.py rests on.                          *)
THEOREM OnlyOldest == RingSpec => []OnlyOldestAtRisk
<1>1. IInv => OnlyOldestAtRisk
  <2> SUFFICES ASSUME IInv, cpc = "off", ~raced
               PROVE  OnlyOldestAtRisk
      BY DEF OnlyOldestAtRisk
  <2> DEFINE At(first) ==
                 \A i \in 0 .. numRecords - 1 :
                     i > 0 \/ numRecords < MaxRecords =>
                         \/ Holds(Slot(head, i), first + i)
                         \/ HoldsInFlight(Slot(head, i), first + i)
  <2>1. ASSUME WindowButOldest(numRecords, head) PROVE At(eventID - numRecords)
      BY <2>1 DEF WindowButOldest
  <2>2. ASSUME Sound PROVE At(eventID - numRecords)
      BY <2>2 DEF Sound, Window
  <2>3. At(eventID - numRecords) \/ At(eventID - numRecords + 1)
    <3>1. CASE ~SomeInside
      <4>1. Sound
          BY <3>1 DEF IInv, RingInv, Quiet
      <4> QED BY <2>2, <4>1
    <3>2. CASE SomeInside
      <4>1. PICK w \in Writers : Inside(w)
          BY <3>2 DEF SomeInside
      <4>2. PushInv(w) /\ wpc[w] \in WriterPCs
          BY DEF IInv, RingInv, TypeOK
      <4>3. CASE wpc[w] \in {"load2", "load3", "load4", "copy", "unlock"}
          BY <2>2, <4>2, <4>3 DEF PushInv
      <4>4. CASE wpc[w] \in {"copyCall", "copyId", "put2"}
        <5>1. WindowButOldest(numRecords, head)
            BY <4>2, <4>4 DEF PushInv, HasLoaded
        <5> QED BY <2>1, <5>1
      <4>5. CASE wpc[w] = "put3" /\ loc[w].num = MaxRecords
        <5>1. numRecords = loc[w].num /\ head = loc[w].head
            BY <4>2, <4>5, RingAssumption DEF PushInv, NewNum
        <5>2. WindowButOldest(numRecords, head)
            BY <4>2, <4>5, <5>1 DEF PushInv, HasLoaded
        <5> QED BY <2>1, <5>2
      <4>6. CASE /\ wpc[w] \in {"put3", "put4", "put6"}
                 /\ ~(wpc[w] = "put3" /\ loc[w].num = MaxRecords)
        <5>1. HasCopied(w) /\ numRecords = NewNum(loc[w])
            BY <4>2, <4>6 DEF HasCopied, PushInv
        <5>2. head = NewHead(loc[w])
            BY <4>2, <4>6 DEF PushInv, NewHead
        <5>3. At(eventID - numRecords + 1)
            BY <5>1, <5>2, PublishingWindow
        <5> QED BY <5>3
      <4> QED BY <4>1, <4>2, <4>3, <4>4, <4>5, <4>6 DEF WriterPCs, Inside
    <3> QED BY <3>1, <3>2
  <2> QED BY <2>3 DEF OnlyOldestAtRisk
<1> QED BY <1>1, IInvInductive, PTL

-----------------------------------------------------------------------------
(* The snapshot reader.                                                    *)

(* addr[6] when the reader compares, retries or gives up: every attempt    *)
(* that failed saw it change.                                              *)
BusyInv ==
    /\ rpc \in ReaderPCs /\ attempt \in Nat /\ attempt <= MaxAttempts
    /\ eventBefore \in Nat /\ startEvent \in Nat
    /\ rpc = "before" => attempt < MaxAttempts /\ startEvent + attempt <= eventID
    /\ rpc \in {"num", "head", "copy"} =>
          /\ attempt >= 1 /\ startEvent + (attempt - 1) <= eventBefore
          /\ eventBefore <= eventID
    /\ rpc = "failed" => startEvent + MaxAttempts <= eventID

(* The reader changes nothing in the ring.                                 *)
LEMMA SnapshotIsRing ==
    [SnapshotNext]_vars =>
        \/ [RingNext]_ringVars /\ UNCHANGED readerVars
        \/ UNCHANGED ringVars /\ (BeginRead \/ ReadStep)
BY DEF SnapshotNext, BeginRead, ReadStep, ReadEventBefore, ReadNum, ReadHead, CopyRecord,
       CompareEvent, vars

(* The ring under the reader is the ring of RingSpec: its invariant holds  *)
(* beside read_shm_records() too.                                          *)
THEOREM SnapshotRing == SnapshotSpec => []IInv
<1>1. [SnapshotNext]_vars => [RingNext]_ringVars
    BY SnapshotIsRing
<1>2. SnapshotInit => Init
    BY DEF SnapshotInit
<1>3. SnapshotSpec => RingSpec
    BY <1>1, <1>2, PTL DEF SnapshotSpec, RingSpec
<1> QED BY <1>3, IInvInductive, PTL

(* addr[6] never decreases.                                                *)
LEMMA EventsGrow ==
    ASSUME IInv, [RingNext]_ringVars
    PROVE  eventID \in Nat /\ eventID' \in Nat /\ eventID <= eventID'
<1>1. eventID \in Nat /\ \A w \in Writers : HasLoaded(w) => loc[w].ev = eventID
    BY DEF IInv, TypeOK, EventInv
<1>2. ASSUME NEW w \in Writers, PutEventID(w) PROVE eventID' = eventID + 1
    BY <1>1, <1>2 DEF PutEventID, HasLoaded
<1>3. eventID' = eventID \/ \E w \in Writers : PutEventID(w)
    BY DEF RingNext, Push, Clear, Lock, LoadNum, LoadHead, LoadTail, CopyCall, CopyId,
           PutNum, PutHead, PutTail, Unlock, ClearNum, ClearHead, ClearTail, ringVars
<1> QED BY <1>1, <1>2, <1>3

(* Every step of the reader and of the ring keeps BusyInv.                 *)
LEMMA BusyStep == IInv /\ BusyInv /\ [SnapshotNext]_vars => BusyInv'
<1> SUFFICES ASSUME IInv, BusyInv, [SnapshotNext]_vars PROVE BusyInv'
    OBVIOUS
<1>0. MaxAttempts \in Nat \ {0} /\ eventID \in Nat
    BY AttemptsAssumption DEF IInv, TypeOK
<1>1. CASE [RingNext]_ringVars /\ UNCHANGED readerVars
  <2>1. eventID' \in Nat /\ eventID <= eventID'
      BY <1>1, EventsGrow
  <2> QED BY <1>0, <1>1, <2>1 DEF readerVars, BusyInv
<1>2. CASE UNCHANGED ringVars /\ BeginRead
    BY <1>0, <1>2 DEF ringVars, BeginRead, BusyInv, ReaderPCs
<1>3. CASE UNCHANGED ringVars /\ ReadEventBefore
    BY <1>0, <1>3 DEF ringVars, ReadEventBefore, BusyInv, ReaderPCs
<1>4. CASE UNCHANGED ringVars /\ (ReadNum \/ ReadHead \/ CopyRecord)
    BY <1>0, <1>4 DEF ringVars, ReadNum, ReadHead, CopyRecord, BusyInv, ReaderPCs
<1>5. CASE UNCHANGED ringVars /\ CompareEvent
  <2>1. eventID' = eventID /\ UNCHANGED <<attempt, eventBefore, startEvent>>
        /\ rpc = "copy" /\ rpc' \in {"accepted", "before", "failed"}
        /\ (rpc' = "before" => eventID # eventBefore /\ attempt < MaxAttempts)
        /\ (rpc' = "failed" => eventID # eventBefore /\ ~ (attempt < MaxAttempts))
      BY <1>5 DEF ringVars, CompareEvent, Accepts
  <2> QED BY <1>0, <2>1 DEF BusyInv, ReaderPCs
<1> QED BY <1>1, <1>2, <1>3, <1>4, <1>5, SnapshotIsRing DEF ReadStep

(* The RuntimeError of read_shm_records is raised only if that many        *)
(* records were finished while it tried: however the writers, the          *)
(* clear() of a local controller and the reader interleave.                *)
THEOREM FailsBusy == SnapshotSpec => []FailsOnlyIfBusy
<1>1. SnapshotInit => BusyInv
    BY AttemptsAssumption DEF SnapshotInit, Init, BusyInv, ReaderPCs
<1>2. IInv /\ BusyInv => FailsOnlyIfBusy
    BY AttemptsAssumption DEF IInv, TypeOK, BusyInv, FailsOnlyIfBusy
<1> QED BY <1>1, <1>2, BusyStep, SnapshotRing, PTL DEF SnapshotSpec

(* Without a local controller nothing interferes with a push.              *)
NoClear == cpc = "off" /\ ~raced

SomeLoaded == \E w \in Writers : HasLoaded(w)

(* n and h are numRecords and head as the push under way found them, or as *)
(* the next one will; or as it leaves them once its record is copied.      *)
NumBefore(n) == IF SomeLoaded THEN \E w \in Writers : HasLoaded(w) /\ n = loc[w].num
                              ELSE n = numRecords

Before(n, h) ==
    IF SomeLoaded THEN \E w \in Writers : HasLoaded(w) /\ n = loc[w].num /\ h = loc[w].head
                  ELSE n = numRecords /\ h = head

NumAfter(n) == \E w \in Writers : HasCopied(w) /\ n = NewNum(loc[w])

After(n, h) == \E w \in Writers : HasCopied(w) /\ n = NewNum(loc[w]) /\ h = NewHead(loc[w])

(* r is record number k, finished or in the hands of a writer that has     *)
(* copied it.                                                              *)
Whole(r, k) ==
    /\ r.id = k
    /\ \/ k \in 0 .. Len(log) - 1 /\ r.call = log[k + 1]
       \/ k = Len(log) /\ \E w \in Writers : HasCopied(w) /\ r.call = call[w]

(* The copies made so far are records from number first on.                *)
Copied(first) ==
    \A i \in 1 .. Len(recs) : i > 1 \/ rnum < MaxRecords => Whole(recs[i], first + i - 1)

ViewInv ==
    /\ recs \in Seq([call : Calls \cup {NoCall}, id : Nat])
    /\ rpc \in {"head", "copy", "accepted"} => rnum \in 0 .. MaxRecords
    /\ rpc = "copy" => rhead \in Slots /\ Len(recs) <= rnum
    /\ rpc \in {"num", "head"} => recs = << >>
    /\ rpc = "head" /\ eventID = eventBefore => NumBefore(rnum) \/ NumAfter(rnum)
    /\ rpc = "copy" /\ eventID = eventBefore =>
          \/ Before(rnum, rhead) /\ Copied(eventBefore - rnum)
          \/ After(rnum, rhead) /\ Copied(eventBefore - rnum + 1)
    /\ rpc = "accepted" => Len(recs) = rnum /\ \E first \in {eventBefore - rnum, eventBefore - rnum + 1} : Copied(first)

(* The types of the members a writer loaded.                               *)
LEMMA LoadedTypes ==
    ASSUME IInv, NEW w \in Writers
    PROVE  /\ loc[w] \in [num : 0 .. MaxRecords, head : Slots, tail : Slots, ev : Nat]
           /\ loc[w].num \in 0 .. MaxRecords /\ loc[w].head \in Slots
           /\ NewNum(loc[w]) \in 0 .. MaxRecords /\ NewHead(loc[w]) \in Slots
<1>1. loc[w] \in [num : 0 .. MaxRecords, head : Slots, tail : Slots, ev : Nat]
    BY DEF IInv, TypeOK
<1> QED BY <1>1, NewInRange

(* Where it has copied it has loaded; and one writer only.                 *)
LEMMA OneLoader ==
    ASSUME IInv
    PROVE  /\ \A w \in Writers : HasCopied(w) => HasLoaded(w)
           /\ \A v, w \in Writers : HasLoaded(v) /\ HasLoaded(w) => v = w
BY DEF IInv, MutexInv, Inside, HasLoaded, HasCopied

(* numRecords as any load finds it.                                        *)
LEMMA NumIsSeen ==
    ASSUME IInv, NoClear
    PROVE  NumBefore(numRecords) \/ NumAfter(numRecords)
<1>1. CASE ~ SomeLoaded
    BY <1>1 DEF NumBefore
<1>2. CASE SomeLoaded
  <2>1. PICK w \in Writers : HasLoaded(w)
      BY <1>2 DEF SomeLoaded
  <2>2. PushInv(w)
      BY DEF IInv, RingInv, NoClear
  <2>3. numRecords = loc[w].num \/ (HasCopied(w) /\ numRecords = NewNum(loc[w]))
      BY <2>1, <2>2 DEF PushInv, HasLoaded, HasCopied
  <2> QED BY <1>2, <2>1, <2>3 DEF NumBefore, NumAfter
<1> QED BY <1>1, <1>2

(* head as any load finds it goes with the number loaded before it.        *)
LEMMA HeadIsSeen ==
    ASSUME IInv, NoClear, NEW n, NumBefore(n) \/ NumAfter(n)
    PROVE  Before(n, head) \/ After(n, head)
<1>1. CASE ~ SomeLoaded
  <2>1. ~ NumAfter(n)
      BY <1>1, OneLoader DEF NumAfter, SomeLoaded
  <2> QED BY <1>1, <2>1 DEF NumBefore, Before
<1>2. CASE SomeLoaded
  <2>1. PICK w \in Writers : HasLoaded(w) /\ (n = loc[w].num \/ (HasCopied(w) /\ n = NewNum(loc[w])))
      BY <1>2, OneLoader DEF NumBefore, NumAfter
  <2>2. PushInv(w)
      BY DEF IInv, RingInv, NoClear
  <2>3. head = loc[w].head \/ (HasCopied(w) /\ head = NewHead(loc[w]))
      BY <2>1, <2>2 DEF PushInv, HasLoaded, HasCopied
  <2>4. loc[w].num = MaxRecords => NewNum(loc[w]) = loc[w].num
      BY RingAssumption DEF NewNum
  <2>5. loc[w].num # MaxRecords => NewHead(loc[w]) = loc[w].head
      BY DEF NewHead
  <2>6. (n = loc[w].num /\ head = loc[w].head) => Before(n, head)
      BY <1>2, <2>1 DEF Before
  <2>7. (HasCopied(w) /\ n = NewNum(loc[w]) /\ head = NewHead(loc[w])) => After(n, head)
      BY DEF After
  <2> QED BY <2>1, <2>3, <2>4, <2>5, <2>6, <2>7
<1> QED BY <1>1, <1>2

(* A slot that holds a record, finished or in flight, gives a whole copy.  *)
LEMMA CopyIsWhole ==
    ASSUME IInv, NEW s, NEW k, Holds(s, k) \/ HoldsInFlight(s, k)
    PROVE  Whole([call |-> slotCall[s], id |-> slotId[s]], k)
<1>1. eventID = Len(log) /\ \A w \in Writers : HasCopied(w) => loc[w].ev = eventID
    BY OneLoader DEF IInv, EventInv
<1>2. CASE Holds(s, k)
    BY <1>2 DEF Holds, Whole
<1>3. CASE HoldsInFlight(s, k)
    BY <1>1, <1>3 DEF HoldsInFlight, Whole, HasCopied
<1> QED BY <1>2, <1>3

(* What the reader finds in position i of the ring it has in view.         *)
LEMMA BeforeHolds ==
    ASSUME IInv, NoClear, NEW n \in 0 .. MaxRecords, NEW h \in Slots, Before(n, h),
           NEW i \in 0 .. n - 1, i > 0 \/ n < MaxRecords
    PROVE  Holds(Slot(h, i), eventID - n + i)
<1>1. CASE ~ SomeLoaded
  <2>1. Sound
    <3>1. CASE ~ SomeInside
        BY <3>1 DEF IInv, RingInv, NoClear, Quiet
    <3>2. CASE SomeInside
      <4>1. PICK w \in Writers : Inside(w)
          BY <3>2 DEF SomeInside
      <4>2. wpc[w] \in {"load2", "load3", "load4", "unlock"}
          BY <1>1, <4>1 DEF SomeLoaded, HasLoaded, Inside, IInv, TypeOK, WriterPCs
      <4> QED BY <4>2 DEF IInv, RingInv, NoClear, PushInv
    <3> QED BY <3>1, <3>2
  <2>2. n = numRecords /\ h = head
      BY <1>1 DEF Before
  <2> QED BY <2>1, <2>2 DEF Sound, Window
<1>2. CASE SomeLoaded
  <2>1. PICK w \in Writers : HasLoaded(w) /\ n = loc[w].num /\ h = loc[w].head
      BY <1>2 DEF Before
  <2>2. WindowButOldest(n, h)
      BY <2>1 DEF IInv, RingInv, NoClear, PushInv
  <2> QED BY <2>2 DEF WindowButOldest
<1> QED BY <1>1, <1>2

(* The same once the record of the push under way is copied.               *)
LEMMA AfterHolds ==
    ASSUME IInv, NoClear, NEW n \in 0 .. MaxRecords, NEW h \in Slots, After(n, h),
           NEW i \in 0 .. n - 1
    PROVE  Holds(Slot(h, i), (eventID - n + 1) + i) \/ HoldsInFlight(Slot(h, i), (eventID - n + 1) + i)
<1>1. PICK w \in Writers : HasCopied(w) /\ n = NewNum(loc[w]) /\ h = NewHead(loc[w])
    BY DEF After
<1> QED BY <1>1, PublishingWindow DEF NoClear

(* What a step of the writers may do to the ring in view: nothing, or      *)
(* finish the push under way.                                              *)
Kept ==
    /\ log' = log /\ eventID' = eventID
    /\ \A v \in Writers : HasLoaded(v) => HasLoaded(v)' /\ loc'[v] = loc[v]
    /\ \A v \in Writers : HasCopied(v) => HasCopied(v)' /\ call'[v] = call[v]
    /\ ~ SomeLoaded =>
          \/ ~ SomeLoaded' /\ numRecords' = numRecords /\ head' = head
          \/ \E v \in Writers : HasLoaded(v)' /\ loc'[v].num = numRecords /\ loc'[v].head = head

Finished(w) ==
    /\ HasCopied(w) /\ eventID' = eventID + 1
    /\ log' = Append(log, call[w])

(* Every step of the writers is of one of the two kinds.                   *)
LEMMA PushKeeps ==
    ASSUME IInv, NoClear, ~ HasClearer, [RingNext]_ringVars
    PROVE  NoClear' /\ (Kept \/ \E w \in Writers : Finished(w))
<1>0. /\ wpc \in [Writers -> WriterPCs]
      /\ loc \in [Writers -> [num : 0 .. MaxRecords, head : Slots, tail : Slots, ev : Nat]]
      /\ call \in [Writers -> Calls \cup {NoCall}]
    BY DEF IInv, TypeOK
<1>1. ASSUME NEW w \in Writers, NEW c \in Calls, Lock(w, c) PROVE NoClear' /\ Kept
    BY <1>0, <1>1 DEF Lock, Goto, NoClear, Kept, SomeLoaded, HasLoaded, HasCopied, Inside
<1>2. ASSUME NEW w \in Writers, LoadNum(w) \/ LoadHead(w) PROVE NoClear' /\ Kept
    BY <1>0, <1>2 DEF LoadNum, LoadHead, Goto, NoClear, Kept, SomeLoaded, HasLoaded, HasCopied
<1>3. ASSUME NEW w \in Writers, LoadTail(w) PROVE NoClear' /\ Kept
  <2>1. PushInv(w)
      BY DEF IInv, RingInv, NoClear
  <2>2. numRecords = loc[w].num /\ head = loc[w].head
      BY <1>3, <2>1 DEF PushInv, LoadTail
  <2>3. /\ HasLoaded(w)' /\ loc'[w].num = loc[w].num /\ loc'[w].head = loc[w].head
        /\ \A v \in Writers : v # w => wpc'[v] = wpc[v] /\ loc'[v] = loc[v]
        /\ ~ HasLoaded(w) /\ ~ HasCopied(w)
        /\ call' = call /\ log' = log /\ eventID' = eventID /\ cpc' = cpc /\ raced' = raced
      BY <1>0, <1>3 DEF LoadTail, Goto, HasLoaded, HasCopied
  <2>4. \A v \in Writers : (HasLoaded(v) => HasLoaded(v)') /\ (HasCopied(v) => HasCopied(v)')
      BY <2>3 DEF HasLoaded, HasCopied
  <2> QED BY <2>2, <2>3, <2>4 DEF NoClear, Kept
<1>4. ASSUME NEW w \in Writers, CopyCall(w) \/ CopyId(w) \/ PutNum(w) \/ PutHead(w) \/ PutTail(w)
      PROVE  NoClear' /\ Kept
  <2>1. /\ HasLoaded(w) /\ HasLoaded(w)' /\ (HasCopied(w) => HasCopied(w)')
        /\ \A v \in Writers : v # w => wpc'[v] = wpc[v]
      BY <1>0, <1>4 DEF CopyCall, CopyId, PutNum, PutHead, PutTail, Goto, HasLoaded, HasCopied
  <2>2. UNCHANGED <<loc, call, log, eventID, cpc, raced>>
      BY <1>4 DEF CopyCall, CopyId, PutNum, PutHead, PutTail
  <2>3. \A v \in Writers : (HasLoaded(v) => HasLoaded(v)') /\ (HasCopied(v) => HasCopied(v)')
      BY <2>1 DEF HasLoaded, HasCopied
  <2> QED BY <2>1, <2>2, <2>3 DEF NoClear, Kept, SomeLoaded
<1>5. ASSUME NEW w \in Writers, PutEventID(w) PROVE NoClear' /\ Finished(w)
  <2>1. loc[w].ev = eventID
      BY <1>5 DEF IInv, EventInv, HasLoaded, PutEventID
  <2> QED BY <1>5, <2>1 DEF PutEventID, NoClear, Finished, HasCopied
<1>6. ASSUME NEW w \in Writers, Unlock(w) PROVE NoClear' /\ Kept
    BY <1>0, <1>6 DEF Unlock, Goto, NoClear, Kept, SomeLoaded, HasLoaded, HasCopied
<1>7. ~ Clear
    BY DEF Clear, ClearNum, ClearHead, ClearTail, NoClear
<1>8. CASE UNCHANGED ringVars
    BY <1>8 DEF ringVars, NoClear, Kept, SomeLoaded, HasLoaded, HasCopied
<1> QED BY <1>1, <1>2, <1>3, <1>4, <1>5, <1>6, <1>7, <1>8 DEF RingNext, Push

(* The ring in view stays in view until the push under way is finished.    *)
LEMMA ViewKept ==
    ASSUME Kept, NEW n, NEW h
    PROVE  /\ NumBefore(n) => NumBefore(n)'
           /\ NumAfter(n) => NumAfter(n)'
           /\ Before(n, h) => Before(n, h)'
           /\ After(n, h) => After(n, h)'
<1>1. CASE SomeLoaded
  <2>1. SomeLoaded'
      BY <1>1 DEF Kept, SomeLoaded
  <2>2. NumBefore(n) => NumBefore(n)'
      BY <1>1, <2>1 DEF Kept, NumBefore
  <2>3. Before(n, h) => Before(n, h)'
      BY <1>1, <2>1 DEF Kept, Before
  <2>4. \A w \in Writers : HasCopied(w) => HasLoaded(w)
      BY DEF HasCopied, HasLoaded
  <2>5. \A w \in Writers : HasCopied(w) => HasCopied(w)' /\ loc'[w] = loc[w]
      BY <2>4 DEF Kept
  <2>6. NumAfter(n) => NumAfter(n)'
      BY <2>5 DEF NumAfter
  <2>7. After(n, h) => After(n, h)'
      BY <2>5 DEF After
  <2> QED BY <2>2, <2>3, <2>6, <2>7
<1>2. CASE ~ SomeLoaded
  <2>1. ~ NumAfter(n) /\ ~ After(n, h)
      BY <1>2 DEF NumAfter, After, SomeLoaded, HasCopied, HasLoaded
  <2>2. CASE ~ SomeLoaded' /\ numRecords' = numRecords /\ head' = head
      BY <1>2, <2>1, <2>2 DEF NumBefore, Before
  <2>3. CASE \E v \in Writers : HasLoaded(v)' /\ loc'[v].num = numRecords /\ loc'[v].head = head
    <3>1. SomeLoaded'
        BY <2>3 DEF SomeLoaded
    <3> QED BY <1>2, <2>1, <2>3, <3>1 DEF NumBefore, Before
  <2> QED BY <1>2, <2>2, <2>3 DEF Kept
<1> QED BY <1>1, <1>2

(* A copy of a whole record is one for good: a push that finishes appends  *)
(* the record that was in flight.                                          *)
LEMMA WholeForGood ==
    ASSUME IInv, Kept \/ (\E w \in Writers : Finished(w)), NEW r, NEW k, Whole(r, k)
    PROVE  Whole(r, k)'
<1>1. log \in Seq(Calls) /\ Len(log) \in Nat
    BY DEF IInv, TypeOK
<1>2. CASE Kept
    BY <1>2 DEF Kept, Whole
<1>3. CASE \E w \in Writers : Finished(w)
  <2>1. PICK w \in Writers : Finished(w)
      BY <1>3
  <2>2. call[w] \in Calls
      BY <2>1 DEF IInv, CallInv, Inside, Finished, HasCopied
  <2>3. /\ log' \in Seq(Calls) /\ Len(log') = Len(log) + 1 /\ log'[Len(log) + 1] = call[w]
        /\ \A j \in 1 .. Len(log) : log'[j] = log[j]
      BY <1>1, <2>1, <2>2 DEF Finished
  <2>4. CASE k \in 0 .. Len(log) - 1 /\ r.call = log[k + 1]
    <3>1. k + 1 \in 1 .. Len(log) /\ k \in 0 .. Len(log') - 1
        BY <1>1, <2>3, <2>4
    <3> QED BY <2>3, <2>4, <3>1 DEF Whole
  <2>5. CASE k = Len(log) /\ \E v \in Writers : HasCopied(v) /\ r.call = call[v]
    <3>1. r.call = call[w]
        BY <2>1, <2>5, OneLoader DEF Finished
    <3>2. k \in 0 .. Len(log') - 1
        BY <1>1, <2>3, <2>5
    <3> QED BY <2>3, <2>5, <3>1, <3>2 DEF Whole
  <2> QED BY <2>4, <2>5 DEF Whole
<1> QED BY <1>2, <1>3

(* The copies made so far stay what they are.                              *)
LEMMA CopiedForGood ==
    ASSUME IInv, Kept \/ (\E w \in Writers : Finished(w)), UNCHANGED readerVars,
           NEW first, Copied(first)
    PROVE  Copied(first)'
<1>1. recs' = recs /\ rnum' = rnum
    BY DEF readerVars
<1> SUFFICES ASSUME NEW i \in 1 .. Len(recs), i > 1 \/ rnum < MaxRecords
             PROVE  Whole(recs[i], first + i - 1)'
    BY <1>1 DEF Copied
<1>2. Whole(recs[i], first + i - 1)
    BY DEF Copied
<1>a. PICK r, k : r = recs[i] /\ k = first + i - 1
    OBVIOUS
<1>3. Whole(r, k)
    BY <1>2, <1>a
<1>4. Whole(r, k)'
    BY <1>3, WholeForGood
<1> QED BY <1>1, <1>a, <1>4

(* A step of a writer while the reader rests.                              *)
LEMMA ViewPush ==
    ASSUME IInv, BusyInv, NoClear, ~ HasClearer, ViewInv, [RingNext]_ringVars, UNCHANGED readerVars
    PROVE  ViewInv'
<1>1. Kept \/ \E w \in Writers : Finished(w)
    BY PushKeeps
<1>2. rpc' = rpc /\ recs' = recs /\ rnum' = rnum /\ rhead' = rhead /\ eventBefore' = eventBefore
    BY DEF readerVars
<1>3. rpc \in {"head", "copy"} /\ eventID' = eventBefore => Kept /\ eventID = eventBefore
  <2>1. rpc \in {"head", "copy"} => eventBefore <= eventID /\ eventBefore \in Nat
      BY DEF BusyInv
  <2>2. eventID \in Nat
      BY DEF IInv, TypeOK
  <2>3. (\E w \in Writers : Finished(w)) => eventID' = eventID + 1
      BY DEF Finished
  <2>4. Kept => eventID' = eventID
      BY DEF Kept
  <2> QED BY <1>1, <2>1, <2>2, <2>3, <2>4
<1>4. /\ recs' \in Seq([call : Calls \cup {NoCall}, id : Nat])
      /\ rpc' \in {"head", "copy", "accepted"} => rnum' \in 0 .. MaxRecords
      /\ rpc' = "copy" => rhead' \in Slots /\ Len(recs') <= rnum'
      /\ rpc' \in {"num", "head"} => recs' = << >>
    BY <1>2 DEF ViewInv
<1>5. ASSUME rpc = "head", eventID' = eventBefore PROVE (NumBefore(rnum) \/ NumAfter(rnum))'
  <2>1. NumBefore(rnum) \/ NumAfter(rnum)
      BY <1>3, <1>5 DEF ViewInv
  <2>2. PICK n : n = rnum
      OBVIOUS
  <2>3. (NumBefore(n) => NumBefore(n)') /\ (NumAfter(n) => NumAfter(n)')
      BY <1>3, <1>5, ViewKept
  <2> QED BY <1>2, <2>1, <2>2, <2>3
<1>6. ASSUME rpc = "copy", eventID' = eventBefore
      PROVE  (\/ Before(rnum, rhead) /\ Copied(eventBefore - rnum)
              \/ After(rnum, rhead) /\ Copied(eventBefore - rnum + 1))'
  <2>1. \/ Before(rnum, rhead) /\ Copied(eventBefore - rnum)
        \/ After(rnum, rhead) /\ Copied(eventBefore - rnum + 1)
      BY <1>3, <1>6 DEF ViewInv
  <2>2. PICK n, h, a, b : n = rnum /\ h = rhead /\ a = eventBefore - rnum /\ b = eventBefore - rnum + 1
      OBVIOUS
  <2>3. (Before(n, h) => Before(n, h)') /\ (After(n, h) => After(n, h)')
      BY <1>3, <1>6, ViewKept
  <2>4. (Copied(a) => Copied(a)') /\ (Copied(b) => Copied(b)')
      BY <1>1, CopiedForGood
  <2>5. (Before(n, h) /\ Copied(a)) \/ (After(n, h) /\ Copied(b))
      BY <2>1, <2>2
  <2>6. (Before(n, h)' /\ Copied(a)') \/ (After(n, h)' /\ Copied(b)')
      BY <2>3, <2>4, <2>5
  <2>7. n = rnum' /\ h = rhead' /\ a = eventBefore' - rnum' /\ b = eventBefore' - rnum' + 1
      BY <1>2, <2>2
  <2> QED BY <2>6, <2>7
<1>7. ASSUME rpc = "accepted"
      PROVE  /\ Len(recs') = rnum'
             /\ \E first \in {eventBefore' - rnum', eventBefore' - rnum' + 1} : Copied(first)'
  <2>1. Len(recs) = rnum /\ \E first \in {eventBefore - rnum, eventBefore - rnum + 1} : Copied(first)
      BY <1>7 DEF ViewInv
  <2>2. PICK first \in {eventBefore - rnum, eventBefore - rnum + 1} : Copied(first)
      BY <2>1
  <2>3. Copied(first)'
      BY <1>1, <2>2, CopiedForGood
  <2> QED BY <1>2, <2>1, <2>3
<1>8. (rpc = "accepted" => \E first \in {eventBefore - rnum, eventBefore - rnum + 1} : Copied(first))'
    BY <1>2, <1>7
<1> QED BY <1>2, <1>4, <1>5, <1>6, <1>7, <1>8 DEF ViewInv

(* One more copy.                                                          *)
LEMMA CopyMore ==
    ASSUME IInv, CopyRecord, UNCHANGED ringVars, recs \in Seq([call : Calls \cup {NoCall}, id : Nat]),
           rnum \in 0 .. MaxRecords, rhead \in Slots, NEW first \in Int, Copied(first),
           \A i \in 0 .. rnum - 1 : i > 0 \/ rnum < MaxRecords =>
               Holds(Slot(rhead, i), first + i) \/ HoldsInFlight(Slot(rhead, i), first + i)
    PROVE  Copied(first)'
<1> DEFINE n == Len(recs)
           s == Slot(rhead, n)
           r == [call |-> slotCall[s], id |-> slotId[s]]
<1>1. n \in Nat /\ n < rnum /\ recs' = Append(recs, r) /\ rnum' = rnum /\ n \in 0 .. rnum - 1
    BY DEF CopyRecord
<1>2. ASSUME n > 0 \/ rnum < MaxRecords PROVE Whole(r, first + n)
  <2>1. Holds(s, first + n) \/ HoldsInFlight(s, first + n)
      BY <1>1, <1>2
  <2> QED BY <2>1, CopyIsWhole
<1>3. r \in [call : Calls \cup {NoCall}, id : Nat]
  <2>1. n \in 0 .. MaxRecords
      BY <1>1, RingAssumption
  <2>2. s \in Slots
      BY <2>1, SlotIs
  <2> HIDE DEF s
  <2>3. slotCall[s] \in Calls \cup {NoCall} /\ slotId[s] \in Nat
      BY <2>2 DEF IInv, TypeOK
  <2> QED BY <2>3
<1> HIDE DEF r
<1>4. Len(recs') = n + 1 /\ recs'[n + 1] = r /\ \A i \in 1 .. n : recs'[i] = recs[i]
    BY <1>1, <1>3
<1>5. ASSUME NEW i \in 1 .. Len(recs'), i > 1 \/ rnum < MaxRecords
      PROVE  Whole(recs'[i], first + i - 1)
  <2>1. CASE i \in 1 .. n
      BY <1>4, <1>5, <2>1 DEF Copied
  <2>2. CASE i = n + 1
    <3>1. first + i - 1 = first + n /\ (n > 0 \/ rnum < MaxRecords)
        BY <1>1, <1>5, <2>2
    <3> QED BY <1>2, <1>4, <2>2, <3>1
  <2> QED BY <1>1, <1>4, <1>5, <2>1, <2>2
<1>6. log' = log /\ call' = call /\ wpc' = wpc
    BY DEF ringVars
<1> HIDE DEF n, s
<1> QED BY <1>1, <1>5, <1>6 DEF Copied, Whole, HasCopied

(* A step of the reader.                                                   *)
LEMMA ViewRead ==
    ASSUME IInv, BusyInv, NoClear, ViewInv, UNCHANGED ringVars, BeginRead \/ ReadStep
    PROVE  ViewInv'
<1>0. << >> \in Seq([call : Calls \cup {NoCall}, id : Nat]) /\ Len(<< >>) = 0
    OBVIOUS
<1>a. UNCHANGED <<numRecords, head, wpc, loc, log, call, eventID, slotCall, slotId>>
    BY DEF ringVars
<1>1. CASE BeginRead \/ ReadEventBefore
    BY <1>0, <1>1 DEF BeginRead, ReadEventBefore, ViewInv
<1>2. CASE ReadNum
  <2>1. NumBefore(numRecords) \/ NumAfter(numRecords)
      BY NumIsSeen
  <2>2. rnum' = numRecords /\ rpc' = "head" /\ recs' = recs /\ recs = << >> /\ eventBefore' = eventBefore
      BY <1>2 DEF ReadNum, ViewInv
  <2>3. (NumBefore(rnum) \/ NumAfter(rnum))'
      BY <1>a, <2>1, <2>2 DEF NumBefore, NumAfter, SomeLoaded, HasLoaded, HasCopied
  <2>4. rnum' \in 0 .. MaxRecords
      BY <2>2 DEF IInv, TypeOK
  <2> QED BY <1>0, <2>2, <2>3, <2>4 DEF ViewInv
<1>3. CASE ReadHead
  <2>1. /\ rhead' = head /\ rpc' = "copy" /\ rpc = "head" /\ recs' = recs /\ recs = << >>
        /\ eventBefore' = eventBefore /\ rnum' = rnum /\ rnum \in 0 .. MaxRecords
      BY <1>3 DEF ReadHead, ViewInv
  <2>2. eventID = eventBefore => Before(rnum, head) \/ After(rnum, head)
      BY <2>1, HeadIsSeen DEF ViewInv
  <2>3. eventID = eventBefore => (Before(rnum, rhead) \/ After(rnum, rhead))'
      BY <1>a, <2>1, <2>2 DEF Before, After, SomeLoaded, HasLoaded, HasCopied
  <2>4. \A first : Copied(first)'
      BY <1>0, <2>1 DEF Copied
  <2>5. rhead' \in Slots /\ Len(recs') <= rnum'
      BY <1>0, <2>1, RingAssumption DEF IInv, TypeOK
  <2>6. (Copied(eventBefore - rnum) /\ Copied(eventBefore - rnum + 1))'
      BY <2>1, <2>4
  <2> QED BY <1>0, <1>a, <2>1, <2>3, <2>5, <2>6 DEF ViewInv
<1>4. CASE CopyRecord
  <2>1. /\ rpc = "copy" /\ rpc' = "copy" /\ UNCHANGED <<eventBefore, rnum, rhead>>
        /\ rnum \in 0 .. MaxRecords /\ rhead \in Slots /\ Len(recs) < rnum
        /\ recs \in Seq([call : Calls \cup {NoCall}, id : Nat])
      BY <1>4 DEF CopyRecord, ViewInv
  <2>2. /\ recs' \in Seq([call : Calls \cup {NoCall}, id : Nat]) /\ Len(recs') <= rnum'
    <3> DEFINE s == Slot(rhead, Len(recs))
               r == [call |-> slotCall[s], id |-> slotId[s]]
    <3>1. recs' = Append(recs, r) /\ Len(recs) \in 0 .. MaxRecords
        BY <1>4, <2>1, RingAssumption DEF CopyRecord
    <3>2. s \in Slots
        BY <2>1, <3>1, SlotIs
    <3> HIDE DEF s
    <3>3. slotCall[s] \in Calls \cup {NoCall} /\ slotId[s] \in Nat
        BY <3>2 DEF IInv, TypeOK
    <3>4. r \in [call : Calls \cup {NoCall}, id : Nat]
        BY <3>3
    <3> HIDE DEF r
    <3> QED BY <2>1, <3>1, <3>4
  <2>3. eventID \in Nat /\ rnum \in Int
      BY <2>1 DEF IInv, TypeOK
  <2>4. ASSUME eventID = eventBefore
        PROVE  (\/ Before(rnum, rhead) /\ Copied(eventBefore - rnum)
                \/ After(rnum, rhead) /\ Copied(eventBefore - rnum + 1))'
    <3>1. CASE Before(rnum, rhead) /\ Copied(eventBefore - rnum)
      <4>a. PICK first : first = eventBefore - rnum
          OBVIOUS
      <4>1. first \in Int /\ first = eventID - rnum /\ Copied(first)
          BY <2>3, <2>4, <3>1, <4>a
      <4>2. \A i \in 0 .. rnum - 1 : i > 0 \/ rnum < MaxRecords => Holds(Slot(rhead, i), first + i)
          BY <2>1, <3>1, <4>1, BeforeHolds
      <4>3. Copied(first)'
          BY <1>4, <2>1, <4>1, <4>2, CopyMore
      <4>4. Before(rnum, rhead)'
          BY <1>a, <2>1, <3>1 DEF Before, SomeLoaded, HasLoaded
      <4>5. first = eventBefore' - rnum'
          BY <2>1, <4>a
      <4> QED BY <4>3, <4>4, <4>5
    <3>2. CASE After(rnum, rhead) /\ Copied(eventBefore - rnum + 1)
      <4>a. PICK first : first = eventBefore - rnum + 1
          OBVIOUS
      <4>1. first \in Int /\ first = eventID - rnum + 1 /\ Copied(first)
          BY <2>3, <2>4, <3>2, <4>a
      <4>2. \A i \in 0 .. rnum - 1 : Holds(Slot(rhead, i), first + i) \/ HoldsInFlight(Slot(rhead, i), first + i)
          BY <2>1, <3>2, <4>1, AfterHolds
      <4>3. Copied(first)'
          BY <1>4, <2>1, <4>1, <4>2, CopyMore
      <4>4. After(rnum, rhead)'
          BY <1>a, <2>1, <3>2 DEF After, HasCopied
      <4>5. first = eventBefore' - rnum' + 1
          BY <2>1, <4>a
      <4> QED BY <4>3, <4>4, <4>5
    <3> QED BY <2>1, <2>4, <3>1, <3>2 DEF ViewInv
  <2> QED BY <1>a, <2>1, <2>2, <2>4 DEF ViewInv
<1>5. CASE CompareEvent
  <2>1. /\ rpc = "copy" /\ Len(recs) = rnum /\ UNCHANGED <<eventBefore, rnum, rhead, recs>>
        /\ rpc' \in {"accepted", "before", "failed"}
        /\ rpc' = "accepted" => eventID = eventBefore
      BY <1>5 DEF CompareEvent, Accepts
  <2>2. \A first : Copied(first) => Copied(first)'
      BY <1>a, <2>1 DEF Copied, Whole, HasCopied
  <2>3. rpc' = "accepted" => \E first \in {eventBefore - rnum, eventBefore - rnum + 1} : Copied(first)
      BY <2>1 DEF ViewInv
  <2>4. rpc' = "accepted" => (\E first \in {eventBefore - rnum, eventBefore - rnum + 1} : Copied(first))'
      BY <2>1, <2>2, <2>3
  <2> QED BY <2>1, <2>4 DEF ViewInv
<1> QED BY <1>1, <1>2, <1>3, <1>4, <1>5 DEF ReadStep

(* What read_shm_records really gives where no local controller runs: an   *)
(* accepted snapshot is a run of consecutive whole records from its second *)
(* element on, and from its first on if the ring was not full, whatever    *)
(* the writers do between the reader's loads and afterwards.               *)
THEOREM SnapshotSound == ASSUME ~ HasClearer PROVE SnapshotSpec => []SnapshotSoundButOldest
<1> DEFINE J == BusyInv /\ NoClear /\ ViewInv
<1>1. SnapshotInit => J
  <2>1. << >> \in Seq([call : Calls \cup {NoCall}, id : Nat])
      OBVIOUS
  <2> QED BY <2>1, AttemptsAssumption DEF SnapshotInit, Init, BusyInv, ReaderPCs, NoClear, ViewInv
<1>2. IInv /\ J /\ [SnapshotNext]_vars => J'
  <2> SUFFICES ASSUME IInv, J, [SnapshotNext]_vars PROVE J'
      OBVIOUS
  <2>1. BusyInv'
      BY BusyStep
  <2>2. CASE [RingNext]_ringVars /\ UNCHANGED readerVars
      BY <2>1, <2>2, PushKeeps, ViewPush
  <2>3. CASE UNCHANGED ringVars /\ (BeginRead \/ ReadStep)
    <3>1. NoClear'
        BY <2>3 DEF ringVars, NoClear
    <3> QED BY <2>1, <2>3, <3>1, ViewRead
  <2> QED BY <2>2, <2>3, SnapshotIsRing
<1>3. IInv /\ J => SnapshotSoundButOldest
  <2> SUFFICES ASSUME IInv, J, rpc = "accepted" PROVE SnapshotSoundButOldest
      BY DEF SnapshotSoundButOldest, AcceptedIsWindow
  <2>1. PICK first \in {eventBefore - rnum, eventBefore - rnum + 1} : Copied(first)
      BY DEF ViewInv
  <2>2. Len(recs) = rnum /\ rnum \in 0 .. MaxRecords /\ Len(log) \in Nat
      BY DEF ViewInv, IInv, TypeOK
  <2> DEFINE from == IF rnum = MaxRecords THEN 2 ELSE 1
  <2>3. ASSUME NEW i \in from .. rnum PROVE IsRecord(recs[i], first + i - 1)
    <3>1. i \in 1 .. Len(recs) /\ (i > 1 \/ rnum < MaxRecords)
        BY <2>2, RingAssumption
    <3>2. Whole(recs[i], first + i - 1)
        BY <2>1, <3>1 DEF Copied
    <3> DEFINE k == first + i - 1
    <3> HIDE DEF k
    <3>3. Whole(recs[i], k)
        BY <3>2 DEF k
    <3>4. IsRecord(recs[i], k)
        BY <2>2, <3>3 DEF Whole, IsRecord, HasCopied, Inside
    <3> QED BY <3>4 DEF k
  <2> QED BY <2>1, <2>3 DEF SnapshotSoundButOldest, AcceptedIsWindow
<1> HIDE DEF J
<1> QED BY <1>1, <1>2, <1>3, SnapshotRing, PTL DEF SnapshotSpec
=============================================================================
