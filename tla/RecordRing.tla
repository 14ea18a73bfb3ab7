----------------------------- MODULE RecordRing -----------------------------
(***************************************************************************)
(* The shared-memory ring "ncclRecord" of a node: RecordBuffer and         *)
(* NcclRecordStorage of detector/shm_storage.cpp, pushed to by every probe *)
(* process of the node under the interprocess mutex "recordLock", and      *)
(* emptied without that mutex by NcclRecord.clear() of the node's local    *)
(* controller (control_plane/local_analyzer.py).                           *)
(*                                                                         *)
(* Every load and store of a metadata cell is a step of its own, because   *)
(* clear() and the readers of the ring take no lock; the memcpy of a       *)
(* record is two steps, one for the payload fields and one for the last    *)
(* field (the event id), in either order.  Stores of one process become    *)
(* visible in program order.                                               *)
(***************************************************************************)
EXTENDS Integers, Sequences

CONSTANTS
    Writers,     \* probe processes of the node, all past their constructor
    Calls,       \* what a record says about one intercepted call
    NoCall,      \* the payload of a slot no record was ever copied into
    MaxRecords,  \* addr[1], the capacity (BUFFER_SIZE)
    HasClearer,  \* TRUE where a local controller runs on the node
    MaxEvents    \* bound: records pushed in a behaviour

ASSUME RingAssumption ==
    /\ MaxRecords \in Nat \ {0}
    /\ MaxEvents \in Nat
    /\ HasClearer \in BOOLEAN
    /\ NoCall \notin Calls

VARIABLES
    numRecords, head, tail,  \* addr[2], addr[3], addr[4]
    eventID,                 \* addr[6], the id the next record gets
    slotCall, slotId,        \* the records: payload fields, last field
    locked,                  \* recordLock
    wpc,                     \* where in addRecord a writer is
    loc,                     \* the members of its RecordBuffer after loadMeta
    call,                    \* the record it is pushing
    cpc,                     \* where in clear() the local controller is
    log,                     \* history: the payloads of the finished pushes
    clearedAt,               \* history: eventID when the last clear() began
    overlap,                 \* history: a push ran during this clear()
    raced                    \* history: some such clear() has not been healed

ringVars == <<numRecords, head, tail, eventID, slotCall, slotId, locked,
              wpc, loc, call, cpc, log, clearedAt, overlap, raced>>

Slots == 0 .. MaxRecords - 1

WriterPCs == {"out", "load2", "load3", "load4", "copy", "copyCall", "copyId",
              "put2", "put3", "put4", "put6", "unlock"}

(* A writer that is between the two ends of its scoped_lock.               *)
Inside(w) == wpc[w] # "out"

SomeInside == \E w \in Writers : Inside(w)

Goto(w, l) == wpc' = [wpc EXCEPT ![w] = l]

-----------------------------------------------------------------------------
(* The state after the first process has mapped the zero-filled segment    *)
(* and run updateMeta(true).                                               *)
Init ==
    /\ numRecords = 0 /\ head = 0 /\ tail = 0 /\ eventID = 0
    /\ slotCall = [s \in Slots |-> NoCall]
    /\ slotId = [s \in Slots |-> 0]
    /\ locked = FALSE
    /\ wpc = [w \in Writers |-> "out"]
    /\ loc = [w \in Writers |-> [num |-> 0, head |-> 0, tail |-> 0, ev |-> 0]]
    /\ call = [w \in Writers |-> NoCall]
    /\ cpc = "off"
    /\ log = << >>
    /\ clearedAt = 0 /\ overlap = FALSE /\ raced = FALSE

-----------------------------------------------------------------------------
(* NcclRecordStorage::addRecord and RecordBuffer::push.                    *)

(* scoped_lock slock(lock->mutex)                                          *)
Lock(w, c) ==
    /\ ~Inside(w) /\ ~locked
    /\ eventID < MaxEvents
    /\ locked' = TRUE
    /\ call' = [call EXCEPT ![w] = c]
    /\ Goto(w, "load2")
    /\ overlap' = (overlap \/ cpc # "off")
    /\ raced' = (raced \/ cpc # "off")
    /\ UNCHANGED <<numRecords, head, tail, eventID, slotCall, slotId, loc,
                   cpc, log, clearedAt>>

(* loadMeta(): one load per cell                                           *)
LoadNum(w) ==
    /\ wpc[w] = "load2"
    /\ loc' = [loc EXCEPT ![w].num = numRecords]
    /\ Goto(w, "load3")
    /\ UNCHANGED <<numRecords, head, tail, eventID, slotCall, slotId, locked,
                   call, cpc, log, clearedAt, overlap, raced>>

LoadHead(w) ==
    /\ wpc[w] = "load3"
    /\ loc' = [loc EXCEPT ![w].head = head]
    /\ Goto(w, "load4")
    /\ UNCHANGED <<numRecords, head, tail, eventID, slotCall, slotId, locked,
                   call, cpc, log, clearedAt, overlap, raced>>

(* addr[4], and addr[6] with it: nobody stores addr[6] outside the lock    *)
LoadTail(w) ==
    /\ wpc[w] = "load4"
    /\ loc' = [loc EXCEPT ![w].tail = tail, ![w].ev = eventID]
    /\ Goto(w, "copy")
    /\ UNCHANGED <<numRecords, head, tail, eventID, slotCall, slotId, locked,
                   call, cpc, log, clearedAt, overlap, raced>>

(* The memcpy into slot tail: the fields in front of the last one ...      *)
CopyCall(w) ==
    /\ wpc[w] \in {"copy", "copyCall"}
    /\ slotCall' = [slotCall EXCEPT ![loc[w].tail] = call[w]]
    /\ Goto(w, IF wpc[w] = "copy" THEN "copyId" ELSE "put2")
    /\ UNCHANGED <<numRecords, head, tail, eventID, slotId, locked, loc,
                   call, cpc, log, clearedAt, overlap, raced>>

(* ... and the last one, record[record.size() - 1] = eventID               *)
CopyId(w) ==
    /\ wpc[w] \in {"copy", "copyId"}
    /\ slotId' = [slotId EXCEPT ![loc[w].tail] = loc[w].ev]
    /\ Goto(w, IF wpc[w] = "copy" THEN "copyCall" ELSE "put2")
    /\ UNCHANGED <<numRecords, head, tail, eventID, slotCall, locked, loc,
                   call, cpc, log, clearedAt, overlap, raced>>

(* What push computes from the loaded members                              *)
NewTail(l) == (l.tail + 1) % MaxRecords

(* Variant: the oldest record is not dropped.                              *)
NewHeadStuck(l) == l.head

(* Variant: head advances with the push that fills the ring.               *)
NewHeadEarly(l) ==
    IF l.num + 1 >= MaxRecords THEN (l.head + 1) % MaxRecords ELSE l.head

NewHead(l) == IF l.num = MaxRecords THEN (l.head + 1) % MaxRecords ELSE l.head

(* Variant: the count is not capped.                                       *)
NewNumUncapped(l) == l.num + 1

NewNum(l) == IF l.num < MaxRecords THEN l.num + 1 ELSE l.num

(* updateMeta(false): one store per cell, addr[6] last                     *)
PutNum(w) ==
    /\ wpc[w] = "put2"
    /\ numRecords' = NewNum(loc[w])
    /\ Goto(w, "put3")
    /\ UNCHANGED <<head, tail, eventID, slotCall, slotId, locked, loc, call,
                   cpc, log, clearedAt, overlap, raced>>

PutHead(w) ==
    /\ wpc[w] = "put3"
    /\ head' = NewHead(loc[w])
    /\ Goto(w, "put4")
    /\ UNCHANGED <<numRecords, tail, eventID, slotCall, slotId, locked, loc,
                   call, cpc, log, clearedAt, overlap, raced>>

PutTail(w) ==
    /\ wpc[w] = "put4"
    /\ tail' = NewTail(loc[w])
    /\ Goto(w, "put6")
    /\ UNCHANGED <<numRecords, head, eventID, slotCall, slotId, locked, loc,
                   call, cpc, log, clearedAt, overlap, raced>>

PutEventID(w) ==
    /\ wpc[w] = "put6"
    /\ eventID' = loc[w].ev + 1
    /\ log' = Append(log, call[w])
    /\ Goto(w, "unlock")
    /\ UNCHANGED <<numRecords, head, tail, slotCall, slotId, locked, loc,
                   call, cpc, clearedAt, overlap, raced>>

(* the destructor of slock                                                 *)
Unlock(w) ==
    /\ wpc[w] = "unlock"
    /\ locked' = FALSE
    /\ Goto(w, "out")
    /\ UNCHANGED <<numRecords, head, tail, eventID, slotCall, slotId, loc,
                   call, cpc, log, clearedAt, overlap, raced>>

Push(w) ==
    \/ LoadNum(w) \/ LoadHead(w) \/ LoadTail(w)
    \/ CopyCall(w) \/ CopyId(w)
    \/ PutNum(w) \/ PutHead(w) \/ PutTail(w) \/ PutEventID(w)
    \/ Unlock(w)

-----------------------------------------------------------------------------
(* NcclRecord.clear() of the local controller: three stores, no lock, at   *)
(* moments that follow from sleeps and not from what the writers do.       *)

(* Variant: clear() resets the event ids too.                              *)
ClearNumAndIds ==
    /\ HasClearer
    /\ cpc = "off"
    /\ numRecords' = 0 /\ eventID' = 0
    /\ cpc' = "clear3"
    /\ clearedAt' = eventID
    /\ overlap' = SomeInside
    /\ raced' = (raced \/ SomeInside)
    /\ UNCHANGED <<head, tail, slotCall, slotId, locked, wpc, loc, call, log>>

(* Variant: clear() rewinds head and tail only.                            *)
ClearNumForgotten ==
    /\ HasClearer
    /\ cpc = "off"
    /\ cpc' = "clear3"
    /\ clearedAt' = eventID
    /\ overlap' = SomeInside
    /\ raced' = (raced \/ SomeInside)
    /\ UNCHANGED <<numRecords, head, tail, eventID, slotCall, slotId, locked,
                   wpc, loc, call, log>>

ClearNum ==
    /\ HasClearer
    /\ cpc = "off"
    /\ numRecords' = 0
    /\ cpc' = "clear3"
    /\ clearedAt' = eventID
    /\ overlap' = SomeInside
    /\ raced' = (raced \/ SomeInside)
    /\ UNCHANGED <<head, tail, eventID, slotCall, slotId, locked, wpc, loc,
                   call, log>>

ClearHead ==
    /\ cpc = "clear3"
    /\ head' = 0
    /\ cpc' = "clear4"
    /\ UNCHANGED <<numRecords, tail, eventID, slotCall, slotId, locked, wpc,
                   loc, call, log, clearedAt, overlap, raced>>

ClearTail ==
    /\ cpc = "clear4"
    /\ tail' = 0
    /\ cpc' = "off"
    /\ raced' = (raced /\ overlap)
    /\ UNCHANGED <<numRecords, head, eventID, slotCall, slotId, locked, wpc,
                   loc, call, log, clearedAt, overlap>>

Clear == ClearNum \/ ClearHead \/ ClearTail

-----------------------------------------------------------------------------
RingNext ==
    \/ \E w \in Writers, c \in Calls : Lock(w, c)
    \/ \E w \in Writers : Push(w)
    \/ Clear

RingSpec == Init /\ [][RingNext]_ringVars

-----------------------------------------------------------------------------
(* The slot of the i-th oldest record, as every reader computes it         *)
Slot(h, i) == (h + i) % MaxRecords

(* Slot s holds record number k of the history, whole.                     *)
Holds(s, k) ==
    /\ k \in 0 .. Len(log) - 1
    /\ slotCall[s] = log[k + 1]
    /\ slotId[s] = k

(* Slot s holds, whole, record number k that is still being published.     *)
HoldsInFlight(s, k) ==
    \E w \in Writers :
        /\ wpc[w] \in {"put2", "put3", "put4", "put6"}
        /\ k = loc[w].ev
        /\ slotCall[s] = call[w]
        /\ slotId[s] = k

(* Between pushes and clears                                               *)
Quiet == ~SomeInside /\ cpc = "off"

(* Types: in particular no interleaving of push() and clear() takes head,  *)
(* tail or numRecords out of the ring.                                     *)
TypeOK ==
    /\ numRecords \in 0 .. MaxRecords
    /\ head \in Slots /\ tail \in Slots
    /\ eventID \in Nat
    /\ slotCall \in [Slots -> Calls \cup {NoCall}]
    /\ slotId \in [Slots -> Nat]
    /\ locked \in BOOLEAN
    /\ wpc \in [Writers -> WriterPCs]
    /\ loc \in [Writers -> [num : 0 .. MaxRecords, head : Slots, tail : Slots,
                            ev : Nat]]
    /\ call \in [Writers -> Calls \cup {NoCall}]
    /\ cpc \in {"off", "clear3", "clear4"}
    /\ log \in Seq(Calls)
    /\ clearedAt \in Nat
    /\ overlap \in BOOLEAN /\ raced \in BOOLEAN

(* push() of shm_storage.cpp: whenever no push or clear is under way, and  *)
(* unless a clear() raced with a push, the ring read from head is exactly  *)
(* the newest numRecords records that were ever pushed, whole, in order,   *)
(* stamped with consecutive event ids, and tail is the slot behind them.   *)
RingHoldsRecent ==
    Quiet /\ ~raced =>
        /\ eventID = Len(log)
        /\ tail = Slot(head, numRecords)
        /\ \A i \in 0 .. numRecords - 1 :
              Holds(Slot(head, i), eventID - numRecords + i)

(* What a reader that takes no lock can rely on at every instant, in the   *)
(* middle of a push() too (unless a clear() is involved): the slots it     *)
(* would visit hold consecutive whole records, except that the first slot  *)
(* of a full ring may be under the writer's memcpy.                        *)
OnlyOldestAtRisk ==
    cpc = "off" /\ ~raced =>
        \E first \in {eventID - numRecords, eventID - numRecords + 1} :
            \A i \in 0 .. numRecords - 1 :
                i > 0 \/ numRecords < MaxRecords =>
                    \/ Holds(Slot(head, i), first + i)
                    \/ HoldsInFlight(Slot(head, i), first + i)

(* The "HACK" of push() that stamps records with addr[6]: clear() leaves   *)
(* addr[6] alone, so no two slots ever carry the same event id, whatever   *)
(* the races, save for a slot whose memcpy is half done.  detect_failstop  *)
(* and every sort_values(by='event_id') rest on it.                        *)
EventIdsUnique ==
    \A s, t \in Slots :
        /\ s # t
        /\ slotCall[s] # NoCall /\ slotCall[t] # NoCall
        /\ slotId[s] = slotId[t]
        => \E w \in Writers :
              wpc[w] \in {"copyCall", "copyId"} /\ loc[w].tail \in {s, t}

(* clear() in local_analyzer.py: once it has run, and unless a push raced  *)
(* with it, no record finished before it can be read again.                *)
CleanClearForgets ==
    Quiet /\ ~raced =>
        \A i \in 0 .. numRecords - 1 : slotId[Slot(head, i)] >= clearedAt
=============================================================================
