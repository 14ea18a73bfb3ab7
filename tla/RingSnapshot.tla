---------------------------- MODULE RingSnapshot ----------------------------
(***************************************************************************)
(* read_shm_records() of metax_eval/detect_runner.py beside the writers of *)
(* RecordRing.  The reader takes no lock: it reads addr[6], numRecords and *)
(* head, copies the records slot by slot, reads addr[6] again and keeps    *)
(* the copy when the two values agree, up to MaxAttempts times.            *)
(***************************************************************************)
EXTENDS RecordRing

CONSTANT MaxAttempts    \* range(10) in the code

ASSUME AttemptsAssumption == MaxAttempts \in Nat \ {0}

VARIABLES
    rpc,          \* where the reader is
    attempt,      \* attempts begun
    eventBefore,  \* event_before
    rnum, rhead,  \* num_records and head, as read in this attempt
    recs,         \* the records copied so far
    startEvent    \* history: addr[6] when the call began

readerVars == <<rpc, attempt, eventBefore, rnum, rhead, recs, startEvent>>
vars == <<ringVars, readerVars>>

ReaderPCs == {"rest", "before", "num", "head", "copy", "accepted", "failed"}

SnapshotInit ==
    /\ Init
    /\ rpc = "rest"
    /\ attempt = 0 /\ eventBefore = 0 /\ rnum = 0 /\ rhead = 0
    /\ recs = << >>
    /\ startEvent = 0

-----------------------------------------------------------------------------
(* A call of read_shm_records(), the first or a later one                  *)
BeginRead ==
    /\ rpc \in {"rest", "accepted", "failed"}
    /\ rpc' = "before"
    /\ attempt' = 0
    /\ recs' = << >>
    /\ startEvent' = eventID
    /\ UNCHANGED <<ringVars, eventBefore, rnum, rhead>>

(* Variant: event_before is read once, in front of the loop.               *)
ReadEventBeforeOnce ==
    /\ rpc = "before"
    /\ eventBefore' = IF attempt = 0 THEN eventID ELSE eventBefore
    /\ attempt' = attempt + 1
    /\ recs' = << >>
    /\ rpc' = "num"
    /\ UNCHANGED <<ringVars, rnum, rhead, startEvent>>

ReadEventBefore ==
    /\ rpc = "before"
    /\ eventBefore' = eventID
    /\ attempt' = attempt + 1
    /\ recs' = << >>
    /\ rpc' = "num"
    /\ UNCHANGED <<ringVars, rnum, rhead, startEvent>>

ReadNum ==
    /\ rpc = "num"
    /\ rnum' = numRecords
    /\ rpc' = "head"
    /\ UNCHANGED <<ringVars, attempt, eventBefore, rhead, recs, startEvent>>

ReadHead ==
    /\ rpc = "head"
    /\ rhead' = head
    /\ rpc' = "copy"
    /\ UNCHANGED <<ringVars, attempt, eventBefore, rnum, recs, startEvent>>

(* recs[i] = buf[start: start + n_fields]                                  *)
CopyRecord ==
    /\ rpc = "copy"
    /\ Len(recs) < rnum
    /\ LET s == Slot(rhead, Len(recs))
       IN recs' = Append(recs, [call |-> slotCall[s], id |-> slotId[s]])
    /\ UNCHANGED <<ringVars, rpc, attempt, eventBefore, rnum, rhead, startEvent>>

(* The comparison with event_after: keep the copy, retry, or give up with  *)
(* the RuntimeError                                                        *)
(* Variant: no comparison.                                                 *)
AcceptsAnything == TRUE

Accepts == eventID = eventBefore

(* Variant: the records are copied again until event_before is back.       *)
CompareEventForever ==
    /\ rpc = "copy"
    /\ Len(recs) = rnum
    /\ rpc' = IF Accepts THEN "accepted" ELSE "num"
    /\ recs' = IF Accepts THEN recs ELSE << >>
    /\ UNCHANGED <<ringVars, attempt, eventBefore, rnum, rhead, startEvent>>

CompareEvent ==
    /\ rpc = "copy"
    /\ Len(recs) = rnum
    /\ rpc' = IF Accepts THEN "accepted"
              ELSE IF attempt < MaxAttempts THEN "before" ELSE "failed"
    /\ UNCHANGED <<ringVars, attempt, eventBefore, rnum, rhead, recs, startEvent>>

ReadStep == ReadEventBefore \/ ReadNum \/ ReadHead \/ CopyRecord \/ CompareEvent

-----------------------------------------------------------------------------
SnapshotNext ==
    \/ RingNext /\ UNCHANGED readerVars
    \/ BeginRead
    \/ ReadStep

(* A process that was scheduled goes on being scheduled: a writer inside   *)
(* addRecord and a reader inside read_shm_records finish what they began.  *)
Fairness ==
    /\ \A w \in Writers : WF_vars(Push(w) /\ UNCHANGED readerVars)
    /\ WF_vars(ReadStep)

SnapshotSpec == SnapshotInit /\ [][SnapshotNext]_vars /\ Fairness

-----------------------------------------------------------------------------
ReaderTypeOK ==
    /\ rpc \in ReaderPCs
    /\ attempt \in 0 .. MaxAttempts
    /\ eventBefore \in Nat /\ startEvent \in Nat
    /\ rnum \in 0 .. MaxRecords
    /\ rhead \in Slots
    /\ recs \in Seq([call : Calls \cup {NoCall}, id : Nat])

(* Record number k of the history, as a reader should see it               *)
IsRecord(r, k) ==
    /\ r.id = k
    /\ \/ k < Len(log) /\ r.call = log[k + 1]
       \/ \E w \in Writers : Inside(w) /\ k = Len(log) /\ r.call = call[w]

(* read_shm_records: an accepted snapshot is a run of consecutive whole    *)
(* records.                                                                *)
AcceptedIsWindow(from) ==
    rpc = "accepted" =>
        \E first \in {eventBefore - rnum, eventBefore - rnum + 1} :
            \A i \in from .. rnum : IsRecord(recs[i], first + i - 1)

(* What the retry loop of read_shm_records really gives, where no local    *)
(* controller clears the ring: an accepted snapshot is a run of            *)
(* consecutive whole records from its second element on, and from its      *)
(* first element on if the ring was not full.                              *)
SnapshotSoundButOldest ==
    AcceptedIsWindow(IF rnum = MaxRecords THEN 2 ELSE 1)

(* The comment in read_shm_records: "Retry if it changes while copying so  *)
(* a live snapshot cannot mix two ring states".  On a full ring the writer *)
(* copies record e over the oldest one before it increments addr[6], so    *)
(* the snapshot can.                                                       *)
SnapshotNeverMixed == AcceptedIsWindow(1)

(* The RuntimeError of read_shm_records is raised only if the ring really  *)
(* changed in every attempt: that many records were finished meanwhile.    *)
FailsOnlyIfBusy ==
    rpc = "failed" => eventID - startEvent >= MaxAttempts

(* A call of read_shm_records always returns or raises: a writer cannot    *)
(* keep it in its retry loop.                                              *)
ReadTerminates == rpc = "before" ~> rpc \in {"accepted", "failed"}
=============================================================================
