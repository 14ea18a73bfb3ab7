------------------------------ MODULE NcclProbe ------------------------------
(***************************************************************************)
(* The interposed collective calls of one rank (detector/ncclprobe.cpp     *)
(* over detector/global_status.cpp): how a call becomes a record of the    *)
(* ring, through the compression of AllGather and ReduceScatter, the       *)
(* buffer of a group, the timing events of profile mode and the early      *)
(* return of GroupEnd.                                                     *)
(*                                                                         *)
(* A call is its number.  A duration is the pair <<first, last>> of calls  *)
(* between the start event and the stop event that measured it, so that it *)
(* can be compared with the call it is written to; <<>> is the duration 0. *)
(* Buffers, datatypes, streams, peers, devices and call times are left     *)
(* out; the ring that receives the records is module RecordRing.           *)
(***************************************************************************)
EXTENDS Naturals, Sequences, FiniteSets

CONSTANTS
    Comms,      \* communicators the application may create
    NoComm,     \* nullptr
    MaxCalls,   \* bound: calls of at least MIN_RECORD_OP_SIZE
    MaxDepth    \* bound: groups the application opens inside each other

ASSUME ProbeAssumption ==
    /\ IsFiniteSet(Comms) /\ NoComm \notin Comms
    /\ MaxCalls \in Nat /\ MaxDepth \in Nat \ {0}

STATE_MONITOR == 0
STATE_PROFILE == 1
Modes == {STATE_MONITOR, STATE_PROFILE}

(* ALL_GATHER and REDUCE_SCATTER, for which can_compress holds, and the    *)
(* calls for which it does not                                             *)
COMPRESSIBLE == "compressible"
PLAIN == "plain"
INVALID == "invalid"
Ops == {COMPRESSIBLE, PLAIN}
can_compress(op) == op = COMPRESSIBLE

VARIABLES
    mode,        \* g_status.state
    inGroup,     \* in_group
    hasEvents,   \* has_events_in_group
    eventOp,     \* event_op
    timer,       \* the call group_op_start was recorded for, 0 if none
    lastCall,    \* last_call_id
    lastComm,    \* last_comm
    acc,         \* the calls accumulated_count stands for
    accDur,      \* the intervals accumulated_duration sums
    buffer,      \* tmp_record_buffer
    logged,      \* records written to storage_buffer
    shouldCheck, \* should_check
    commInGroup, \* comm_in_group
    known,       \* local_comms
    depth,       \* the application: open groups
    issued,      \* the application: recorded calls so far
    created,     \* the application: communicators
    ready,       \* the application: communicators whose group has ended
    opening,     \* the application: calls issued before its outermost group
    stranded,    \* history: calls whose group was left open or reopened
    skipped      \* history: communicators their group's end did not log

timingVars == <<hasEvents, eventOp, timer>>
accVars == <<lastCall, lastComm, acc, accDur>>
recordVars == <<buffer, logged>>
commVars == <<commInGroup, known, created, ready, skipped>>
vars == <<mode, inGroup, timingVars, accVars, recordVars, shouldCheck,
          commVars, depth, opening, issued, stranded>>

Durations == {<<>>} \cup ((1..MaxCalls) \X (1..MaxCalls))

TypeOK ==
    /\ mode \in Modes /\ inGroup \in BOOLEAN /\ hasEvents \in BOOLEAN
    /\ eventOp \in Ops \cup {INVALID} /\ lastCall \in Ops \cup {INVALID}
    /\ timer \in 0..MaxCalls /\ issued \in 0..MaxCalls
    /\ {lastComm, commInGroup} \subseteq Comms \cup {NoComm}
    /\ acc \in Seq(1..MaxCalls) /\ accDur \subseteq Durations
    /\ \A r \in {buffer[i] : i \in DOMAIN buffer}
             \cup {logged[i] : i \in DOMAIN logged} :
          /\ r.calls \in Seq(1..MaxCalls) /\ r.dur \subseteq Durations
          /\ {r.comm, r.sizeOf} \subseteq Comms \cup {NoComm}
    /\ shouldCheck \in BOOLEAN
    /\ depth \in 0..MaxDepth /\ opening \in 0..issued
    /\ known \subseteq created /\ ready \subseteq created
    /\ created \subseteq Comms /\ skipped \subseteq created
    /\ stranded \subseteq 1..issued

Init ==
    /\ mode = STATE_MONITOR /\ inGroup = FALSE /\ hasEvents = FALSE
    /\ eventOp = INVALID /\ timer = 0
    /\ lastCall = INVALID /\ lastComm = NoComm /\ acc = <<>> /\ accDur = {}
    /\ buffer = <<>> /\ logged = <<>> /\ shouldCheck = FALSE
    /\ commInGroup = NoComm /\ known = {}
    /\ created = {} /\ ready = {} /\ skipped = {}
    /\ depth = 0 /\ opening = 0 /\ issued = 0 /\ stranded = {}

-----------------------------------------------------------------------------
(* get_communication_time(), once the events stand as given                *)
Measured(inG, has, start) ==
    IF mode = STATE_MONITOR \/ (inG /\ ~has) \/ start = 0
    THEN <<>>
    ELSE <<start, issued'>>

(* add_timing_event() of call issued' (no call of the application, no      *)
(* event: the calls below MIN_RECORD_OP_SIZE)                              *)
add_timing_event(op) ==
    IF mode = STATE_MONITOR THEN UNCHANGED timingVars
    ELSE /\ eventOp' = op
         /\ hasEvents' = (hasEvents \/ inGroup)
         /\ timer' = IF hasEvents /\ inGroup THEN timer ELSE issued'

(* Records to the group's buffer, or at once to the ring                   *)
Emit(recs) ==
    IF inGroup THEN buffer' = buffer \o recs /\ UNCHANGED logged
               ELSE logged' = logged \o recs /\ UNCHANGED buffer

(* The calls whose records wait for the end of a group                    *)
BufferedCalls == UNION {{buffer[i].calls[j] : j \in DOMAIN buffer[i].calls} :
                        i \in DOMAIN buffer}

(* num_devices of the first local_comms entry for comm; 0 without one.     *)
(* The compressed record is built in the call that ends it, and carries    *)
(* that call's communicator size with its own communicator.                *)
SizeOf(comm) == IF comm \in known THEN comm ELSE NoComm

(* log_event() for a call that is not too small, after the real call       *)
log_event(op, comm) ==
    IF can_compress(op)
    THEN /\ lastCall' = op /\ lastComm' = comm
         /\ acc' = Append(acc, issued')
         /\ UNCHANGED <<accDur, recordVars>>
    ELSE LET dur == IF inGroup THEN <<>>
                    ELSE Measured(FALSE, hasEvents', timer')
             own == [op |-> op, calls |-> <<issued'>>, comm |-> comm,
                     sizeOf |-> SizeOf(comm), dur |-> {dur} \ {<<>>},
                     from |-> IF depth = 0 THEN issued' ELSE opening + 1]
             compressed == [op |-> lastCall, calls |-> acc, comm |-> lastComm,
                            sizeOf |-> SizeOf(comm), dur |-> accDur,
                            from |-> 0]
         IN  IF can_compress(lastCall)
             THEN /\ Emit(<<compressed, own>>)
                  /\ acc' = <<>> /\ accDur' = {}
                  /\ lastComm' = NoComm /\ lastCall' = op
             ELSE /\ Emit(<<own>>)
                  /\ UNCHANGED accVars

(* The interposed Send, Recv, Bcast, Broadcast, AllReduce, AllGather and   *)
(* ReduceScatter                                                           *)
Call(op, comm) ==
    /\ issued < MaxCalls
    /\ comm \in ready
    /\ issued' = issued + 1
    /\ add_timing_event(op)
    /\ log_event(op, comm)
    /\ stranded' = IF inGroup /\ depth = 0 THEN stranded \cup BufferedCalls'
                                           ELSE stranded
    /\ UNCHANGED <<mode, inGroup, shouldCheck, commVars, depth, opening>>

(* The call of CHECK_PAUSE_MAGIC int8 elements by which the application    *)
(* asks for a look at control_state; too small to be recorded              *)
CheckRequest ==
    /\ ~shouldCheck
    /\ shouldCheck' = TRUE
    /\ UNCHANGED <<mode, inGroup, timingVars, accVars, recordVars, commVars,
                   depth, opening, issued, stranded>>

CommInitRank(comm) ==
    /\ comm \notin created
    /\ created' = created \cup {comm}
    /\ ready' = IF depth = 0 THEN ready \cup {comm} ELSE ready
    /\ IF inGroup
       THEN /\ commInGroup' = comm
            /\ UNCHANGED known
            /\ skipped' = skipped \cup ({commInGroup} \ {NoComm})
                                  \cup {c \in {comm} : depth = 0}
       ELSE /\ known' = known \cup {comm}
            /\ UNCHANGED <<commInGroup, skipped>>
    /\ UNCHANGED <<mode, inGroup, timingVars, accVars, recordVars,
                   shouldCheck, depth, opening, issued, stranded>>

-----------------------------------------------------------------------------
(* Variant: a group inherits the events before it.                        *)
group_start_keeping_events == inGroup' = TRUE /\ UNCHANGED hasEvents

(* A group inside a group forgets that its calls had events                *)
group_start == inGroup' = TRUE /\ hasEvents' = FALSE

(* The interposed GroupStart; it does not empty the buffer                 *)
GroupStart ==
    /\ depth < MaxDepth
    /\ depth' = depth + 1
    /\ opening' = IF depth = 0 THEN issued ELSE opening
    /\ group_start
    /\ stranded' = stranded \cup BufferedCalls
    /\ UNCHANGED <<mode, eventOp, timer, accVars, recordVars, shouldCheck,
                   commVars, issued>>

(* Variant: the early return leaves the group.                            *)
LeaveGroup == inGroup' = FALSE

(* The early return below leaves in_group as it is                         *)
StayInGroup == UNCHANGED inGroup

(* In profile mode a group that ends with a compressible call adds its     *)
(* time to the accumulation and returns: nothing else happens, and         *)
(* in_group, the buffer, should_check and comm_in_group stay as they are.  *)
GroupEndCompressed(t) ==
    /\ accDur' = accDur \cup {t}
    /\ stranded' = stranded \cup BufferedCalls
    /\ skipped' = skipped \cup ({commInGroup} \ {NoComm})
    /\ StayInGroup
    /\ UNCHANGED <<mode, timingVars, lastCall, lastComm, acc,
                   recordVars, shouldCheck, commInGroup, known>>

(* What a group's end writes: everything in monitor mode, in profile mode  *)
(* only with a time, which every record without one gets                   *)
Flushed(t) ==
    IF mode = STATE_MONITOR THEN buffer
    ELSE IF t = <<>> THEN <<>>
    ELSE [i \in DOMAIN buffer |->
             [buffer[i] EXCEPT !.dur = IF @ = {} THEN {t} ELSE @]]

(* Variant: the communicator made in the group is not logged.             *)
LogNothing == UNCHANGED known /\ commInGroup' = NoComm

(* log_communicator() for the one communicator comm_in_group can hold      *)
LogCommInGroup ==
    /\ known' = known \cup ({commInGroup} \ {NoComm})
    /\ commInGroup' = NoComm

(* handle_control_signal() may leave the rank in either mode; the pause    *)
(* and the validation are module Validation                                *)
GroupEndFull(t) ==
    /\ logged' = logged \o Flushed(t)
    /\ buffer' = <<>>
    /\ mode' \in IF shouldCheck THEN Modes ELSE {mode}
    /\ shouldCheck' = FALSE
    /\ LogCommInGroup
    /\ inGroup' = FALSE /\ hasEvents' = FALSE
    /\ UNCHANGED <<eventOp, timer, accVars, stranded, skipped>>

GroupEnd ==
    /\ depth > 0
    /\ depth' = depth - 1
    /\ UNCHANGED <<issued, created>>
    /\ ready' = IF depth = 1 THEN created ELSE ready
    /\ opening' = IF depth = 1 THEN 0 ELSE opening
    /\ LET t == Measured(inGroup, hasEvents, timer)
       IN  \/ /\ t # <<>> /\ can_compress(eventOp)
              /\ GroupEndCompressed(t)
           \/ /\ ~(t # <<>> /\ can_compress(eventOp))
              /\ GroupEndFull(t)

Next ==
    \/ \E op \in Ops, comm \in Comms : Call(op, comm)
    \/ CheckRequest
    \/ \E comm \in Comms : CommInitRank(comm)
    \/ GroupStart
    \/ GroupEnd

Spec == Init /\ [][Next]_vars

-----------------------------------------------------------------------------
(* The calls of records, in their order                                    *)
CallsOf(recs) ==
    LET upto[i \in 0..Len(recs)] ==
            IF i = 0 THEN <<>> ELSE upto[i - 1] \o recs[i].calls
    IN  upto[Len(recs)]

Log == INSTANCE CallLog WITH
    pending <- CallsOf(buffer) \o acc, logged <- CallsOf(logged)

(* Through compression, group buffers, mode switches and early returns,    *)
(* the records reach the ring in the order of the calls and at most once,  *)
(* and GroupEnd's tmp_record_buffer.clear() only ever drops calls of a     *)
(* group that an early return left open or a nested GroupStart reopened.   *)
Refines == Log!Spec

(* A duration written to the record of one call was measured from a call   *)
(* of its own group up to its own or a later call: a start event left over *)
(* from an earlier group never times it, unless the call's group was left  *)
(* open or reopened.                                                       *)
OwnDuration ==
    \A i \in DOMAIN logged : LET r == logged[i] IN
        r.op = PLAIN /\ r.calls[1] \notin stranded =>
            \A d \in r.dur :
                r.from <= d[1] /\ d[1] <= r.calls[1] /\ r.calls[1] <= d[2]

(* The record of a single call has the size of its own communicator,       *)
(* although a communicator made in a group is only logged at its end;      *)
(* except for those comm_in_group could not keep until then.  A compressed *)
(* record has the size of another one, that of the call which ended it and *)
(* whose record always follows it in the ring.                             *)
SizeIsKnown ==
    \A i \in DOMAIN logged : LET r == logged[i] IN
        \/ r.op = PLAIN /\ (r.comm \notin skipped => r.sizeOf = r.comm)
        \/ /\ r.op # PLAIN /\ i + 1 \in DOMAIN logged
           /\ logged[i + 1].op = PLAIN /\ r.sizeOf = logged[i + 1].sizeOf
=============================================================================
