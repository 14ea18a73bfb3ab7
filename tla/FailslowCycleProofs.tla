------------------------- MODULE FailslowCycleProofs -------------------------
(***************************************************************************)
(* Proofs about FailslowCycle, for every finite set of nodes and every     *)
(* number of reports.                                                      *)
(***************************************************************************)
EXTENDS FailslowCycle, FiniteSetTheorems, TLAPS

Active == spc \in {"poll", "delete", "pause", "validate"}
Reporting == {n \in Nodes : lpc[n] = "report"}

(* Every episode uses up a report: those of the episodes that are over,    *)
(* the listed ones and the ones about to be pushed are all different.      *)
Spent == IF Active THEN episode - 1 ELSE episode
ReportsCount == Spent + failslow + Cardinality(Reporting) <= reports

(* Before the first episode nothing has left STATE_MONITOR.                *)
ModesNeedEpisode ==
    Active \/ control # STATE_MONITOR \/ mode # STATE_MONITOR => episode > 0

(* A profile about to be sent has timings.                                 *)
SendsTimed == \A n \in Nodes : lpc[n] = "send" => ring[n] > Untimed

CInv == /\ TypeOK /\ ReportsCount /\ ModesNeedEpisode /\ SendsTimed
        /\ ReportsStandUntilValidated

-----------------------------------------------------------------------------
Places == {"detect", "report", "state", "measure", "send", "awaitTrim",
           "awaitMonitor", "clear"}

(* Counting the nodes that are about to push a report.                     *)
LEMMA ReportingFinite ==
    TypeOK => IsFiniteSet(Reporting) /\ Cardinality(Reporting) \in Nat
<1>1. Reporting \subseteq Nodes
    BY DEF Reporting
<1> QED BY <1>1, CycleAssumption, FS_Subset, FS_CardinalityType

(* A step outside the report leaves the set of reporting nodes alone.      *)
LEMMA ReportingSame ==
    ASSUME TypeOK, NEW n \in Nodes, NEW l, LocalGoto(n, l),
           lpc[n] # "report", l # "report"
    PROVE  Reporting' = Reporting
BY DEF TypeOK, LocalGoto, Reporting

(* A node that begins its report is one more reporting.                    *)
LEMMA ReportingMore ==
    ASSUME TypeOK, NEW n \in Nodes, LocalGoto(n, "report"), lpc[n] # "report"
    PROVE  Cardinality(Reporting') = Cardinality(Reporting) + 1
<1>1. Reporting' = Reporting \cup {n} /\ n \notin Reporting
    BY DEF TypeOK, LocalGoto, Reporting
<1> QED BY <1>1, ReportingFinite, FS_AddElement

(* A node that ends its report is one less reporting.                      *)
LEMMA ReportingLess ==
    ASSUME TypeOK, NEW n \in Nodes, NEW l, LocalGoto(n, l),
           lpc[n] = "report", l # "report"
    PROVE  Cardinality(Reporting') = Cardinality(Reporting) - 1
<1>1. Reporting' = Reporting \ {n} /\ n \in Reporting
    BY DEF TypeOK, LocalGoto, Reporting
<1> QED BY <1>1, ReportingFinite, FS_RemoveElement

-----------------------------------------------------------------------------
(* The invariant holds at the start.                                       *)
LEMMA CInitInv == Init => CInv
<1> SUFFICES ASSUME Init PROVE CInv
    OBVIOUS
<1>1. Reporting = {}
    BY DEF Init, Reporting
<1>2. Cardinality(Reporting) = 0
    BY <1>1, FS_EmptySet
<1>3. Cardinality(Nodes) \in Nat
    BY CycleAssumption, FS_CardinalityType
<1>4. TypeOK
  <2>1. /\ failslow \in 0 .. MaxReports /\ reports \in 0 .. MaxReports
        /\ episode \in 0 .. MaxReports /\ oldNum \in 0 .. Cardinality(Nodes)
      BY <1>3, CycleAssumption DEF Init
  <2>2. /\ perf \in [Nodes -> {None} \cup 1 .. MaxReports]
        /\ seen \in [Nodes -> {None} \cup 1 .. MaxReports]
        /\ ring \in [Nodes -> {None, Untimed} \cup 1 .. MaxReports]
      BY DEF Init
  <2>3. /\ slow \in [Nodes -> BOOLEAN] /\ reported \in [Nodes -> BOOLEAN]
        /\ paused \in BOOLEAN
      BY DEF Init
  <2> QED BY <2>1, <2>2, <2>3 DEF Init, TypeOK
<1>5. ReportsCount
    BY <1>2 DEF Init, ReportsCount, Spent, Active
<1>6. ModesNeedEpisode /\ SendsTimed /\ ReportsStandUntilValidated
    BY DEF Init, ModesNeedEpisode, SendsTimed, ReportsStandUntilValidated, Active
<1> QED BY <1>4, <1>5, <1>6 DEF CInv

(* The server.                                                             *)
LEMMA ServerInv == CInv /\ Server => CInv'
<1> SUFFICES ASSUME CInv, Server PROVE CInv'
    OBVIOUS
<1>0. /\ TypeOK /\ ReportsCount /\ ModesNeedEpisode /\ SendsTimed
      /\ ReportsStandUntilValidated
    BY DEF CInv
<1>a. Cardinality(Reporting) \in Nat /\ MaxReports \in Nat
    BY <1>0, ReportingFinite, CycleAssumption
<1>b. /\ failslow \in Nat /\ reports \in Nat /\ episode \in Nat
      /\ failslow <= MaxReports /\ reports <= MaxReports /\ episode <= MaxReports
    BY <1>0, <1>a DEF TypeOK
<1>c. Cardinality(Nodes) \in Nat
    BY CycleAssumption, FS_CardinalityType
<1>d. UNCHANGED <<localVars, rankVars>>
    BY DEF Server, SetProfiling, PollPerf, DeletePerf, PauseTraining, ValidateAndTrim,
           SetMonitoring, Mitigated
<1>e. Reporting' = Reporting /\ SendsTimed'
    BY <1>0, <1>d DEF localVars, rankVars, Reporting, SendsTimed
<1>1. CASE SetProfiling
  <2>1. /\ spc = "watch" /\ failslow > 0 /\ spc' = "poll" /\ episode' = episode + 1
        /\ control' = STATE_PROFILE /\ seen' = [n \in Nodes |-> None] /\ oldNum' = 0
        /\ UNCHANGED <<failslow, perf>>
      BY <1>1 DEF SetProfiling
  <2>2. episode + failslow + Cardinality(Reporting) <= reports
      BY <1>0, <2>1 DEF ReportsCount, Spent, Active
  <2>3. episode + 1 \in 0 .. MaxReports /\ episode + 1 > 0
      BY <1>a, <1>b, <2>1, <2>2
  <2>4. TypeOK'
      BY <1>0, <1>c, <1>d, <2>1, <2>3 DEF TypeOK, localVars, rankVars
  <2>5. ReportsCount'
    <3>0. Active'
        BY <2>1 DEF Active
    <3>1. Spent' = episode' - 1
        BY <3>0 DEF Spent
    <3>2. episode' - 1 = episode
        BY <1>b, <2>1
    <3> QED BY <1>d, <1>e, <2>1, <2>2, <3>1, <3>2 DEF ReportsCount, localVars
  <2>6. ModesNeedEpisode' /\ ReportsStandUntilValidated'
      BY <2>1, <2>3 DEF ModesNeedEpisode, ReportsStandUntilValidated
  <2> QED BY <1>e, <2>4, <2>5, <2>6 DEF CInv
<1>2. CASE PollPerf
  <2> DEFINE now == [n \in Nodes |-> IF perf[n] # None THEN perf[n] ELSE seen[n]]
             num == Cardinality({n \in Nodes : now[n] # None})
  <2>1. /\ spc = "poll" /\ seen' = now /\ oldNum' = num /\ spc' \in {"poll", "delete"}
        /\ UNCHANGED <<control, failslow, perf, episode>>
      BY <1>2 DEF PollPerf, redisVars
  <2>2. now \in [Nodes -> {None} \cup 1 .. MaxReports]
      BY <1>0 DEF TypeOK
  <2>3. num \in 0 .. Cardinality(Nodes)
    <3>1. {n \in Nodes : now[n] # None} \subseteq Nodes
        OBVIOUS
    <3>2. num \in Nat /\ num <= Cardinality(Nodes)
        BY <3>1, CycleAssumption, FS_Subset, FS_CardinalityType
    <3> QED BY <1>c, <3>2
  <2> HIDE DEF now, num
  <2>4. TypeOK'
      BY <1>0, <1>d, <2>1, <2>2, <2>3 DEF TypeOK, localVars, rankVars
  <2>5. ReportsCount'
      BY <1>0, <1>d, <1>e, <2>1 DEF ReportsCount, Spent, Active, localVars
  <2>6. ModesNeedEpisode' /\ ReportsStandUntilValidated'
      BY <1>0, <1>d, <2>1 DEF ModesNeedEpisode, ReportsStandUntilValidated, Active, rankVars
  <2> QED BY <1>e, <2>4, <2>5, <2>6 DEF CInv
<1>3. CASE DeletePerf \/ PauseTraining
  <2>1. /\ spc \in {"delete", "pause"} /\ spc' \in {"pause", "validate"}
        /\ UNCHANGED <<failslow, episode, seen, oldNum>>
        /\ perf' \in {perf, [n \in Nodes |-> None]} /\ control' \in {control, STATE_VALIDATE}
      BY <1>3 DEF DeletePerf, PauseTraining
  <2>2. TypeOK'
      BY <1>0, <1>d, <2>1 DEF TypeOK, localVars, rankVars
  <2>3. ReportsCount'
      BY <1>0, <1>d, <1>e, <2>1 DEF ReportsCount, Spent, Active, localVars
  <2>4. ModesNeedEpisode' /\ ReportsStandUntilValidated'
      BY <1>0, <1>d, <2>1 DEF ModesNeedEpisode, ReportsStandUntilValidated, Active, rankVars
  <2> QED BY <1>e, <2>2, <2>3, <2>4 DEF CInv
<1>4. CASE ValidateAndTrim
  <2>1. /\ spc = "validate" /\ spc' = "resume" /\ failslow' = 0
        /\ UNCHANGED <<control, perf, episode, seen, oldNum>>
      BY <1>4 DEF ValidateAndTrim
  <2>2. TypeOK'
      BY <1>0, <1>a, <1>d, <2>1 DEF TypeOK, localVars, rankVars
  <2>3. ReportsCount'
    <3>1. failslow > 0 /\ episode - 1 + failslow + Cardinality(Reporting) <= reports
        BY <1>0, <2>1 DEF ReportsStandUntilValidated, ReportsCount, Spent, Active
    <3>2. episode + 0 + Cardinality(Reporting) <= reports
        BY <1>a, <1>b, <3>1
    <3> QED BY <1>d, <1>e, <2>1, <3>2 DEF ReportsCount, Spent, Active, localVars
  <2>4. ModesNeedEpisode' /\ ReportsStandUntilValidated'
      BY <1>0, <1>d, <2>1 DEF ModesNeedEpisode, ReportsStandUntilValidated, Active, rankVars
  <2> QED BY <1>e, <2>2, <2>3, <2>4 DEF CInv
<1>5. CASE SetMonitoring \/ Mitigated
  <2>1. /\ spc \in {"resume", "mitigate"} /\ spc' \in {"mitigate", "watch"}
        /\ UNCHANGED <<failslow, perf, episode, seen, oldNum>>
        /\ control' \in {control, STATE_MONITOR}
      BY <1>5 DEF SetMonitoring, Mitigated, redisVars
  <2>2. TypeOK'
      BY <1>0, <1>d, <2>1 DEF TypeOK, localVars, rankVars
  <2>3. ReportsCount'
      BY <1>0, <1>d, <1>e, <2>1 DEF ReportsCount, Spent, Active, localVars
  <2>4. ModesNeedEpisode' /\ ReportsStandUntilValidated'
      BY <1>0, <1>d, <2>1 DEF ModesNeedEpisode, ReportsStandUntilValidated, Active, rankVars
  <2> QED BY <1>e, <2>2, <2>3, <2>4 DEF CInv
<1> QED BY <1>1, <1>2, <1>3, <1>4, <1>5 DEF Server

(* A local controller goes on, and nothing else happens.                   *)
LEMMA GoesOn ==
    ASSUME CInv, NEW n \in Nodes, NEW l \in Places, LocalGoto(n, l),
           lpc[n] # "report", l # "report", l = "send" => ring[n] > Untimed,
           UNCHANGED <<redisVars, serverVars, slow, reported, reports, rankVars>>
    PROVE  CInv'
<1>1. Reporting' = Reporting
    BY ReportingSame DEF CInv
<1>2. TypeOK'
    BY DEF CInv, TypeOK, LocalGoto, Places, redisVars, serverVars, rankVars
<1>3. ReportsCount' /\ ModesNeedEpisode' /\ ReportsStandUntilValidated'
    BY <1>1 DEF CInv, ReportsCount, Spent, Active, ModesNeedEpisode,
                ReportsStandUntilValidated, redisVars, serverVars, rankVars
<1>4. SendsTimed'
    BY DEF CInv, SendsTimed, TypeOK, LocalGoto, rankVars
<1> QED BY <1>2, <1>3, <1>4 DEF CInv

(* A step of a local controller keeps the invariant.                       *)
LEMMA LocalInv == ASSUME CInv, NEW n \in Nodes, Local(n) PROVE CInv'
<1>0. /\ TypeOK /\ ReportsCount /\ ModesNeedEpisode /\ SendsTimed
      /\ ReportsStandUntilValidated
    BY DEF CInv
<1>a. Cardinality(Reporting) \in Nat /\ MaxReports \in Nat
    BY <1>0, ReportingFinite, CycleAssumption
<1>b. /\ failslow \in Nat /\ reports \in Nat /\ episode \in Nat
      /\ failslow <= MaxReports /\ reports <= MaxReports /\ episode <= MaxReports
    BY <1>0, <1>a DEF TypeOK
<1>c. Spent \in Int /\ (episode > 0 \/ ~Active => Spent >= 0) /\ (Active => episode > 0)
    BY <1>0, <1>b DEF Spent, ModesNeedEpisode
<1>1. ASSUME NEW s \in BOOLEAN, Detect(n, s) PROVE CInv'
  <2>1. CASE s /\ ~reported[n]
    <3>1. /\ lpc[n] = "detect" /\ reports < MaxReports /\ LocalGoto(n, "report")
          /\ reports' = reports + 1 /\ slow' = [slow EXCEPT ![n] = s]
          /\ UNCHANGED <<redisVars, serverVars, reported, rankVars>>
        BY <1>1, <2>1 DEF Detect
    <3>2. Cardinality(Reporting') = Cardinality(Reporting) + 1
        BY <1>0, <3>1, ReportingMore
    <3>3. TypeOK'
        BY <1>0, <1>a, <1>b, <3>1 DEF TypeOK, LocalGoto, redisVars, serverVars, rankVars
    <3>4. Spent' = Spent /\ failslow' = failslow
        BY <3>1 DEF Spent, Active, serverVars, redisVars
    <3>5. ReportsCount'
        BY <1>0, <1>a, <1>b, <1>c, <3>1, <3>2, <3>4 DEF ReportsCount
    <3>6. ModesNeedEpisode' /\ ReportsStandUntilValidated'
        BY <1>0, <3>1 DEF ModesNeedEpisode, ReportsStandUntilValidated, Active,
                          redisVars, serverVars, rankVars
    <3>7. SendsTimed'
        BY <1>0, <3>1 DEF SendsTimed, TypeOK, LocalGoto, rankVars
    <3> QED BY <3>3, <3>5, <3>6, <3>7 DEF CInv
  <2>2. CASE ~(s /\ ~reported[n])
    <3>1. /\ lpc[n] = "detect" /\ LocalGoto(n, "state")
          /\ reports' = reports /\ slow' = [slow EXCEPT ![n] = s]
          /\ UNCHANGED <<redisVars, serverVars, reported, rankVars>>
        BY <1>1, <2>2 DEF Detect
    <3>2. Reporting' = Reporting
        BY <1>0, <3>1, ReportingSame
    <3>3. TypeOK'
        BY <1>0, <3>1 DEF TypeOK, LocalGoto, redisVars, serverVars, rankVars
    <3>4. ReportsCount' /\ ModesNeedEpisode' /\ ReportsStandUntilValidated'
        BY <1>0, <3>1, <3>2 DEF ReportsCount, Spent, ModesNeedEpisode,
               ReportsStandUntilValidated, Active, redisVars, serverVars, rankVars
    <3>5. SendsTimed'
        BY <1>0, <3>1 DEF SendsTimed, TypeOK, LocalGoto, rankVars
    <3> QED BY <3>3, <3>4, <3>5 DEF CInv
  <2> QED BY <2>1, <2>2
<1>2. CASE ReportFailslow(n)
  <2>1. /\ lpc[n] = "report" /\ failslow' = failslow + 1 /\ LocalGoto(n, "state")
        /\ reported' = [reported EXCEPT ![n] = TRUE]
        /\ UNCHANGED <<control, perf, serverVars, slow, reports, rankVars>>
      BY <1>2 DEF ReportFailslow
  <2>2. /\ Cardinality(Reporting') = Cardinality(Reporting) - 1
        /\ Cardinality(Reporting) > 0
    <3>1. Cardinality(Reporting') = Cardinality(Reporting) - 1
        BY <1>0, <2>1, ReportingLess
    <3>2. n \in Reporting
        BY <2>1 DEF Reporting
    <3>3. Cardinality(Reporting) # 0
        BY <1>0, <3>2, ReportingFinite, FS_EmptySet
    <3> QED BY <1>a, <3>1, <3>3
  <2>3. Spent' = Spent
      BY <2>1 DEF Spent, Active, serverVars
  <2>4. ReportsCount'
      BY <1>0, <1>a, <1>b, <1>c, <2>1, <2>2, <2>3 DEF ReportsCount
  <2>5. failslow + 1 \in 0 .. MaxReports
    <3>1. Spent >= 0
        BY <1>b, <1>c
    <3> QED BY <1>0, <1>a, <1>b, <1>c, <2>2, <3>1 DEF ReportsCount
  <2>6. TypeOK'
      BY <1>0, <2>1, <2>5 DEF TypeOK, LocalGoto, serverVars, rankVars
  <2>7. ModesNeedEpisode' /\ SendsTimed'
      BY <1>0, <2>1 DEF ModesNeedEpisode, Active, SendsTimed, TypeOK, LocalGoto,
                        serverVars, rankVars
  <2>8. ReportsStandUntilValidated'
      BY <1>b, <2>1 DEF ReportsStandUntilValidated
  <2> QED BY <2>4, <2>6, <2>7, <2>8 DEF CInv
<1>3. CASE ReadState(n)
  <2> DEFINE l == CASE slow[n] \/ control = STATE_PROFILE -> "measure"
                    [] ~slow[n] /\ control = STATE_VALIDATE -> "awaitMonitor"
                    [] OTHER -> "detect"
  <2>1. l \in {"measure", "awaitMonitor", "detect"}
    <3>1. CASE slow[n] \/ control = STATE_PROFILE
        BY <3>1 DEF STATE_PROFILE, STATE_VALIDATE
    <3>2. CASE ~(slow[n] \/ control = STATE_PROFILE)
        BY <3>2
    <3> QED BY <3>1, <3>2
  <2>2. LocalGoto(n, l)
      BY <1>3 DEF ReadState
  <2> HIDE DEF l
  <2> QED BY <1>3, <2>1, <2>2, GoesOn DEF ReadState, Places
<1>4. CASE Measure(n)
    BY <1>4, GoesOn DEF Measure, Places
<1>5. CASE MeasureNothing(n)
    BY <1>5, GoesOn DEF MeasureNothing, Places
<1>6. CASE MeasureRaises(n)
    BY <1>6, GoesOn DEF MeasureRaises, Places
<1>7. CASE SendPerf(n)
  <2>1. /\ lpc[n] = "send" /\ LocalGoto(n, "awaitTrim") /\ perf' = [perf EXCEPT ![n] = ring[n]]
        /\ UNCHANGED <<control, failslow, serverVars, slow, reported, reports, rankVars>>
      BY <1>7 DEF SendPerf
  <2>2. Reporting' = Reporting
      BY <1>0, <2>1, ReportingSame
  <2>3. ring[n] \in 1 .. MaxReports
      BY <1>0, <2>1 DEF TypeOK, SendsTimed, None, Untimed
  <2>4. TypeOK'
      BY <1>0, <2>1, <2>3 DEF TypeOK, LocalGoto, serverVars, rankVars
  <2>5. ReportsCount' /\ ModesNeedEpisode' /\ ReportsStandUntilValidated'
      BY <1>0, <2>1, <2>2 DEF ReportsCount, Spent, ModesNeedEpisode,
             ReportsStandUntilValidated, Active, serverVars, rankVars
  <2>6. SendsTimed'
      BY <1>0, <2>1 DEF SendsTimed, TypeOK, LocalGoto, rankVars
  <2> QED BY <2>4, <2>5, <2>6 DEF CInv
<1>8. CASE AwaitTrim(n)
    BY <1>8, GoesOn DEF AwaitTrim, Places
<1>9. CASE AwaitMonitor(n)
    BY <1>9, GoesOn DEF AwaitMonitor, Places
<1>10. CASE ClearRing(n)
  <2>1. /\ lpc[n] = "clear" /\ LocalGoto(n, "detect") /\ ring' = [ring EXCEPT ![n] = None]
        /\ reported' = [reported EXCEPT ![n] = FALSE]
        /\ UNCHANGED <<redisVars, serverVars, slow, reports, mode, paused>>
      BY <1>10 DEF ClearRing
  <2>2. Reporting' = Reporting
      BY <1>0, <2>1, ReportingSame
  <2>3. TypeOK'
      BY <1>0, <2>1 DEF TypeOK, LocalGoto, redisVars, serverVars
  <2>4. ReportsCount' /\ ModesNeedEpisode' /\ ReportsStandUntilValidated'
      BY <1>0, <2>1, <2>2 DEF ReportsCount, Spent, ModesNeedEpisode,
             ReportsStandUntilValidated, Active, redisVars, serverVars
  <2>5. SendsTimed'
      BY <1>0, <2>1 DEF SendsTimed, TypeOK, LocalGoto
  <2> QED BY <2>3, <2>4, <2>5 DEF CInv
<1> QED BY <1>1, <1>2, <1>3, <1>4, <1>5, <1>6, <1>7, <1>8, <1>9, <1>10 DEF Local

(* The ranks.                                                              *)
LEMMA RanksInv ==
    CInv /\ (SyncMode \/ Resume \/ \E n \in Nodes : Train(n)) => CInv'
<1> SUFFICES ASSUME CInv, SyncMode \/ Resume \/ \E n \in Nodes : Train(n) PROVE CInv'
    OBVIOUS
<1>0. /\ TypeOK /\ ReportsCount /\ ModesNeedEpisode /\ SendsTimed
      /\ ReportsStandUntilValidated
    BY DEF CInv
<1>1. UNCHANGED <<redisVars, serverVars, localVars>>
    BY DEF SyncMode, Resume, Train
<1>2. ReportsCount' /\ ReportsStandUntilValidated'
    BY <1>0, <1>1 DEF ReportsCount, Spent, Active, Reporting, ReportsStandUntilValidated,
                      redisVars, serverVars, localVars
<1>3. CASE SyncMode \/ Resume
  <2>1. /\ ring' = ring /\ paused' \in BOOLEAN
        /\ mode' = mode \/ (mode' = Broadcast /\ Broadcast # mode)
      BY <1>0, <1>3 DEF SyncMode, Resume, TypeOK
  <2>2. Broadcast \in {control, STATE_MONITOR, mode}
      BY DEF Broadcast
  <2>3. TypeOK'
      BY <1>0, <1>1, <2>1, <2>2 DEF TypeOK, redisVars, serverVars, localVars
  <2>4. ModesNeedEpisode' /\ SendsTimed'
      BY <1>0, <1>1, <2>1, <2>2 DEF ModesNeedEpisode, Active, SendsTimed,
                                    redisVars, serverVars, localVars
  <2> QED BY <1>2, <2>3, <2>4 DEF CInv
<1>4. ASSUME NEW n \in Nodes, Train(n) PROVE CInv'
  <2> DEFINE new == IF mode # STATE_MONITOR THEN episode
                    ELSE IF ring[n] = None THEN Untimed ELSE ring[n]
  <2>1. new # ring[n] /\ ring' = [ring EXCEPT ![n] = new] /\ UNCHANGED <<mode, paused>>
      BY <1>4 DEF Train
  <2>2. new \in {Untimed} \cup 1 .. MaxReports /\ (ring[n] > Untimed => new > Untimed)
      BY <1>0, <2>1 DEF TypeOK, ModesNeedEpisode, None, Untimed
  <2> HIDE DEF new
  <2>3. TypeOK'
      BY <1>0, <1>1, <2>1, <2>2 DEF TypeOK, redisVars, serverVars, localVars
  <2>4. ModesNeedEpisode' /\ SendsTimed'
      BY <1>0, <1>1, <2>1, <2>2 DEF ModesNeedEpisode, Active, SendsTimed, TypeOK,
                                    redisVars, serverVars, localVars
  <2> QED BY <1>2, <2>3, <2>4 DEF CInv
<1> QED BY <1>3, <1>4

(* The cycle uses up a report in every episode, and none of its parts ever *)
(* leaves its range.                                                       *)
THEOREM CInvInductive == Spec => []CInv
<1>1. CInv /\ [Next]_vars => CInv'
  <2> SUFFICES ASSUME CInv, [Next]_vars PROVE CInv'
      OBVIOUS
  <2>1. CASE UNCHANGED vars
      BY <2>1 DEF CInv, TypeOK, ReportsCount, Spent, Active, Reporting, ModesNeedEpisode,
                  SendsTimed, ReportsStandUntilValidated, vars, redisVars, serverVars,
                  localVars, rankVars
  <2> QED BY <2>1, ServerInv, LocalInv, RanksInv DEF Next
<1> QED BY <1>1, CInitInv, PTL DEF Spec

(* handle_failslow() keeps the reports listed until its validation is      *)
(* over.                                                                   *)
THEOREM ReportsStand == Spec => []ReportsStandUntilValidated
<1>1. CInv => ReportsStandUntilValidated
    BY DEF CInv
<1> QED BY <1>1, CInvInductive, PTL

(* run() never handles more fail-slow events than were reported: whatever  *)
(* the interleaving of reports and episodes, an episode that is over took  *)
(* a report of its own off the list.                                       *)
NoEpisodeWithoutReport ==
    Cardinality(Reporting) + failslow + episode <= reports + (IF Active THEN 1 ELSE 0)

(* Of the reports of all nodes, none pays for two episodes of the global   *)
(* controller: the reports under way, those listed and the episodes over   *)
(* are no more than were made.                                             *)
THEOREM EpisodesAreReported == Spec => []NoEpisodeWithoutReport
<1>1. CInv => NoEpisodeWithoutReport
  <2> SUFFICES ASSUME CInv PROVE NoEpisodeWithoutReport
      OBVIOUS
  <2>1. /\ Cardinality(Reporting) \in Nat /\ MaxReports \in Nat
        /\ failslow \in Int /\ episode \in Int /\ reports \in Int
      BY ReportingFinite, CycleAssumption DEF CInv, TypeOK
  <2> QED BY <2>1 DEF CInv, ReportsCount, Spent, NoEpisodeWithoutReport
<1> QED BY <1>1, CInvInductive, PTL
=============================================================================
