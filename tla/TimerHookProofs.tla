--------------------------- MODULE TimerHookProofs ---------------------------
(***************************************************************************)
(* Proofs about TimerHook, for every set of threads and collectives and    *)
(* every number of launches and nested collectives.                        *)
(***************************************************************************)
EXTENDS TimerHook, FiniteSetTheorems, TLAPS

-----------------------------------------------------------------------------
(* Sequences of objects.                                                   *)

In(o, s) == \E i \in DOMAIN s : s[i] = o
Distinct(s) == \A i, j \in DOMAIN s : s[i] = s[j] => i = j

(* What the operations on the sequences do to them.                        *)
LEMMA AppendFacts ==
    ASSUME NEW S, NEW s \in Seq(S), NEW x \in S
    PROVE  /\ Append(s, x) \in Seq(S)
           /\ \A o : In(o, Append(s, x)) <=> In(o, s) \/ o = x
           /\ Distinct(s) /\ ~ In(x, s) => Distinct(Append(s, x))
<1> DEFINE r == Append(s, x)
<1>1. r \in Seq(S) /\ Len(r) = Len(s) + 1 /\ Len(s) \in Nat
      /\ DOMAIN s = 1 .. Len(s) /\ DOMAIN r = 1 .. Len(r)
    OBVIOUS
<1>2. (\A i \in 1 .. Len(s) : r[i] = s[i]) /\ r[Len(s) + 1] = x
    OBVIOUS
<1> HIDE DEF r
<1>3. \A o : In(o, r) <=> In(o, s) \/ o = x
    BY <1>1, <1>2 DEF In
<1>4. Distinct(s) /\ ~ In(x, s) => Distinct(r)
    BY <1>1, <1>2 DEF Distinct, In
<1> QED BY <1>1, <1>3, <1>4 DEF r

(* Without its head.                                                       *)
LEMMA TailFacts ==
    ASSUME NEW S, NEW s \in Seq(S), s # << >>
    PROVE  /\ Tail(s) \in Seq(S) /\ Head(s) \in S /\ In(Head(s), s)
           /\ Distinct(s) =>
                 /\ Distinct(Tail(s))
                 /\ \A o : In(o, Tail(s)) <=> In(o, s) /\ o # Head(s)
<1> DEFINE r == Tail(s)
<1>1. r \in Seq(S) /\ Len(r) = Len(s) - 1 /\ Len(s) \in Nat \ {0}
      /\ DOMAIN s = 1 .. Len(s) /\ DOMAIN r = 1 .. Len(r) /\ Head(s) = s[1]
    OBVIOUS
<1>2. \A i \in 1 .. Len(r) : r[i] = s[i + 1]
    OBVIOUS
<1> HIDE DEF r
<1>3. Head(s) \in S /\ In(Head(s), s)
    BY <1>1 DEF In
<1>4. Distinct(s) => Distinct(r)
    BY <1>1, <1>2 DEF Distinct
<1>5. ASSUME Distinct(s), NEW o
      PROVE  In(o, r) <=> In(o, s) /\ o # Head(s)
  <2>1. ASSUME In(o, r) PROVE In(o, s) /\ o # Head(s)
    <3>1. PICK i \in 1 .. Len(r) : r[i] = o
        BY <1>1, <2>1 DEF In
    <3>2. i + 1 \in 1 .. Len(s) /\ i + 1 # 1 /\ 1 \in 1 .. Len(s)
        BY <1>1
    <3> QED BY <1>1, <1>2, <1>5, <3>1, <3>2 DEF In, Distinct
  <2>2. ASSUME In(o, s), o # Head(s) PROVE In(o, r)
    <3>1. PICK i \in 1 .. Len(s) : s[i] = o
        BY <1>1, <2>2 DEF In
    <3>2. i - 1 \in 1 .. Len(r) /\ (i - 1) + 1 = i
        BY <1>1, <2>2, <3>1
    <3> QED BY <1>1, <1>2, <3>1, <3>2 DEF In
  <2> QED BY <2>1, <2>2
<1> QED BY <1>1, <1>3, <1>4, <1>5 DEF r

(* The indices of a front.                                                 *)
LEMMA FrontRange ==
    ASSUME NEW n \in Nat \ {0}, NEW m, m = n - 1
    PROVE  n \in 1 .. n /\ \A i : i \in 1 .. m <=> i \in 1 .. n /\ i # n
OBVIOUS

(* Without its last element.                                               *)
LEMMA FrontFacts ==
    ASSUME NEW S, NEW s \in Seq(S), s # << >>
    PROVE  /\ SubSeq(s, 1, Len(s) - 1) \in Seq(S)
           /\ s[Len(s)] \in S /\ In(s[Len(s)], s)
           /\ Distinct(s) =>
                 /\ Distinct(SubSeq(s, 1, Len(s) - 1))
                 /\ \A o : In(o, SubSeq(s, 1, Len(s) - 1))
                              <=> In(o, s) /\ o # s[Len(s)]
<1> DEFINE r == SubSeq(s, 1, Len(s) - 1)
<1>1. Len(s) \in Nat \ {0} /\ DOMAIN s = 1 .. Len(s)
    OBVIOUS
<1>2. r \in Seq(S) /\ Len(r) = Len(s) - 1 /\ DOMAIN r = 1 .. Len(r)
    BY <1>1
<1>3. \A i \in 1 .. Len(r) : r[i] = s[i]
    BY <1>1, <1>2
<1> HIDE DEF r
<1>4. /\ Len(s) \in 1 .. Len(s)
      /\ \A i : i \in 1 .. Len(r) <=> i \in 1 .. Len(s) /\ i # Len(s)
    BY <1>1, <1>2, FrontRange
<1>5. s[Len(s)] \in S /\ In(s[Len(s)], s)
    BY <1>1 DEF In
<1>6. Distinct(s) => Distinct(r)
    BY <1>1, <1>2, <1>3 DEF Distinct
<1>7. ASSUME Distinct(s), NEW o
      PROVE  In(o, r) <=> In(o, s) /\ o # s[Len(s)]
  <2>1. ASSUME In(o, r) PROVE In(o, s) /\ o # s[Len(s)]
    <3>1. PICK i \in 1 .. Len(r) : r[i] = o
        BY <1>2, <2>1 DEF In
    <3>2. i \in 1 .. Len(s) /\ i # Len(s) /\ Len(s) \in 1 .. Len(s)
        BY <1>4
    <3> QED BY <1>1, <1>3, <1>7, <3>1, <3>2 DEF In, Distinct
  <2>2. ASSUME In(o, s), o # s[Len(s)] PROVE In(o, r)
    <3>1. PICK i \in 1 .. Len(s) : s[i] = o
        BY <1>1, <2>2 DEF In
    <3>2. i # Len(s)
        BY <2>2, <3>1
    <3>3. i \in 1 .. Len(r)
        BY <1>4, <3>2
    <3> QED BY <1>2, <1>3, <3>1, <3>3 DEF In
  <2> QED BY <2>1, <2>2
<1> QED BY <1>2, <1>5, <1>6, <1>7 DEF r

(* Two sequences in one.                                                   *)
LEMMA ConcatFacts ==
    ASSUME NEW S, NEW s \in Seq(S), NEW r \in Seq(S)
    PROVE  /\ s \o r \in Seq(S)
           /\ \A o : In(o, s \o r) <=> In(o, s) \/ In(o, r)
           /\ Distinct(s) /\ Distinct(r) /\ (\A o \in S : ~ (In(o, s) /\ In(o, r)))
                 => Distinct(s \o r)
<1> DEFINE q == s \o r
<1>1. /\ Len(s) \in Nat /\ Len(r) \in Nat
      /\ DOMAIN s = 1 .. Len(s) /\ DOMAIN r = 1 .. Len(r)
    OBVIOUS
<1>2. q \in Seq(S) /\ Len(q) = Len(s) + Len(r) /\ DOMAIN q = 1 .. Len(q)
    OBVIOUS
<1>3. /\ \A i \in 1 .. Len(s) : q[i] = s[i]
      /\ \A i \in 1 .. Len(q) : i > Len(s) => q[i] = r[i - Len(s)]
    BY <1>1, <1>2
<1> HIDE DEF q
<1>4. \A o : In(o, q) <=> In(o, s) \/ In(o, r)
  <2>1. ASSUME NEW o, In(o, q) PROVE In(o, s) \/ In(o, r)
    <3>1. PICK i \in 1 .. Len(q) : q[i] = o
        BY <1>2, <2>1 DEF In
    <3>2. CASE i <= Len(s)
        BY <1>1, <1>3, <3>1, <3>2 DEF In
    <3>3. CASE i > Len(s)
      <4>1. i - Len(s) \in 1 .. Len(r)
          BY <1>1, <1>2, <3>3
      <4> QED BY <1>1, <1>3, <3>1, <3>3, <4>1 DEF In
    <3> QED BY <1>1, <3>2, <3>3
  <2>2. ASSUME NEW o, In(o, s) PROVE In(o, q)
    <3>1. PICK i \in 1 .. Len(s) : s[i] = o
        BY <1>1, <2>2 DEF In
    <3>2. i \in 1 .. Len(q)
        BY <1>1, <1>2
    <3> QED BY <1>2, <1>3, <3>1, <3>2 DEF In
  <2>3. ASSUME NEW o, In(o, r) PROVE In(o, q)
    <3>1. PICK i \in 1 .. Len(r) : r[i] = o
        BY <1>1, <2>3 DEF In
    <3>2. i + Len(s) \in 1 .. Len(q) /\ i + Len(s) > Len(s)
          /\ (i + Len(s)) - Len(s) = i
        BY <1>1, <1>2
    <3> QED BY <1>2, <1>3, <3>1, <3>2 DEF In
  <2> QED BY <2>1, <2>2, <2>3
<1>5. ASSUME Distinct(s), Distinct(r), \A o \in S : ~ (In(o, s) /\ In(o, r))
      PROVE  Distinct(q)
  <2>1. SUFFICES ASSUME NEW i \in 1 .. Len(q), NEW j \in 1 .. Len(q), q[i] = q[j]
                 PROVE  i = j
      BY <1>2 DEF Distinct
  <2>2. ASSUME NEW x \in 1 .. Len(q), NEW y \in 1 .. Len(q), q[x] = q[y],
               x <= Len(s), y > Len(s)
        PROVE  FALSE
    <3>1. x \in 1 .. Len(s) /\ y - Len(s) \in 1 .. Len(r)
        BY <1>1, <1>2, <2>2
    <3>2. s[x] = r[y - Len(s)] /\ s[x] \in S
        BY <1>3, <2>2, <3>1
    <3>3. In(s[x], s) /\ In(s[x], r)
        BY <1>1, <3>1, <3>2 DEF In
    <3> QED BY <1>5, <3>2, <3>3
  <2>3. CASE i <= Len(s) /\ j <= Len(s)
      BY <1>1, <1>2, <1>3, <1>5, <2>1, <2>3 DEF Distinct
  <2>4. CASE i > Len(s) /\ j > Len(s)
    <3>1. i - Len(s) \in 1 .. Len(r) /\ j - Len(s) \in 1 .. Len(r)
        BY <1>1, <1>2, <2>4
    <3>2. i - Len(s) = j - Len(s)
        BY <1>1, <1>3, <1>5, <2>1, <2>4, <3>1, ZenonT(30) DEF Distinct
    <3> QED BY <1>1, <1>2, <3>2
  <2> QED BY <1>1, <1>2, <2>1, <2>2, <2>3, <2>4
<1> QED BY <1>2, <1>4, <1>5 DEF q

(* The empty sequence.                                                     *)
LEMMA EmptyFacts ==
    /\ \A S : << >> \in Seq(S)
    /\ Distinct(<< >>)
    /\ \A o : ~ In(o, << >>)
BY DEF Distinct, In

(* An element is of the type of the sequence.                              *)
LEMMA InSeq ==
    ASSUME NEW S, NEW s \in Seq(S), NEW o, In(o, s)
    PROVE  o \in S
<1>1. PICK i \in 1 .. Len(s) : s[i] = o
    BY DEF In
<1> QED BY <1>1

(* Emptiness is a length of zero.                                          *)
LEMMA EmptyLen ==
    ASSUME NEW S, NEW s \in Seq(S)
    PROVE  s = << >> <=> Len(s) = 0
OBVIOUS

(* One object more.                                                        *)
LEMMA SeqWiden ==
    ASSUME NEW m \in Nat, NEW s \in Seq(1 .. m)
    PROVE  s \in Seq(1 .. (m + 1))
OBVIOUS

-----------------------------------------------------------------------------
(* The inductive invariant.                                                *)

Names == Colls \cup {NoColl}
Ops == [launch : Nat, name : Names, start : Nat, stop : Nat, reported : BOOLEAN]

TypeInv ==
    /\ mgr \in {"new", "running", "failed", "stopped"}
    /\ ppc \in {"off", "loop", "drain", "final", "finalDrain"}
    /\ made \in Nat /\ launched \in Nat
    /\ op \in [Objects -> Ops]
    /\ trace \in Seq(Ops) /\ hangs \in Seq(Nat)
    /\ tpc \in [Threads -> {"out", "enabled", "launch", "stopped"}]
    /\ held \in [Threads -> Nat]
    /\ active \in [Threads -> Names]
    /\ saved \in [Threads -> Seq(Names)] /\ inside \in [Threads -> Seq(Colls)]
    /\ truth \in [Launches -> Names]
    /\ done \subseteq 1 .. launched /\ overdue \subseteq 1 .. launched

(* A launch that has begun still has a number.                             *)
CountInv ==
    /\ made <= launched
    /\ launched + Cardinality({u \in Threads : tpc[u] = "enabled"}) <= MaxLaunches

(* What COLL_META saved are the collectives further out.                   *)
Innermost(s) == IF s = << >> THEN NoColl ELSE s[1]
CollInv ==
    \A t \in Threads :
        /\ active[t] = Innermost(inside[t])
        /\ Len(saved[t]) = Len(inside[t])
        /\ \A i \in 1 .. Len(saved[t]) :
               saved[t][i] = IF i < Len(inside[t]) THEN inside[t][i + 1] ELSE NoColl

(* The life of manager and poller.                                         *)
PollInv ==
    /\ ppc \notin {"drain", "finalDrain"} => local = << >> /\ still = << >>
    /\ mgr = "running" => ppc \in {"loop", "drain"}
    /\ mgr \in {"new", "failed"} => ppc = "off"
    /\ mgr # "stopped" => flushing = {}

Held(o) == \E t \in Threads : held[t] = o

(* Every object made is in exactly one place.                              *)
PlaceInv ==
    /\ pool \in Seq(1 .. made) /\ work \in Seq(1 .. made)
    /\ local \in Seq(1 .. made) /\ still \in Seq(1 .. made)
    /\ held \in [Threads -> 0 .. made]
    /\ Distinct(pool) /\ Distinct(work) /\ Distinct(local) /\ Distinct(still)
    /\ \A t, u \in Threads : held[t] = held[u] /\ held[t] # 0 => t = u
    /\ \A o \in 1 .. made :
          /\ In(o, pool) \/ In(o, work) \/ In(o, local) \/ In(o, still) \/ Held(o)
          /\ In(o, pool) => ~ (In(o, work) \/ In(o, local) \/ In(o, still) \/ Held(o))
          /\ In(o, work) => ~ (In(o, local) \/ In(o, still) \/ Held(o))
          /\ In(o, local) => ~ (In(o, still) \/ Held(o))
          /\ In(o, still) => ~ Held(o)

Waiting(o) == In(o, work) \/ In(o, local) \/ In(o, still)

(* What an object records is of its last launch, which is its own.         *)
OpInv ==
    /\ \A t \in Threads : (held[t] = 0) <=> tpc[t] \in {"out", "enabled"}
    /\ \A o \in 1 .. made :
          /\ op[o].launch \in 1 .. launched
          /\ op[o].start = op[o].launch
          /\ op[o].name = truth[op[o].launch]
          /\ Waiting(o) => op[o].stop = op[o].launch
    /\ \A o, p \in 1 .. made : op[o].launch = op[p].launch => o = p
    /\ \A t \in Threads :
          tpc[t] = "stopped" => op[held[t]].stop = op[held[t]].launch

Traced(l) == \E i \in DOMAIN trace : trace[i].launch = l

(* A launch is in the trace only when its object is free again.            *)
TraceInv ==
    /\ TraceIsRight
    /\ \A o \in 1 .. made : Traced(op[o].launch) => In(o, pool)

(* An object whose launch was reported knows it.                           *)
HangInv ==
    /\ \A i \in DOMAIN hangs : hangs[i] \in overdue
    /\ Distinct(hangs)
    /\ \A o \in 1 .. made : In(op[o].launch, hangs) => op[o].reported

QueuedIn(l, s) == \E o \in 1 .. made : In(o, s) /\ op[o].launch = l

(* The launches that stop() must flush wait for the final drain.           *)
FlushInv ==
    mgr = "stopped" =>
        \A l \in flushing :
            /\ l \in done
            /\ ppc \in {"loop", "drain", "final"} => QueuedIn(l, work)
            /\ ppc = "finalDrain" => QueuedIn(l, local) \/ Traced(l)
            /\ ppc = "off" => Traced(l)

IInv ==
    /\ TypeInv /\ CountInv /\ CollInv /\ PollInv
    /\ PlaceInv /\ OpInv /\ TraceInv /\ HangInv /\ FlushInv

-----------------------------------------------------------------------------
(* Every step preserves the invariant.                                     *)

(* Launches, objects and the waiting threads are finite.                   *)
LEMMA ConstantFacts ==
    /\ MaxLaunches \in Nat /\ Objects = Launches /\ Launches = 1 .. MaxLaunches
    /\ IsFiniteSet(Threads)
    /\ \A P \in SUBSET Threads : IsFiniteSet(P) /\ Cardinality(P) \in Nat
BY HookAssumption, FS_Subset, FS_CardinalityType DEF Objects, Launches

(* Only the poller and launches know the objects.                          *)
LEMMA PlaceFrame ==
    ASSUME PlaceInv, UNCHANGED << pool, made, work, local, still, held >>
    PROVE  PlaceInv'
BY DEF PlaceInv, Held

(* What the objects record, where neither they nor the queues change.      *)
LEMMA OpFrame ==
    ASSUME OpInv, UNCHANGED << made, work, local, still, op, launched, truth, held >>,
           UNCHANGED tpc
    PROVE  OpInv'
BY DEF OpInv, Waiting

(* The trace, likewise.                                                    *)
LEMMA TraceFrame ==
    ASSUME TraceInv, UNCHANGED << made, pool, op, trace, done, truth >>
    PROVE  TraceInv'
BY DEF TraceInv, TraceIsRight, Traced

(* The reports, likewise.                                                  *)
LEMMA HangFrame ==
    ASSUME HangInv, UNCHANGED << made, op, hangs, overdue >>
    PROVE  HangInv'
BY DEF HangInv

(* The final flush, likewise.                                              *)
LEMMA FlushFrame ==
    ASSUME FlushInv, UNCHANGED << mgr, ppc, made, work, local, op, trace, done >>,
           UNCHANGED flushing
    PROVE  FlushInv'
BY DEF FlushInv, QueuedIn, Traced

(* COLL_META saves the collective it is called in.                         *)
LEMMA CollBeginInv ==
    ASSUME IInv, NEW t \in Threads, NEW c \in Colls, CollBegin(t, c)
    PROVE  IInv'
<1> USE DEF IInv
<1>1. UNCHANGED << queueVars, op, statVars, local, still, tpc, held, gpuVars, flushing >>
    BY DEF CollBegin
<1>2. mgr = "stopped" <=> mgr' = "stopped"
    BY DEF CollBegin, ensure_started, TypeInv
<1>3. mgr = "stopped" => ppc' = ppc
    BY DEF CollBegin, ensure_started
<1>4. /\ inside[t] \in Seq(Colls) /\ saved[t] \in Seq(Names) /\ active[t] \in Names
      /\ c \in Names
    BY DEF TypeInv, Names
<1>5. /\ << c >> \o inside[t] \in Seq(Colls)
      /\ << active[t] >> \o saved[t] \in Seq(Names)
    BY <1>4
<1>6. TypeInv'
    BY <1>1, <1>4, <1>5 DEF CollBegin, ensure_started, TypeInv, queueVars, statVars,
       gpuVars
<1>7. CountInv'
    BY <1>1 DEF CountInv, queueVars, gpuVars
<1>8. CollInv'
  <2>1. ASSUME NEW u \in Threads, u # t
        PROVE  /\ inside'[u] = inside[u] /\ saved'[u] = saved[u]
               /\ active'[u] = active[u]
      BY <2>1 DEF CollBegin, TypeInv
  <2>2. /\ inside'[t] = << c >> \o inside[t] /\ active'[t] = c
        /\ saved'[t] = << active[t] >> \o saved[t]
      BY DEF CollBegin, TypeInv
  <2>3. /\ Len(inside'[t]) = Len(inside[t]) + 1 /\ inside'[t][1] = c
        /\ Len(saved'[t]) = Len(saved[t]) + 1 /\ saved'[t][1] = active[t]
        /\ inside'[t] # << >>
        /\ \A i \in 1 .. Len(inside[t]) : inside'[t][i + 1] = inside[t][i]
        /\ \A i \in 1 .. Len(saved[t]) : saved'[t][i + 1] = saved[t][i]
      BY <1>4, <2>2
  <2>4. Len(inside[t]) \in Nat /\ Len(saved[t]) = Len(inside[t])
        /\ active[t] = Innermost(inside[t])
      BY <1>4 DEF CollInv
  <2>5. ASSUME NEW i \in 1 .. Len(saved'[t])
        PROVE  saved'[t][i] = IF i < Len(inside'[t]) THEN inside'[t][i + 1] ELSE NoColl
    <3>1. CASE i = 1
      <4>1. CASE inside[t] = << >>
          BY <1>4, <2>3, <2>4, <3>1, <4>1 DEF Innermost
      <4>2. CASE inside[t] # << >>
        <5>1. Len(inside[t]) >= 1
            BY <1>4, <4>2
        <5> QED BY <2>3, <2>4, <3>1, <4>2, <5>1 DEF Innermost
      <4> QED BY <4>1, <4>2
    <3>2. CASE i > 1
      <4>1. PICK k \in 1 .. Len(saved[t]) : i = k + 1
        <5>1. i - 1 \in 1 .. Len(saved[t]) /\ i = (i - 1) + 1
            BY <2>3, <2>4, <3>2
        <5> QED BY <5>1
      <4>2. saved'[t][i] = saved[t][k]
          BY <2>3, <4>1
      <4>3. saved[t][k] = IF k < Len(inside[t]) THEN inside[t][k + 1] ELSE NoColl
          BY DEF CollInv
      <4>4. CASE k < Len(inside[t])
        <5>1. k + 1 \in 1 .. Len(inside[t])
            BY <2>4, <4>4
        <5>2. inside'[t][(k + 1) + 1] = inside[t][k + 1]
            BY <2>3, <5>1
        <5>3. i < Len(inside'[t])
            BY <2>3, <2>4, <4>1, <4>4
        <5> QED BY <4>1, <4>2, <4>3, <4>4, <5>2, <5>3
      <4> QED BY <2>3, <2>4, <4>1, <4>2, <4>3, <4>4
    <3> QED BY <2>3, <2>4, <3>1, <3>2
  <2>6. Len(saved'[t]) = Len(inside'[t]) /\ active'[t] = Innermost(inside'[t])
      BY <2>2, <2>3, <2>4 DEF Innermost
  <2> QED BY <2>1, <2>5, <2>6 DEF CollInv
<1>9. PollInv'
    BY <1>1, <1>2 DEF CollBegin, ensure_started, PollInv
<1>10. PlaceInv' /\ OpInv' /\ TraceInv' /\ HangInv'
    BY <1>1, PlaceFrame, OpFrame, TraceFrame, HangFrame DEF queueVars, statVars, gpuVars
<1>11. FlushInv'
    BY <1>1, <1>2, <1>3 DEF FlushInv, QueuedIn, Traced, queueVars, statVars, gpuVars
<1> QED BY <1>6, <1>7, <1>8, <1>9, <1>10, <1>11

(* What COLL_META puts back is the collective it was called in.            *)
LEMMA CollEndInv ==
    ASSUME IInv, NEW t \in Threads, CollEnd(t)
    PROVE  IInv'
<1> USE DEF IInv
<1>1. UNCHANGED << mgr, queueVars, op, statVars, pollVars, tpc, held, gpuVars, flushing >>
    BY DEF CollEnd
<1>2. /\ inside[t] \in Seq(Colls) /\ saved[t] \in Seq(Names) /\ active[t] \in Names
      /\ inside[t] # << >> /\ Len(saved[t]) = Len(inside[t])
    BY DEF TypeInv, CollEnd, CollInv
<1>3. /\ Len(inside[t]) \in Nat \ {0} /\ saved[t] # << >>
      /\ Tail(inside[t]) \in Seq(Colls) /\ Tail(saved[t]) \in Seq(Names)
      /\ Len(Tail(inside[t])) = Len(inside[t]) - 1
      /\ Len(Tail(saved[t])) = Len(inside[t]) - 1
      /\ \A i \in 1 .. Len(inside[t]) - 1 :
            /\ Tail(inside[t])[i] = inside[t][i + 1]
            /\ Tail(saved[t])[i] = saved[t][i + 1]
      /\ Head(saved[t]) = saved[t][1] /\ saved[t][1] \in Names
    BY <1>2
<1> DEFINE tl == Tail(inside[t])
<1>4. tl \in Seq(Colls) /\ (tl = << >> <=> Len(tl) = 0)
    BY <1>3, EmptyLen
<1>5. Len(inside[t]) \in Nat \ {0} /\ Len(tl) = Len(inside[t]) - 1
    BY <1>3
<1>6. /\ inside' = [inside EXCEPT ![t] = Tail(inside[t])]
      /\ saved' = [saved EXCEPT ![t] = Tail(saved[t])]
      /\ active' = [active EXCEPT ![t] = saved[t][1]]
    BY <1>3 DEF CollEnd, Previous
<1>7. TypeInv'
    BY <1>1, <1>3, <1>6 DEF TypeInv, queueVars, statVars, gpuVars, pollVars
<1>8. CollInv'
  <2>1. ASSUME NEW u \in Threads, u # t
        PROVE  /\ inside'[u] = inside[u] /\ saved'[u] = saved[u]
               /\ active'[u] = active[u]
      BY <1>6, <2>1 DEF TypeInv
  <2>2. /\ inside'[t] = Tail(inside[t]) /\ active'[t] = saved[t][1]
        /\ saved'[t] = Tail(saved[t])
      BY <1>6 DEF TypeInv
  <2>3. \A i \in 1 .. Len(inside[t]) :
           saved[t][i] = IF i < Len(inside[t]) THEN inside[t][i + 1] ELSE NoColl
      BY <1>2 DEF CollInv
  <2>4. active'[t] = Innermost(inside'[t])
    <3>1. CASE Len(inside[t]) = 1
      <4>1. Tail(inside[t]) = << >>
          BY <1>3, <1>4, <3>1
      <4> QED BY <2>2, <2>3, <3>1, <4>1 DEF Innermost
    <3>2. CASE Len(inside[t]) > 1
      <4>1. Len(Tail(inside[t])) > 0 /\ 1 \in 1 .. Len(inside[t]) - 1
          BY <1>3, <3>2
      <4>2. Len(tl) # 0
        <5> HIDE DEF tl
        <5> QED BY <1>5, <3>2
      <4>3. tl # << >>
        <5> HIDE DEF tl
        <5> QED BY <1>4, <4>2
      <4>4. tl[1] = inside[t][2] /\ saved[t][1] = inside[t][2]
          BY <1>3, <2>3, <3>2, <4>1
      <4>5. Innermost(tl) = tl[1]
        <5> HIDE DEF tl
        <5> QED BY <4>3 DEF Innermost
      <4> QED BY <2>2, <4>4, <4>5
    <3>3. \A n \in Nat \ {0} : n = 1 \/ n > 1
        OBVIOUS
    <3> QED BY <1>5, <3>1, <3>2, <3>3, Zenon
  <2>5. ASSUME NEW i \in 1 .. Len(saved'[t])
        PROVE  saved'[t][i] = IF i < Len(inside'[t]) THEN inside'[t][i + 1] ELSE NoColl
    <3>1. i \in 1 .. Len(inside[t]) - 1 /\ i + 1 \in 1 .. Len(inside[t])
        BY <1>3, <2>2
    <3>2. saved'[t][i] = IF i + 1 < Len(inside[t]) THEN inside[t][(i + 1) + 1] ELSE NoColl
        BY <1>3, <2>2, <2>3, <3>1
    <3>3. i < Len(inside'[t]) <=> i + 1 < Len(inside[t])
        BY <1>3, <2>2
    <3>4. i + 1 < Len(inside[t]) => inside'[t][i + 1] = inside[t][(i + 1) + 1]
      <4>1. i + 1 < Len(inside[t]) => i + 1 \in 1 .. Len(inside[t]) - 1
          BY <1>3, <3>1
      <4> QED BY <1>3, <2>2, <4>1
    <3> QED BY <3>2, <3>3, <3>4
  <2>6. Len(saved'[t]) = Len(inside'[t])
      BY <1>3, <2>2
  <2> QED BY <2>1, <2>4, <2>5, <2>6 DEF CollInv
<1>9. CountInv' /\ PollInv'
    BY <1>1 DEF CountInv, PollInv, queueVars, pollVars, gpuVars
<1>10. PlaceInv' /\ OpInv' /\ TraceInv' /\ HangInv' /\ FlushInv'
    BY <1>1, PlaceFrame, OpFrame, TraceFrame, HangFrame, FlushFrame
       DEF queueVars, statVars, gpuVars, pollVars
<1> QED BY <1>7, <1>8, <1>9, <1>10

(* A launch begins only where a number is left for it.                     *)
LEMMA LaunchBeginInv ==
    ASSUME IInv, NEW t \in Threads, LaunchBegin(t)
    PROVE  IInv'
<1> USE DEF IInv
<1>1. UNCHANGED << queueVars, op, statVars, local, still, held, active, saved, inside,
                   gpuVars, flushing >>
    BY DEF LaunchBegin
<1>2. /\ mgr' = "running" /\ mgr # "stopped" /\ tpc[t] = "out"
      /\ tpc' = [tpc EXCEPT ![t] = "enabled"]
    BY DEF LaunchBegin, ensure_started
<1>3. TypeInv'
    BY <1>1, <1>2 DEF LaunchBegin, ensure_started, TypeInv, queueVars, statVars, gpuVars
<1>4. CountInv'
  <2> DEFINE E == {u \in Threads : tpc[u] = "enabled"}
             B == {u \in Threads : tpc[u] # "out"}
             F == {u \in Threads : tpc'[u] = "enabled"}
  <2>1. F = E \cup {t} /\ E \subseteq B /\ t \notin E
      BY <1>2 DEF TypeInv
  <2>2. E \in SUBSET Threads /\ B \in SUBSET Threads
      OBVIOUS
  <2>3. Cardinality(B) < MaxLaunches - launched
      BY DEF LaunchBegin
  <2> HIDE DEF E, B, F
  <2>4. /\ IsFiniteSet(E) /\ IsFiniteSet(B)
        /\ Cardinality(E) \in Nat /\ Cardinality(B) \in Nat
      BY <2>2, ConstantFacts
  <2>5. Cardinality(F) = Cardinality(E) + 1
      BY <2>1, <2>4, FS_AddElement
  <2>6. Cardinality(E) <= Cardinality(B)
      BY <2>1, <2>4, FS_Subset
  <2>7. made' = made /\ launched' = launched /\ launched \in Nat /\ made <= launched
      BY <1>1 DEF queueVars, gpuVars, TypeInv, CountInv
  <2>8. launched' + Cardinality(F) <= MaxLaunches
      BY <2>3, <2>4, <2>5, <2>6, <2>7, ConstantFacts
  <2> QED BY <2>7, <2>8 DEF CountInv, F
<1>5. CollInv' /\ PollInv'
    BY <1>1, <1>2 DEF LaunchBegin, ensure_started, PollInv, CollInv
<1>6. PlaceInv' /\ TraceInv' /\ HangInv'
    BY <1>1, PlaceFrame, TraceFrame, HangFrame DEF queueVars, statVars, gpuVars
<1>7. OpInv'
    BY <1>1, <1>2 DEF OpInv, Waiting, queueVars, gpuVars, TypeInv
<1>8. FlushInv'
    BY <1>2 DEF FlushInv
<1> QED BY <1>3, <1>4, <1>5, <1>6, <1>7, <1>8

(* record_stop(), while the object is in the thread's hands.               *)
LEMMA RecordStopInv ==
    ASSUME IInv, NEW t \in Threads, RecordStop(t)
    PROVE  IInv'
<1> USE DEF IInv
<1> DEFINE o == held[t]
<1>1. UNCHANGED << mgr, queueVars, statVars, pollVars, held, active, saved, inside,
                   gpuVars, flushing >>
    BY DEF RecordStop
<1>2. /\ tpc[t] = "launch" /\ tpc' = [tpc EXCEPT ![t] = "stopped"]
      /\ op' = [op EXCEPT ![o] = [op[o] EXCEPT !.stop = op[o].launch]]
    BY DEF RecordStop
<1>3. o \in 1 .. made /\ made \in Nat /\ made <= MaxLaunches /\ o \in Objects
  <2>1. o # 0
      BY <1>2 DEF OpInv
  <2>2. o \in 1 .. made /\ made \in Nat
      BY <2>1 DEF PlaceInv, TypeInv
  <2>3. launched \in Nat /\ made <= launched
        /\ Cardinality({u \in Threads : tpc[u] = "enabled"}) \in Nat
        /\ launched + Cardinality({u \in Threads : tpc[u] = "enabled"}) <= MaxLaunches
      BY ConstantFacts DEF TypeInv, CountInv
  <2>4. made <= MaxLaunches
      BY <2>2, <2>3, ConstantFacts
  <2> QED BY <2>2, <2>4, ConstantFacts
<1>4. /\ op \in [Objects -> Ops] /\ op' \in [Objects -> Ops]
      /\ \A p \in Objects : p # o => op'[p] = op[p]
      /\ op'[o].launch = op[o].launch /\ op'[o].start = op[o].start
      /\ op'[o].name = op[o].name /\ op'[o].reported = op[o].reported
      /\ op'[o].stop = op[o].launch
    BY <1>2, <1>3 DEF TypeInv, Ops
<1>5. \A p \in 1 .. made : p \in Objects
    BY <1>3, ConstantFacts
<1>6. ~ Waiting(o)
    BY <1>3 DEF PlaceInv, Waiting, Held
<1>7. TypeInv'
    BY <1>1, <1>2, <1>4 DEF TypeInv, queueVars, statVars, pollVars, gpuVars
<1>8. CountInv'
  <2>1. {u \in Threads : tpc'[u] = "enabled"} = {u \in Threads : tpc[u] = "enabled"}
      BY <1>2 DEF TypeInv
  <2> QED BY <1>1, <2>1 DEF CountInv, queueVars, gpuVars
<1>9. CollInv' /\ PollInv'
    BY <1>1 DEF PollInv, CollInv, pollVars
<1>10. PlaceInv'
    BY <1>1, PlaceFrame DEF queueVars, pollVars
<1>11. OpInv'
  <2>1. \A p \in 1 .. made : op'[p].launch = op[p].launch /\ op'[p].start = op[p].start
                             /\ op'[p].name = op[p].name
                             /\ (p # o => op'[p].stop = op[p].stop)
      BY <1>4, <1>5
  <2>2. made' = made /\ launched' = launched /\ truth' = truth /\ held' = held
        /\ work' = work /\ local' = local /\ still' = still
      BY <1>1 DEF queueVars, gpuVars, pollVars
  <2>3. \A u \in Threads : (held'[u] = 0) <=> tpc'[u] \in {"out", "enabled"}
      BY <1>2, <2>2 DEF OpInv, TypeInv
  <2>4. ASSUME NEW u \in Threads, tpc'[u] = "stopped"
        PROVE  op'[held'[u]].stop = op'[held'[u]].launch
    <3>1. CASE u = t
        BY <1>4, <2>2, <3>1
    <3>2. CASE u # t
      <4>1. tpc[u] = "stopped"
          BY <1>2, <2>4, <3>2 DEF TypeInv
      <4>2. held[u] # 0
          BY <4>1 DEF OpInv
      <4>3. held[u] \in 1 .. made
          BY <4>2 DEF PlaceInv, TypeInv
      <4>4. held[u] # o
          BY <3>2, <4>2 DEF PlaceInv
      <4> QED BY <1>4, <1>5, <2>2, <4>1, <4>3, <4>4 DEF OpInv
    <3> QED BY <3>1, <3>2
  <2> QED BY <1>6, <2>1, <2>2, <2>3, <2>4 DEF OpInv, Waiting
<1>12. \A p \in 1 .. made : op'[p].launch = op[p].launch
                           /\ op'[p].reported = op[p].reported
    BY <1>4, <1>5
<1>13. TraceInv' /\ HangInv' /\ FlushInv'
    BY <1>1, <1>12 DEF TraceInv, TraceIsRight, Traced, HangInv, FlushInv, QueuedIn,
       queueVars, statVars, pollVars, gpuVars
<1> QED BY <1>7, <1>8, <1>9, <1>10, <1>11, <1>13

(* What a thread held waits for the poller.                                *)
LEMMA EnqueueInv ==
    ASSUME IInv, NEW t \in Threads, Enqueue(t)
    PROVE  IInv'
<1> USE DEF IInv
<1> DEFINE o == held[t]
<1>1. UNCHANGED << mgr, pool, made, op, statVars, pollVars, active, saved, inside,
                   gpuVars, flushing >>
    BY DEF Enqueue
<1>2. /\ tpc[t] = "stopped" /\ tpc' = [tpc EXCEPT ![t] = "out"]
      /\ work' = Append(work, o) /\ held' = [held EXCEPT ![t] = 0]
    BY DEF Enqueue
<1>3. o \in 1 .. made /\ o # 0 /\ made \in Nat
  <2>1. o # 0
      BY <1>2 DEF OpInv
  <2> QED BY <2>1 DEF PlaceInv, TypeInv
<1>4. ~ In(o, pool) /\ ~ In(o, work) /\ ~ In(o, local) /\ ~ In(o, still)
    BY <1>3 DEF PlaceInv, Held
<1>5. work \in Seq(1 .. made) /\ Distinct(work)
    BY DEF PlaceInv
<1>6. /\ work' \in Seq(1 .. made) /\ Distinct(work')
      /\ \A p : In(p, work') <=> In(p, work) \/ p = o
    BY <1>2, <1>3, <1>4, <1>5, AppendFacts
<1>7. \A u \in Threads : held'[u] = IF u = t THEN 0 ELSE held[u]
    BY <1>2 DEF PlaceInv
<1>8. TypeInv'
    BY <1>1, <1>2 DEF TypeInv, statVars, pollVars, gpuVars
<1>9. CountInv'
  <2>1. {u \in Threads : tpc'[u] = "enabled"} = {u \in Threads : tpc[u] = "enabled"}
      BY <1>2 DEF TypeInv
  <2> QED BY <1>1, <2>1 DEF CountInv, gpuVars
<1>10. CollInv' /\ PollInv'
    BY <1>1 DEF PollInv, CollInv, pollVars
<1>11. PlaceInv'
  <2>1. \A p \in 1 .. made : Held(p)' <=> Held(p) /\ p # o
    <3>1. ASSUME NEW p \in 1 .. made, Held(p), p # o PROVE Held(p)'
        BY <1>7, <3>1 DEF Held
    <3>2. ASSUME NEW p \in 1 .. made, Held(p)' PROVE Held(p) /\ p # o
      <4>1. PICK u \in Threads : held'[u] = p
          BY <3>2 DEF Held
      <4>2. u # t /\ held[u] = p /\ p # 0
          BY <1>3, <1>7, <4>1
      <4> QED BY <4>2 DEF Held, PlaceInv
    <3> QED BY <3>1, <3>2
  <2>2. held' \in [Threads -> 0 .. made]
      BY <1>2, <1>3 DEF PlaceInv
  <2>3. \A u, v \in Threads : held'[u] = held'[v] /\ held'[u] # 0 => u = v
      BY <1>7 DEF PlaceInv
  <2>4. UNCHANGED << pool, made, local, still >>
      BY <1>1 DEF pollVars
  <2> QED BY <1>3, <1>4, <1>6, <2>1, <2>2, <2>3, <2>4 DEF PlaceInv
<1>12. OpInv'
  <2>1. op[o].stop = op[o].launch
      BY <1>2 DEF OpInv
  <2>2. UNCHANGED << made, op, launched, truth, local, still >>
      BY <1>1 DEF pollVars, gpuVars
  <2>3. \A u \in Threads : tpc'[u] = IF u = t THEN "out" ELSE tpc[u]
      BY <1>2 DEF TypeInv
  <2> QED BY <1>3, <1>6, <1>7, <2>1, <2>2, <2>3 DEF OpInv, Waiting
<1>13. TraceInv' /\ HangInv'
    BY <1>1, TraceFrame, HangFrame DEF statVars, gpuVars
<1>14. FlushInv'
    BY <1>1, <1>6 DEF FlushInv, QueuedIn, Traced, statVars, pollVars, gpuVars
<1> QED BY <1>8, <1>9, <1>10, <1>11, <1>12, <1>13, <1>14

(* The GPU finishes a launch.                                              *)
LEMMA FinishInv ==
    ASSUME IInv, NEW l \in Launches, Finish(l)
    PROVE  IInv'
<1> USE DEF IInv
<1>1. /\ UNCHANGED << mgr, queueVars, op, statVars, pollVars, threadVars, launched,
                      truth, overdue, flushing >>
      /\ done' = done \cup {l} /\ l \in 1 .. launched
    BY DEF Finish
<1>2. TypeInv' /\ CountInv' /\ CollInv' /\ PollInv'
    BY <1>1 DEF TypeInv, CountInv, CollInv, PollInv, queueVars, statVars, pollVars,
       threadVars
<1>3. PlaceInv' /\ OpInv' /\ HangInv'
    BY <1>1, PlaceFrame, OpFrame, HangFrame DEF queueVars, statVars, pollVars, threadVars
<1>4. TraceInv' /\ FlushInv'
    BY <1>1 DEF TraceInv, TraceIsRight, Traced, FlushInv, QueuedIn, queueVars, statVars,
       pollVars
<1> QED BY <1>2, <1>3, <1>4

(* A timeout passes.                                                       *)
LEMMA OverdueInv ==
    ASSUME IInv, NEW l \in Launches, Overdue(l)
    PROVE  IInv'
<1> USE DEF IInv
<1>1. /\ UNCHANGED << mgr, queueVars, op, statVars, pollVars, threadVars, launched,
                      truth, done, flushing >>
      /\ overdue' = overdue \cup {l} /\ l \in 1 .. launched
    BY DEF Overdue
<1>2. TypeInv' /\ CountInv' /\ CollInv' /\ PollInv'
    BY <1>1 DEF TypeInv, CountInv, CollInv, PollInv, queueVars, statVars, pollVars,
       threadVars
<1>3. PlaceInv' /\ OpInv' /\ TraceInv' /\ FlushInv'
    BY <1>1, PlaceFrame, OpFrame, TraceFrame, FlushFrame
       DEF queueVars, statVars, pollVars, threadVars
<1>4. HangInv'
    BY <1>1 DEF HangInv, queueVars, statVars
<1> QED BY <1>2, <1>3, <1>4

(* acquire() takes an object that nobody has, for a launch that has no     *)
(* number yet.                                                             *)
LEMMA AcquireInv ==
    ASSUME IInv, NEW t \in Threads, Acquire(t)
    PROVE  IInv'
<1> USE DEF IInv
<1> DEFINE o == IF pool = << >> THEN made + 1 ELSE pool[Len(pool)]
           l == launched + 1
           r == [op[o] EXCEPT !.launch = l, !.name = active[t], !.start = l,
                              !.reported = FALSE]
<1>1. /\ UNCHANGED << mgr, work, statVars, pollVars, active, saved, inside, done,
                      overdue, flushing >>
      /\ tpc[t] = "enabled" /\ tpc' = [tpc EXCEPT ![t] = "launch"]
      /\ launched' = l /\ held' = [held EXCEPT ![t] = o]
    BY DEF Acquire
<1>2. /\ op' = [op EXCEPT ![o] = r]
      /\ truth' = [truth EXCEPT ![l] =
                      IF inside[t] = << >> THEN NoColl ELSE Head(inside[t])]
    BY DEF Acquire, ReportedAtAcquire
<1>3. /\ launched \in Nat /\ made \in Nat /\ made <= launched
      /\ launched + 1 <= MaxLaunches
      /\ Cardinality({u \in Threads : tpc'[u] = "enabled"})
            = Cardinality({u \in Threads : tpc[u] = "enabled"}) - 1
      /\ launched + Cardinality({u \in Threads : tpc[u] = "enabled"}) <= MaxLaunches
      /\ Cardinality({u \in Threads : tpc[u] = "enabled"}) \in Nat
  <2> DEFINE E == {u \in Threads : tpc[u] = "enabled"}
             F == {u \in Threads : tpc'[u] = "enabled"}
  <2>1. F = E \ {t} /\ t \in E
      BY <1>1 DEF TypeInv
  <2>2. launched + Cardinality(E) <= MaxLaunches /\ launched \in Nat /\ made \in Nat
        /\ made <= launched
      BY DEF CountInv, TypeInv
  <2>3. IsFiniteSet(E) /\ Cardinality(E) \in Nat
      BY ConstantFacts
  <2>4. IsFiniteSet(F) /\ Cardinality(F) \in Nat
      BY ConstantFacts
  <2> HIDE DEF E, F
  <2>5. Cardinality(F) = Cardinality(E) - 1
      BY <2>1, <2>3, FS_RemoveElement
  <2>6. launched + 1 <= MaxLaunches
      BY <2>2, <2>3, <2>4, <2>5, ConstantFacts
  <2> QED BY <2>2, <2>3, <2>5, <2>6 DEF E, F
<1>4. /\ pool \in Seq(1 .. made) /\ Distinct(pool)
      /\ work \in Seq(1 .. made) /\ local \in Seq(1 .. made) /\ still \in Seq(1 .. made)
    BY DEF PlaceInv
(* the object *)
<1>5. /\ made' \in Nat /\ made <= made' /\ made' <= l /\ o \in 1 .. made' /\ o # 0
      /\ pool' \in Seq(1 .. made') /\ Distinct(pool')
      /\ 1 .. made' = 1 .. made \cup {o}
      /\ work \in Seq(1 .. made') /\ local \in Seq(1 .. made') /\ still \in Seq(1 .. made')
      /\ \A p : In(p, pool') <=> In(p, pool) /\ p # o
      /\ o \in 1 .. made => In(o, pool)
  <2>1. CASE pool = << >>
    <3>1. made' = made + 1 /\ pool' = pool /\ o = made + 1
        BY <2>1 DEF Acquire
    <3>2. \A s \in Seq(1 .. made) : s \in Seq(1 .. made')
        BY <1>3, <3>1, SeqWiden
    <3>3. \A p : ~ In(p, pool)
        BY <2>1, EmptyFacts
    <3>4. /\ made' \in Nat /\ made <= made' /\ made' <= l /\ o \in 1 .. made' /\ o # 0
          /\ 1 .. made' = 1 .. made \cup {o} /\ o \notin 1 .. made
        BY <1>3, <3>1
    <3> QED BY <1>4, <3>1, <3>2, <3>3, <3>4
  <2>2. CASE pool # << >>
    <3>1. made' = made /\ pool' = SubSeq(pool, 1, Len(pool) - 1) /\ o = pool[Len(pool)]
        BY <2>2 DEF Acquire
    <3>2. /\ pool' \in Seq(1 .. made) /\ Distinct(pool') /\ o \in 1 .. made
          /\ In(o, pool) /\ \A p : In(p, pool') <=> In(p, pool) /\ p # o
        BY <1>4, <2>2, <3>1, FrontFacts
    <3> HIDE DEF o
    <3> QED BY <1>3, <1>4, <3>1, <3>2, SMTT(30)
  <2> QED BY <2>1, <2>2
<1> HIDE DEF o
<1>6. ~ In(o, work) /\ ~ In(o, local) /\ ~ In(o, still) /\ ~ Held(o)
  <2>1. CASE o \in 1 .. made
      BY <1>5, <2>1 DEF PlaceInv
  <2>2. CASE o \notin 1 .. made
    <3>1. \A s \in Seq(1 .. made) : ~ In(o, s)
        BY <2>2, InSeq
    <3>2. ~ Held(o)
        BY <1>5, <2>2 DEF Held, PlaceInv
    <3> QED BY <1>4, <3>1, <3>2
  <2> QED BY <2>1, <2>2
<1>7. /\ held[t] = 0
      /\ \A u \in Threads : held'[u] = IF u = t THEN o ELSE held[u]
    BY <1>1 DEF OpInv, PlaceInv
<1>8. PlaceInv'
  <2>1. \A p \in 1 .. made' : Held(p)' <=> Held(p) \/ p = o
    <3>1. ASSUME NEW p \in 1 .. made', Held(p) PROVE Held(p)'
      <4>1. PICK u \in Threads : held[u] = p
          BY <3>1 DEF Held
      <4>2. u # t
          BY <1>5, <1>7, <4>1
      <4> QED BY <1>7, <4>1, <4>2 DEF Held
    <3>2. ASSUME NEW p \in 1 .. made', p = o PROVE Held(p)'
        BY <1>7, <3>2 DEF Held
    <3>3. ASSUME NEW p \in 1 .. made', Held(p)' PROVE Held(p) \/ p = o
        BY <1>7, <3>3 DEF Held
    <3> QED BY <3>1, <3>2, <3>3
  <2>2. held' \in [Threads -> 0 .. made']
      BY <1>1, <1>3, <1>5 DEF PlaceInv
  <2>3. \A u, v \in Threads : held'[u] = held'[v] /\ held'[u] # 0 => u = v
      BY <1>6, <1>7 DEF PlaceInv, Held
  <2>4. UNCHANGED << work, local, still >>
      BY <1>1 DEF pollVars
  <2>5. ASSUME NEW p \in 1 .. made'
        PROVE  /\ \/ In(p, pool') \/ In(p, work') \/ In(p, local') \/ In(p, still')
                  \/ Held(p)'
               /\ In(p, pool') => ~ (\/ In(p, work') \/ In(p, local') \/ In(p, still')
                                     \/ Held(p)')
               /\ In(p, work') => ~ (In(p, local') \/ In(p, still') \/ Held(p)')
               /\ In(p, local') => ~ (In(p, still') \/ Held(p)')
               /\ In(p, still') => ~ Held(p)'
    <3>1. CASE p = o
        BY <1>5, <1>6, <2>1, <2>4, <3>1
    <3>2. CASE p # o
      <4>1. p \in 1 .. made
          BY <1>5, <3>2
      <4> QED BY <1>5, <2>1, <2>4, <3>2, <4>1 DEF PlaceInv
    <3> QED BY <3>1, <3>2
  <2>6. Distinct(work) /\ Distinct(local) /\ Distinct(still)
      BY DEF PlaceInv
  <2> QED BY <1>5, <2>2, <2>3, <2>4, <2>5, <2>6 DEF PlaceInv
(* what it records *)
<1>9. /\ o \in Objects /\ l \in Launches /\ l \notin 1 .. launched /\ l \in Nat
      /\ 1 .. launched \subseteq 1 .. l /\ l \in 1 .. l
    BY <1>3, <1>5, ConstantFacts
<1>10. /\ r \in Ops /\ r.launch = l /\ r.start = l /\ r.name = active[t]
       /\ r.reported = FALSE
    BY <1>9 DEF TypeInv, Ops
<1>11. /\ op' \in [Objects -> Ops] /\ op'[o] = r
       /\ \A p \in Objects : p # o => op'[p] = op[p]
    BY <1>2, <1>9, <1>10 DEF TypeInv
<1> HIDE DEF r
<1>12. /\ truth' \in [Launches -> Names] /\ truth'[l] = active[t]
       /\ \A k \in 1 .. launched : truth'[k] = truth[k]
  <2>1. active[t] = IF inside[t] = << >> THEN NoColl ELSE Head(inside[t])
    <3>1. inside[t] \in Seq(Colls) /\ active[t] = Innermost(inside[t])
        BY DEF TypeInv, CollInv
    <3> QED BY <3>1 DEF Innermost
  <2>2. truth' = [truth EXCEPT ![l] = active[t]]
      BY <1>2, <2>1
  <2>3. \A k \in 1 .. launched : k \in Launches /\ k # l
      BY <1>3, ConstantFacts
  <2> QED BY <1>9, <2>2, <2>3 DEF TypeInv
<1>13. \A p \in 1 .. made : p \in Objects
    BY <1>3, ConstantFacts
<1>14. TypeInv'
  <2>1. /\ UNCHANGED << mgr, ppc, trace, hangs, active, saved, inside, overdue, done >>
        /\ tpc' = [tpc EXCEPT ![t] = "launch"]
      BY <1>1 DEF statVars, pollVars
  <2>2. /\ made' \in Nat /\ launched' \in Nat
        /\ done' \subseteq 1 .. launched' /\ overdue' \subseteq 1 .. launched'
      BY <1>1, <1>5, <1>9, <2>1 DEF TypeInv
  <2>3. held' \in [Threads -> Nat]
      BY <1>1, <1>5 DEF TypeInv
  <2>4. tpc' \in [Threads -> {"out", "enabled", "launch", "stopped"}]
      BY <2>1 DEF TypeInv
  <2> QED BY <1>11, <1>12, <2>1, <2>2, <2>3, <2>4 DEF TypeInv
<1>15. CountInv'
    BY <1>1, <1>3, <1>5 DEF CountInv
<1>16. CollInv' /\ PollInv'
    BY <1>1 DEF CollInv, PollInv, pollVars
<1>17. OpInv'
  <2>1. \A u \in Threads : tpc'[u] = IF u = t THEN "launch" ELSE tpc[u]
      BY <1>1 DEF TypeInv
  <2>2. \A u \in Threads : (held'[u] = 0) <=> tpc'[u] \in {"out", "enabled"}
      BY <1>5, <1>7, <2>1, ZenonT(30) DEF OpInv
  <2>3. UNCHANGED << work, local, still >>
      BY <1>1 DEF pollVars
  <2>4. ASSUME NEW p \in 1 .. made'
        PROVE  /\ op'[p].launch \in 1 .. launched'
               /\ op'[p].start = op'[p].launch
               /\ op'[p].name = truth'[op'[p].launch]
               /\ Waiting(p)' => op'[p].stop = op'[p].launch
    <3>1. CASE p = o
        BY <1>1, <1>6, <1>9, <1>10, <1>11, <1>12, <2>3, <3>1 DEF Waiting
    <3>2. CASE p # o
      <4>1. p \in 1 .. made /\ op'[p] = op[p]
          BY <1>5, <1>11, <1>13, <3>2
      <4>2. /\ op[p].launch \in 1 .. launched /\ op[p].start = op[p].launch
            /\ op[p].name = truth[op[p].launch]
            /\ Waiting(p) => op[p].stop = op[p].launch
          BY <4>1 DEF OpInv
      <4> QED BY <1>1, <1>9, <1>12, <2>3, <4>1, <4>2 DEF Waiting
    <3> QED BY <3>1, <3>2
  <2>5. ASSUME NEW p \in 1 .. made', NEW q \in 1 .. made',
               op'[p].launch = op'[q].launch
        PROVE  p = q
    <3>1. \A x \in 1 .. made' : x # o =>
             x \in 1 .. made /\ op'[x].launch = op[x].launch /\ op'[x].launch # l
      <4>1. SUFFICES ASSUME NEW x \in 1 .. made', x # o
                     PROVE  /\ x \in 1 .. made /\ op'[x].launch = op[x].launch
                            /\ op'[x].launch # l
          OBVIOUS
      <4>2. x \in 1 .. made /\ op'[x] = op[x]
          BY <1>5, <1>11, <1>13, <4>1
      <4>3. op[x].launch \in 1 .. launched
          BY <4>2 DEF OpInv
      <4> QED BY <1>9, <4>2, <4>3
    <3>2. op'[o].launch = l
        BY <1>10, <1>11
    <3>3. CASE p = o \/ q = o
        BY <2>5, <3>1, <3>2, <3>3
    <3>4. CASE p # o /\ q # o
        BY <2>5, <3>1, <3>4 DEF OpInv
    <3> QED BY <3>3, <3>4
  <2>6. ASSUME NEW u \in Threads, tpc'[u] = "stopped"
        PROVE  op'[held'[u]].stop = op'[held'[u]].launch
    <3>1. u # t /\ tpc[u] = "stopped" /\ held'[u] = held[u]
        BY <1>7, <2>1, <2>6
    <3>2. held[u] # 0 /\ held[u] \in 1 .. made /\ held[u] # o
        BY <1>6, <3>1, SMTT(30) DEF OpInv, PlaceInv, Held
    <3> QED BY <1>11, <1>13, <3>1, <3>2 DEF OpInv
  <2> QED BY <2>2, <2>4, <2>5, <2>6 DEF OpInv
<1>18. TraceInv'
  <2>1. UNCHANGED << trace, done >>
      BY <1>1 DEF statVars
  <2>2. \A i \in DOMAIN trace : trace[i].launch \in 1 .. launched
      BY DEF TraceInv, TraceIsRight, TypeInv
  <2>3. TraceIsRight'
      BY <1>12, <2>1, <2>2 DEF TraceInv, TraceIsRight
  <2>4. ASSUME NEW p \in 1 .. made', NEW i \in DOMAIN trace',
               trace'[i].launch = op'[p].launch
        PROVE  In(p, pool')
    <3>1. i \in DOMAIN trace /\ trace[i].launch = op'[p].launch
        BY <2>1, <2>4
    <3>2. p # o
        BY <1>9, <1>10, <1>11, <2>2, <3>1
    <3>3. p \in 1 .. made /\ op'[p] = op[p]
        BY <1>5, <1>11, <1>13, <3>2
    <3> QED BY <1>5, <3>1, <3>2, <3>3 DEF TraceInv, Traced
  <2> QED BY <2>3, <2>4 DEF TraceInv, Traced
<1>19. HangInv'
  <2>1. UNCHANGED << hangs, overdue >>
      BY <1>1 DEF statVars
  <2>2. \A i \in DOMAIN hangs : hangs[i] \in 1 .. launched
      BY DEF HangInv, TypeInv
  <2>3. ASSUME NEW p \in 1 .. made', In(op'[p].launch, hangs) PROVE op'[p].reported
    <3>1. p # o
        BY <1>9, <1>10, <1>11, <2>2, <2>3 DEF In
    <3>2. p \in 1 .. made /\ op'[p] = op[p]
        BY <1>5, <1>11, <1>13, <3>1
    <3> QED BY <2>3, <3>2 DEF HangInv
  <2> QED BY <2>1, <2>3 DEF HangInv
<1>20. FlushInv'
  <2>1. UNCHANGED << mgr, ppc, work, local, trace, done, flushing >>
      BY <1>1 DEF statVars, pollVars
  <2>2. ASSUME NEW k, NEW s, s \in {work, local}, QueuedIn(k, s) PROVE QueuedIn(k, s)'
    <3>1. PICK p \in 1 .. made : In(p, s) /\ op[p].launch = k
        BY <2>2 DEF QueuedIn
    <3>2. p # o
        BY <1>6, <2>2, <3>1
    <3>3. p \in 1 .. made' /\ op'[p] = op[p]
        BY <1>5, <1>11, <1>13, <3>2
    <3> QED BY <3>1, <3>3 DEF QueuedIn
  <2>3. \A k : /\ QueuedIn(k, work) => QueuedIn(k, work)'
               /\ QueuedIn(k, local) => QueuedIn(k, local)'
               /\ Traced(k) => Traced(k)'
      BY <2>1, <2>2 DEF Traced
  <2> QED BY <2>1, <2>3 DEF FlushInv
<1> QED BY <1>8, <1>14, <1>15, <1>16, <1>17, <1>18, <1>19, <1>20

(* drain_once() takes the whole queue.                                     *)
LEMMA SwapInv ==
    ASSUME IInv, Swap
    PROVE  IInv'
<1> USE DEF IInv
<1>1. /\ UNCHANGED << mgr, pool, made, op, statVars, still, threadVars, gpuVars, flushing >>
      /\ ppc \in {"loop", "final"} /\ (ppc = "final" \/ mgr = "running")
      /\ local' = work /\ work' = << >>
      /\ ppc' = IF ppc = "loop" THEN "drain" ELSE "finalDrain"
    BY DEF Swap
<1>2. local = << >> /\ still = << >>
    BY <1>1 DEF PollInv
<1>3. \A p : ~ In(p, local) /\ ~ In(p, work')
    BY <1>1, <1>2, EmptyFacts
<1>4. TypeInv' /\ CountInv' /\ CollInv' /\ PollInv'
    BY <1>1, <1>2 DEF TypeInv, CountInv, CollInv, PollInv, statVars, threadVars, gpuVars
<1>5. PlaceInv'
  <2>1. work' \in Seq(1 .. made) /\ Distinct(work')
      BY <1>1, EmptyFacts
  <2> QED BY <1>1, <1>3, <2>1 DEF PlaceInv, Held, threadVars
<1>6. OpInv'
    BY <1>1, <1>3 DEF OpInv, Waiting, threadVars, gpuVars
<1>7. TraceInv' /\ HangInv'
    BY <1>1, TraceFrame, HangFrame DEF statVars, gpuVars
<1>8. FlushInv'
    BY <1>1 DEF FlushInv, QueuedIn, Traced, statVars, gpuVars, PollInv
<1> QED BY <1>4, <1>5, <1>6, <1>7, <1>8

(* The poller ends its loop, for the final drain.                          *)
LEMMA LeaveLoopInv ==
    ASSUME IInv, LeaveLoop
    PROVE  IInv'
<1> USE DEF IInv
<1>1. /\ UNCHANGED << mgr, queueVars, op, statVars, local, still, threadVars, gpuVars,
                      flushing >>
      /\ ppc = "loop" /\ mgr # "running" /\ ppc' = "final"
    BY DEF LeaveLoop, AfterLoop
<1>2. TypeInv' /\ CountInv' /\ CollInv' /\ PollInv'
    BY <1>1 DEF TypeInv, CountInv, CollInv, PollInv, queueVars, statVars, threadVars,
       gpuVars
<1>3. PlaceInv' /\ OpInv' /\ TraceInv' /\ HangInv'
    BY <1>1, PlaceFrame, OpFrame, TraceFrame, HangFrame
       DEF queueVars, statVars, threadVars, gpuVars
<1>4. FlushInv'
    BY <1>1 DEF FlushInv, QueuedIn, Traced, queueVars, statVars, gpuVars
<1> QED BY <1>2, <1>3, <1>4

(* The head of local is in the poller's hands, with a complete record.     *)
LEMMA ExamineFacts ==
    ASSUME IInv, Examine
    PROVE  /\ Head(local) \in 1 .. made /\ Head(local) \in Objects
           /\ In(Head(local), local) /\ ~ In(Head(local), pool)
           /\ ~ In(Head(local), still)
           /\ local' \in Seq(1 .. made) /\ Distinct(local')
           /\ \A p : In(p, local') <=> In(p, local) /\ p # Head(local)
           /\ op[Head(local)] \in Ops
           /\ op[Head(local)].launch \in 1 .. launched
           /\ op[Head(local)].stop = op[Head(local)].launch
           /\ op[Head(local)].start = op[Head(local)].launch
           /\ op[Head(local)].name = truth[op[Head(local)].launch]
           /\ (Ready(op[Head(local)].stop) <=> op[Head(local)].launch \in done)
<1> USE DEF IInv
<1> DEFINE o == Head(local)
<1>1. local \in Seq(1 .. made) /\ Distinct(local) /\ local # << >> /\ local' = Tail(local)
    BY DEF Examine, PlaceInv
<1>2. /\ local' \in Seq(1 .. made) /\ Distinct(local') /\ o \in 1 .. made
      /\ In(o, local) /\ \A p : In(p, local') <=> In(p, local) /\ p # o
    BY <1>1, TailFacts
<1> HIDE DEF o
<1>3. ~ In(o, pool) /\ ~ In(o, still)
    BY <1>2 DEF PlaceInv
<1>4. made \in Nat /\ launched \in Nat /\ made <= launched /\ launched <= MaxLaunches
  <2>1. Cardinality({u \in Threads : tpc[u] = "enabled"}) \in Nat
      BY ConstantFacts
  <2> QED BY <2>1, ConstantFacts DEF TypeInv, CountInv
<1>5. o \in Objects /\ op[o] \in Ops
    BY <1>2, <1>4, ConstantFacts DEF TypeInv
<1>6. /\ op[o].launch \in 1 .. launched /\ op[o].stop = op[o].launch
      /\ op[o].start = op[o].launch /\ op[o].name = truth[op[o].launch]
    BY <1>2 DEF OpInv, Waiting
<1>7. Ready(op[o].stop) <=> op[o].launch \in done
    BY <1>4, <1>6 DEF Ready
<1> QED BY <1>2, <1>3, <1>5, <1>6, <1>7 DEF o

(* A launch that has finished is folded into the trace, once, and its      *)
(* object freed.                                                           *)
LEMMA ExamineReadyInv ==
    ASSUME IInv, Examine, Ready(op[Head(local)].stop)
    PROVE  IInv'
<1> USE DEF IInv
<1> DEFINE o == Head(local)
<1>1. /\ UNCHANGED << mgr, made, work, ppc, threadVars, gpuVars, flushing, op, hangs, still >>
      /\ trace' = Append(trace, op[o]) /\ pool' = Append(pool, o)
      /\ ppc \in {"drain", "finalDrain"}
    BY DEF Examine, Release
<1>2. /\ o \in 1 .. made /\ In(o, local) /\ ~ In(o, pool) /\ ~ In(o, still)
      /\ local' \in Seq(1 .. made) /\ Distinct(local')
      /\ \A p : In(p, local') <=> In(p, local) /\ p # o
      /\ op[o] \in Ops /\ op[o].launch \in done
      /\ op[o].stop = op[o].launch /\ op[o].start = op[o].launch
      /\ op[o].name = truth[op[o].launch]
    BY ExamineFacts
<1> HIDE DEF o
<1>3. /\ pool' \in Seq(1 .. made) /\ Distinct(pool')
      /\ \A p : In(p, pool') <=> In(p, pool) \/ p = o
  <2>1. pool \in Seq(1 .. made) /\ Distinct(pool)
      BY DEF PlaceInv
  <2>2. o \in 1 .. made /\ ~ In(o, pool) /\ pool' = Append(pool, o)
      BY <1>1, <1>2
  <2> QED BY <2>1, <2>2, AppendFacts
<1>4. trace \in Seq(Ops)
    BY DEF TypeInv
<1>5. /\ trace' \in Seq(Ops) /\ Len(trace') = Len(trace) + 1 /\ Len(trace) \in Nat
      /\ DOMAIN trace = 1 .. Len(trace) /\ DOMAIN trace' = 1 .. Len(trace')
      /\ \A i \in 1 .. Len(trace) : trace'[i] = trace[i]
      /\ trace'[Len(trace) + 1] = op[o]
    BY <1>1, <1>2, <1>4
<1>6. TypeInv' /\ CountInv' /\ CollInv' /\ PollInv'
    BY <1>1, <1>5 DEF TypeInv, CountInv, CollInv, PollInv, threadVars, gpuVars
<1>7. PlaceInv'
    BY <1>1, <1>2, <1>3 DEF PlaceInv, Held, threadVars
<1>8. OpInv'
    BY <1>1, <1>2 DEF OpInv, Waiting, threadVars, gpuVars
<1>9. \A l : Traced(l)' <=> Traced(l) \/ l = op[o].launch
    BY <1>5 DEF Traced
<1>10. ~ Traced(op[o].launch)
    BY <1>2 DEF TraceInv
<1>11. TraceIsRight'
  <2>1. ASSUME NEW i \in 1 .. Len(trace')
        PROVE  /\ trace'[i].launch \in done
               /\ trace'[i].start = trace'[i].launch
               /\ trace'[i].stop = trace'[i].launch
               /\ trace'[i].name = truth[trace'[i].launch]
    <3>1. CASE i \in 1 .. Len(trace)
        BY <1>5, <3>1 DEF TraceInv, TraceIsRight
    <3>2. CASE i = Len(trace) + 1
        BY <1>2, <1>5, <3>2
    <3> QED BY <1>5, <3>1, <3>2
  <2>2. ASSUME NEW i \in 1 .. Len(trace'), NEW j \in 1 .. Len(trace'),
               trace'[i].launch = trace'[j].launch
        PROVE  i = j
    <3>1. \A k \in 1 .. Len(trace) : trace'[k].launch # op[o].launch
        BY <1>5, <1>10 DEF Traced
    <3>2. CASE i \in 1 .. Len(trace) /\ j \in 1 .. Len(trace)
        BY <1>5, <2>2, <3>2 DEF TraceInv, TraceIsRight
    <3> QED BY <1>5, <2>2, <3>1, <3>2
  <2>3. UNCHANGED << done, truth >>
      BY <1>1 DEF gpuVars
  <2> QED BY <1>5, <2>1, <2>2, <2>3 DEF TraceIsRight
<1>12. TraceInv'
  <2>1. ASSUME NEW p \in 1 .. made, NEW l, l = op[p].launch, Traced(l)'
        PROVE  In(p, pool')
    <3>1. CASE Traced(l)
        BY <1>3, <2>1, <3>1 DEF TraceInv
    <3>2. CASE l = op[o].launch
        BY <1>2, <1>3, <2>1, <3>2 DEF OpInv
    <3> QED BY <1>9, <2>1, <3>1, <3>2
  <2>2. \A p \in 1 .. made : (\E i \in DOMAIN trace' : trace'[i].launch = op[p].launch)
            => In(p, pool')
      BY <2>1 DEF Traced
  <2> QED BY <1>1, <1>11, <2>2 DEF TraceInv, Traced
<1>13. HangInv'
    BY <1>1, HangFrame DEF gpuVars
<1>14. FlushInv'
  <2>1. \A l : QueuedIn(l, local) => QueuedIn(l, local)' \/ Traced(l)'
    <3>1. SUFFICES ASSUME NEW l, NEW p \in 1 .. made, In(p, local), op[p].launch = l
                   PROVE  QueuedIn(l, local)' \/ Traced(l)'
        BY DEF QueuedIn
    <3>2. CASE p = o
        BY <1>9, <3>1, <3>2
    <3>3. CASE p # o
        BY <1>1, <1>2, <3>1, <3>3 DEF QueuedIn
    <3> QED BY <3>2, <3>3
  <2>2. \A l : (Traced(l) => Traced(l)') /\ (QueuedIn(l, work) => QueuedIn(l, work)')
      BY <1>1, <1>9 DEF QueuedIn
  <2> QED BY <1>1, <2>1, <2>2 DEF FlushInv, gpuVars
<1> QED BY <1>6, <1>7, <1>8, <1>12, <1>13, <1>14

(* A launch that has not goes on waiting; the first look past the timeout  *)
(* reports it and marks the object.                                        *)
LEMMA ExaminePendingInv ==
    ASSUME IInv, Examine, ~ Ready(op[Head(local)].stop)
    PROVE  IInv'
<1> USE DEF IInv
<1> DEFINE o == Head(local)
<1>1. /\ UNCHANGED << mgr, made, work, ppc, threadVars, gpuVars, flushing, trace, pool >>
      /\ still' = Append(still, o)
      /\ ppc \in {"drain", "finalDrain"}
    BY DEF Examine
<1>2. \/ UNCHANGED << op, hangs >>
      \/ /\ IsHang(o) /\ op' = [op EXCEPT ![o] = [op[o] EXCEPT !.reported = TRUE]]
         /\ hangs' = Append(hangs, op[o].launch)
    BY DEF Examine
<1>3. /\ o \in 1 .. made /\ o \in Objects /\ In(o, local) /\ ~ In(o, still)
      /\ local' \in Seq(1 .. made) /\ Distinct(local')
      /\ \A p : In(p, local') <=> In(p, local) /\ p # o
      /\ op[o] \in Ops /\ op[o].launch \in 1 .. launched
      /\ op[o].launch \notin done /\ op[o].stop = op[o].launch
    BY ExamineFacts
<1> HIDE DEF o
<1>4. /\ still' \in Seq(1 .. made) /\ Distinct(still')
      /\ \A p : In(p, still') <=> In(p, still) \/ p = o
  <2>1. still \in Seq(1 .. made) /\ Distinct(still)
      BY DEF PlaceInv
  <2>2. o \in 1 .. made /\ ~ In(o, still) /\ still' = Append(still, o)
      BY <1>1, <1>3
  <2> QED BY <2>1, <2>2, AppendFacts
<1>5. /\ op' \in [Objects -> Ops]
      /\ \A p \in Objects :
            /\ op'[p].launch = op[p].launch /\ op'[p].name = op[p].name
            /\ op'[p].start = op[p].start /\ op'[p].stop = op[p].stop
            /\ op[p].reported => op'[p].reported
  <2>1. CASE UNCHANGED << op, hangs >>
      BY <2>1 DEF TypeInv
  <2>2. CASE op' = [op EXCEPT ![o] = [op[o] EXCEPT !.reported = TRUE]]
      BY <1>3, <2>2 DEF TypeInv, Ops
  <2> QED BY <1>2, <2>1, <2>2
<1>6. \A p \in 1 .. made : p \in Objects
  <2>1. Cardinality({u \in Threads : tpc[u] = "enabled"}) \in Nat
      BY ConstantFacts
  <2>2. made \in Nat /\ made <= MaxLaunches
      BY <2>1, ConstantFacts DEF TypeInv, CountInv
  <2> QED BY <2>2, ConstantFacts
<1>7. hangs' \in Seq(Nat) /\ HangInv'
  <2>1. CASE UNCHANGED << op, hangs >>
      BY <1>1, <2>1, HangFrame DEF TypeInv, gpuVars
  <2>2. CASE /\ IsHang(o) /\ op' = [op EXCEPT ![o] = [op[o] EXCEPT !.reported = TRUE]]
             /\ hangs' = Append(hangs, op[o].launch)
    <3>1. op[o].launch \in Nat /\ op[o].launch \in overdue /\ ~ op[o].reported
        BY <1>3, <2>2 DEF IsHang, Ops
    <3>2. hangs \in Seq(Nat) /\ Distinct(hangs) /\ ~ In(op[o].launch, hangs)
        BY <1>3, <3>1 DEF HangInv, TypeInv
    <3>3. /\ hangs' \in Seq(Nat) /\ Distinct(hangs')
          /\ \A l : In(l, hangs') <=> In(l, hangs) \/ l = op[o].launch
        BY <2>2, <3>1, <3>2, AppendFacts
    <3>4. \A i \in DOMAIN hangs' : hangs'[i] \in overdue
      <4>1. \A l : In(l, hangs) => l \in overdue
          BY DEF HangInv, In
      <4>2. \A i \in DOMAIN hangs' : In(hangs'[i], hangs')
          BY DEF In
      <4> QED BY <3>1, <3>3, <4>1, <4>2
    <3>5. op'[o].reported = TRUE
        BY <1>3, <2>2 DEF TypeInv, Ops
    <3>6. ASSUME NEW p \in 1 .. made, In(op'[p].launch, hangs') PROVE op'[p].reported
      <4>1. op'[p].launch = op[p].launch /\ (op[p].reported => op'[p].reported)
          BY <1>5, <1>6
      <4>2. CASE In(op[p].launch, hangs)
          BY <4>1, <4>2 DEF HangInv
      <4>3. CASE op[p].launch = op[o].launch
          BY <1>3, <3>5, <4>3 DEF OpInv
      <4> QED BY <3>3, <3>6, <4>1, <4>2, <4>3
    <3>7. overdue' = overdue /\ made' = made
        BY <1>1 DEF gpuVars
    <3> QED BY <3>3, <3>4, <3>6, <3>7 DEF HangInv
  <2> QED BY <1>2, <2>1, <2>2
<1>8. TypeInv' /\ CountInv' /\ CollInv' /\ PollInv'
    BY <1>1, <1>5, <1>7 DEF TypeInv, CountInv, CollInv, PollInv, threadVars, gpuVars
<1>9. PlaceInv'
    BY <1>1, <1>3, <1>4 DEF PlaceInv, Held, threadVars
<1>10. OpInv'
  <2>1. \A p \in 1 .. made :
           /\ op'[p].launch = op[p].launch /\ op'[p].name = op[p].name
           /\ op'[p].start = op[p].start /\ op'[p].stop = op[p].stop
      BY <1>5, <1>6
  <2>2. \A p : Waiting(p)' <=> Waiting(p)
      BY <1>1, <1>3, <1>4 DEF Waiting
  <2>3. \A u \in Threads : tpc[u] = "stopped" => held[u] \in 1 .. made
    <3>1. \A u \in Threads : tpc[u] = "stopped" => held[u] # 0
        BY DEF OpInv
    <3> QED BY <3>1 DEF PlaceInv, TypeInv
  <2>4. UNCHANGED << made, launched, truth, tpc, held >>
      BY <1>1 DEF threadVars, gpuVars
  <2> QED BY <2>1, <2>2, <2>3, <2>4 DEF OpInv
<1>11. \A p \in 1 .. made : op'[p].launch = op[p].launch
    BY <1>5, <1>6
<1>12. TraceInv'
    BY <1>1, <1>11 DEF TraceInv, TraceIsRight, Traced, gpuVars
<1>13. FlushInv'
  <2>1. ASSUME NEW l \in done, QueuedIn(l, local) PROVE QueuedIn(l, local)'
    <3>1. PICK p \in 1 .. made : In(p, local) /\ op[p].launch = l
        BY <2>1 DEF QueuedIn
    <3>2. p # o
        BY <1>3, <3>1
    <3> QED BY <1>1, <1>3, <1>11, <3>1, <3>2 DEF QueuedIn
  <2>2. \A l : (Traced(l) => Traced(l)') /\ (QueuedIn(l, work) => QueuedIn(l, work)')
      BY <1>1, <1>11 DEF QueuedIn, Traced
  <2> QED BY <1>1, <2>1, <2>2 DEF FlushInv, gpuVars
<1> QED BY <1>7, <1>8, <1>9, <1>10, <1>12, <1>13

(* What is still pending goes back into the queue.                         *)
LEMMA PushBackInv ==
    ASSUME IInv, PushBack
    PROVE  IInv'
<1> USE DEF IInv
<1>1. /\ UNCHANGED << mgr, pool, made, op, statVars, local, threadVars, gpuVars, flushing >>
      /\ ppc \in {"drain", "finalDrain"} /\ local = << >>
      /\ work' = work \o still /\ still' = << >>
      /\ ppc' = IF ppc = "drain" THEN "loop" ELSE "off"
    BY DEF PushBack, KeepPending
<1>2. \A p : ~ In(p, local) /\ ~ In(p, still')
    BY <1>1, EmptyFacts
<1>3. /\ work \in Seq(1 .. made) /\ still \in Seq(1 .. made)
      /\ Distinct(work) /\ Distinct(still)
      /\ \A p \in 1 .. made : ~ (In(p, work) /\ In(p, still))
    BY DEF PlaceInv
<1>4. /\ work' \in Seq(1 .. made) /\ Distinct(work')
      /\ \A p : In(p, work') <=> In(p, work) \/ In(p, still)
    BY <1>1, <1>3, ConcatFacts
<1>5. still' \in Seq(1 .. made) /\ Distinct(still')
    BY <1>1, EmptyFacts
<1>6. TypeInv' /\ CountInv' /\ CollInv' /\ PollInv'
    BY <1>1 DEF TypeInv, CountInv, CollInv, PollInv, statVars, threadVars, gpuVars
<1>7. PlaceInv'
    BY <1>1, <1>2, <1>4, <1>5 DEF PlaceInv, Held, threadVars
<1>8. OpInv'
    BY <1>1, <1>2, <1>4 DEF OpInv, Waiting, threadVars, gpuVars
<1>9. TraceInv' /\ HangInv'
    BY <1>1, TraceFrame, HangFrame DEF statVars, gpuVars
<1>10. FlushInv'
  <2>1. \A l : /\ QueuedIn(l, work) => QueuedIn(l, work)'
               /\ ~ QueuedIn(l, local)
               /\ Traced(l) => Traced(l)'
      BY <1>1, <1>2, <1>4 DEF QueuedIn, Traced, statVars
  <2> QED BY <1>1, <2>1 DEF FlushInv, gpuVars
<1> QED BY <1>6, <1>7, <1>8, <1>9, <1>10

(* stop() while the poller loops or drains.                                *)
LEMMA StopInv ==
    ASSUME IInv, Stop
    PROVE  IInv'
<1> USE DEF IInv
<1>1. /\ UNCHANGED << queueVars, op, statVars, pollVars, threadVars, gpuVars >>
      /\ mgr = "running" /\ mgr' = "stopped"
      /\ flushing' = {op[work[i]].launch : i \in DOMAIN work} \cap done
    BY DEF Stop
<1>2. TypeInv' /\ CountInv' /\ CollInv' /\ PollInv'
    BY <1>1 DEF TypeInv, CountInv, CollInv, PollInv, queueVars, statVars, pollVars,
       threadVars, gpuVars
<1>3. PlaceInv' /\ OpInv' /\ TraceInv' /\ HangInv'
    BY <1>1, PlaceFrame, OpFrame, TraceFrame, HangFrame
       DEF queueVars, statVars, pollVars, threadVars, gpuVars
<1>4. FlushInv'
  <2>1. ppc' \in {"loop", "drain"}
      BY <1>1 DEF PollInv, pollVars
  <2>2. ASSUME NEW l \in flushing' PROVE l \in done /\ QueuedIn(l, work)
    <3>1. PICK i \in DOMAIN work : l = op[work[i]].launch
        BY <1>1, <2>2
    <3>2. In(work[i], work)
        BY <3>1 DEF In
    <3>3. work[i] \in 1 .. made
        BY <3>2, InSeq DEF PlaceInv
    <3> QED BY <1>1, <2>2, <3>1, <3>2, <3>3 DEF QueuedIn
  <2>3. \A l : (QueuedIn(l, work) => QueuedIn(l, work)') /\ done' = done
      BY <1>1 DEF QueuedIn, queueVars, gpuVars
  <2> QED BY <2>1, <2>2, <2>3 DEF FlushInv
<1> QED BY <1>2, <1>3, <1>4

(* Nothing has been launched, and nothing is anywhere.                     *)
LEMMA InitInv == Init => IInv
<1> SUFFICES ASSUME Init PROVE IInv
    OBVIOUS
<1>1. FreshOp \in Ops
    BY DEF FreshOp, Ops, Names
<1>2. TypeInv
    BY <1>1, ConstantFacts DEF Init, TypeInv, Names
<1>3. CountInv
  <2>1. {u \in Threads : tpc[u] = "enabled"} = {}
      BY DEF Init
  <2>2. Cardinality({u \in Threads : tpc[u] = "enabled"}) = 0
      BY <2>1, FS_EmptySet
  <2> QED BY <2>2, ConstantFacts DEF Init, CountInv
<1>4. CollInv /\ PollInv
    BY DEF Init, CollInv, PollInv, Innermost
<1>5. PlaceInv
    BY EmptyFacts DEF Init, PlaceInv
<1>6. OpInv /\ TraceInv /\ HangInv /\ FlushInv
    BY EmptyFacts DEF Init, OpInv, TraceInv, TraceIsRight, HangInv, FlushInv
<1> QED BY <1>2, <1>3, <1>4, <1>5, <1>6 DEF IInv

(* One case for each action.                                               *)
LEMMA NextInv == IInv /\ [Next]_vars => IInv'
<1> SUFFICES ASSUME IInv, [Next]_vars PROVE IInv'
    OBVIOUS
<1>1. ASSUME NEW t \in Threads, NEW c \in Colls, CollBegin(t, c) PROVE IInv'
    BY <1>1, CollBeginInv
<1>2. ASSUME NEW t \in Threads, CollEnd(t) \/ LaunchBegin(t) \/ ThreadStep(t)
      PROVE  IInv'
    BY <1>2, CollEndInv, LaunchBeginInv, AcquireInv, RecordStopInv, EnqueueInv
       DEF ThreadStep
<1>3. ASSUME NEW l \in Launches, Finish(l) \/ Overdue(l) PROVE IInv'
    BY <1>3, FinishInv, OverdueInv
<1>4. CASE Poll
    BY <1>4, SwapInv, LeaveLoopInv, ExamineReadyInv, ExaminePendingInv, PushBackInv
       DEF Poll
<1>5. CASE Stop
    BY <1>5, StopInv
<1>6. CASE UNCHANGED vars
  <2>1. /\ UNCHANGED << mgr, pool, made, work, op, trace, hangs, ppc, local, still >>
        /\ UNCHANGED << tpc, held, active, saved, inside, launched, truth, done >>
        /\ UNCHANGED << overdue, flushing >>
      BY <1>6 DEF vars, queueVars, statVars, pollVars, threadVars, gpuVars
  <2>2. TypeInv' /\ CountInv' /\ CollInv' /\ PollInv'
      BY <2>1 DEF IInv, TypeInv, CountInv, CollInv, PollInv
  <2>3. PlaceInv' /\ OpInv' /\ TraceInv' /\ HangInv' /\ FlushInv'
      BY <2>1, PlaceFrame, OpFrame, TraceFrame, HangFrame, FlushFrame DEF IInv
  <2> QED BY <2>2, <2>3 DEF IInv
<1> QED BY <1>1, <1>2, <1>3, <1>4, <1>5, <1>6 DEF Next

-----------------------------------------------------------------------------
(* The theorems.                                                           *)

(* The invariant holds in every reachable state of threads, poller, pool   *)
(* and queue.                                                              *)
THEOREM IInvInductive == Spec => []IInv
<1> QED BY InitInv, NextInv, PTL DEF Spec

(* The number of i with s[i] = o, where s has no element twice.            *)
LEMMA CountDistinct ==
    ASSUME NEW S, NEW s \in Seq(S), Distinct(s), NEW o
    PROVE  Cardinality({i \in DOMAIN s : s[i] = o}) = IF In(o, s) THEN 1 ELSE 0
<1>1. CASE In(o, s)
  <2>1. PICK k \in DOMAIN s : s[k] = o
      BY <1>1 DEF In
  <2>2. {i \in DOMAIN s : s[i] = o} = {k}
      BY <2>1 DEF Distinct
  <2> QED BY <1>1, <2>2, FS_Singleton
<1>2. CASE ~ In(o, s)
  <2>1. {i \in DOMAIN s : s[i] = o} = {}
      BY <1>2 DEF In
  <2> QED BY <1>2, <2>1, FS_EmptySet
<1> QED BY <1>1, <1>2

(* The places of an object, counted.                                       *)
LEMMA CountPlaces == PlaceInv /\ made \in Nat => OpsInOnePlace
<1> SUFFICES ASSUME PlaceInv, made \in Nat, NEW o \in 1 .. made
             PROVE  Holders(o) = 1
    BY DEF OpsInOnePlace
<1>1. /\ pool \in Seq(1 .. made) /\ work \in Seq(1 .. made)
      /\ local \in Seq(1 .. made) /\ still \in Seq(1 .. made)
      /\ Distinct(pool) /\ Distinct(work) /\ Distinct(local) /\ Distinct(still)
    BY DEF PlaceInv
<1>2. \A p \in 1 .. made :
          /\ ~ (In(p, pool) /\ In(p, work))
          /\ ~ ((In(p, pool) \/ In(p, work)) /\ In(p, local))
          /\ ~ ((In(p, pool) \/ In(p, work) \/ In(p, local)) /\ In(p, still))
    BY DEF PlaceInv
<1> DEFINE a == pool \o work
           b == a \o local
<1>3. /\ a \in Seq(1 .. made) /\ Distinct(a)
      /\ \A p : In(p, a) <=> In(p, pool) \/ In(p, work)
    BY <1>1, <1>2, ConcatFacts
<1> HIDE DEF a
<1>4. /\ b \in Seq(1 .. made) /\ Distinct(b)
      /\ \A p : In(p, b) <=> In(p, pool) \/ In(p, work) \/ In(p, local)
  <2>1. \A p \in 1 .. made : ~ (In(p, a) /\ In(p, local))
      BY <1>2, <1>3
  <2>2. /\ b \in Seq(1 .. made) /\ Distinct(b)
        /\ \A p : In(p, b) <=> In(p, a) \/ In(p, local)
      BY <1>1, <1>3, <2>1, ConcatFacts
  <2> HIDE DEF b
  <2> QED BY <1>3, <2>2
<1> HIDE DEF b
<1>5. /\ b \o still \in Seq(1 .. made) /\ Distinct(b \o still)
      /\ \A p : In(p, b \o still) <=> In(p, b) \/ In(p, still)
  <2>1. \A p \in 1 .. made : ~ (In(p, b) /\ In(p, still))
      BY <1>2, <1>4
  <2> QED BY <1>1, <1>4, <2>1, ConcatFacts
<1>6. Places = b \o still
    BY DEF Places, a, b
<1>7. /\ Places \in Seq(1 .. made) /\ Distinct(Places)
      /\ In(o, Places) <=> In(o, b) \/ In(o, still)
    BY <1>5, <1>6
<1>8. In(o, Places) <=> ~ Held(o)
    BY <1>4, <1>7 DEF PlaceInv
<1>9. Cardinality({i \in DOMAIN Places : Places[i] = o}) = IF In(o, Places) THEN 1 ELSE 0
    BY <1>7, CountDistinct
<1>10. Cardinality({t \in Threads : held[t] = o}) = IF Held(o) THEN 1 ELSE 0
  <2>1. CASE Held(o)
    <3>1. PICK u \in Threads : held[u] = o
        BY <2>1 DEF Held
    <3>2. {t \in Threads : held[t] = o} = {u}
        BY <3>1 DEF PlaceInv
    <3> QED BY <2>1, <3>2, FS_Singleton
  <2>2. CASE ~ Held(o)
    <3>1. {t \in Threads : held[t] = o} = {}
        BY <2>2 DEF Held
    <3> QED BY <2>2, <3>1, FS_EmptySet
  <2> QED BY <2>1, <2>2
<1>11. CASE Held(o)
    BY <1>8, <1>9, <1>10, <1>11 DEF Holders
<1>12. CASE ~ Held(o)
    BY <1>8, <1>9, <1>10, <1>12 DEF Holders
<1> QED BY <1>11, <1>12

(* An event pair is in one place, whatever the poller, stop() and any      *)
(* number of launching threads do: acquire(), release() and the work queue *)
(* of the hook neither share nor leak one.                                 *)
THEOREM OnePlace == Spec => []OpsInOnePlace
<1>1. IInv => OpsInOnePlace
    BY CountPlaces DEF IInv, TypeInv
<1> QED BY <1>1, IInvInductive, PTL

(* Every entry fold() makes is a finished launch, under its collective,    *)
(* timed by its own events, and made once.                                 *)
THEOREM TraceRight == Spec => []TraceIsRight
<1>1. IInv => TraceIsRight
    BY DEF IInv, TraceInv
<1> QED BY <1>1, IInvInductive, PTL

(* drain_once() reports a hang once, for a launch past the timeout.        *)
THEOREM HangsOnce == Spec => []HangsReportedOnce
<1>1. IInv => HangsReportedOnce
    BY DEF IInv, HangInv, Distinct, HangsReportedOnce
<1> QED BY <1>1, IInvInductive, PTL

(* The final flush of poll_loop() loses no launch that was queued and      *)
(* finished when stop() began.                                             *)
THEOREM FlushComplete == Spec => []FlushedAtStop
<1>1. IInv => FlushedAtStop
    BY DEF IInv, FlushInv, Traced, FlushedAtStop
<1> QED BY <1>1, IInvInductive, PTL
=============================================================================
