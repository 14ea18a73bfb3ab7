-------------------------- MODULE RendezvousProofs --------------------------
(***************************************************************************)
(* Proofs about Rendezvous, for every set of nodes, every configuration    *)
(* and every number of rounds and faults.                                  *)
(***************************************************************************)
EXTENDS Rendezvous, FiniteSetTheorems, WellFoundedInduction, TLAPS

-----------------------------------------------------------------------------
(* The inductive invariant.                                                *)

(* What the master holds against a node is about an agent that has ended:  *)
(* get_comm_world throws no agent that polls out of the waiting list.      *)
ReportedInv == \A n \in Nodes : n \in reported => pc[n] = "exited"

(* The history sees every node a standing round has taken.                 *)
TakenInv == rdzvNodes \subseteq taken

(* A standing round was counted, and is large enough.                      *)
RoundInv ==
    rdzvNodes # {} =>
        round > 0 /\ Cardinality(rdzvNodes) >= Units(params.min)

(* A world is of a round that was completed, and holds its rank.           *)
WorldInv ==
    \A n \in Nodes :
        /\ world[n].round <= round
        /\ world[n].round > 0 =>
              /\ n \in world[n].nodes
              /\ Cardinality(world[n].nodes) >= Units(params.min)
        /\ Given(n) => world[n].round > 0

(* The worlds of a round are one world, and of a standing round it is the  *)
(* one the master would give now.  Worlds that ranks no longer use are     *)
(* included: the rank's next poll may find others that still do.           *)
AgreeInv ==
    /\ \A m, n \in Nodes :
           world[m].round = world[n].round => world[m].nodes = world[n].nodes
    /\ rdzvNodes # {} =>
           \A n \in Nodes : world[n].round = round => world[n].nodes = rdzvNodes

IInv ==
    /\ TypeOK /\ ReportedInv /\ TakenInv /\ RoundInv /\ WorldInv /\ AgreeInv
    /\ LostOnlyAfterRound /\ RoundTakesAllUnits

-----------------------------------------------------------------------------
(* Arithmetic of the units, and the lowest ranks of a set.                 *)

(* The whole units in k nodes.                                             *)
LEMMA UnitsAre ==
    ASSUME NEW k \in Nat, params \in Params
    PROVE  /\ Units(k) \in Nat
           /\ Units(k) <= k
           /\ k - Units(k) < params.unit
           /\ Units(k) % params.unit = 0
<1> DEFINE u == params.unit
           q == k \div u
<1>1. u \in Nat \ {0}
    BY RdzvAssumption
<1> HIDE DEF u
<1>2. q \in Nat /\ q * u <= k /\ k - q * u < u
    BY <1>1
<1>3. Units(k) = q * u
    BY DEF Units, u
<1> HIDE DEF q
<1>4. q * u \in Nat
    BY <1>1, <1>2
<1>5. (q * u) % u = 0
    BY <1>1, <1>2
<1> QED BY <1>2, <1>3, <1>4, <1>5 DEF u

(* More nodes never make fewer units.                                      *)
LEMMA UnitsMonotone ==
    ASSUME NEW j \in Nat, NEW k \in Nat, j <= k, params \in Params
    PROVE  Units(j) <= Units(k)
<1> DEFINE u == params.unit
           p == j \div u
           q == k \div u
<1>1. u \in Nat \ {0}
    BY RdzvAssumption
<1>2. Units(j) = p * u /\ Units(k) = q * u
    BY DEF Units
<1> HIDE DEF u
<1>3. p \in Nat /\ q \in Nat /\ p <= q
    BY <1>1
<1> HIDE DEF p, q
<1>4. p * u <= q * u
    BY <1>1, <1>3
<1> QED BY <1>2, <1>4

(* A set of natural numbers that is not empty has a least element.         *)
LEMMA LeastElement ==
    ASSUME NEW S \in SUBSET Nat, S # {}
    PROVE  \E x \in S : \A y \in S : x <= y
<1> DEFINE R == {ss \in Nat \X Nat : ss[1] < ss[2]}
<1>1. IsWellFoundedOn(R, Nat)
    BY NatLessThanWellFounded, Zenon DEF OpToRel
<1> HIDE DEF R
<1>2. PICK x \in S : \A y \in S : ~(<<y, x>> \in R)
    BY <1>1, WFMin
<1>3. ASSUME NEW y \in S PROVE x <= y
  <2>1. x \in Nat /\ y \in Nat
      OBVIOUS
  <2>2. <<y, x>> \in R <=> y < x
    <3> DEFINE p == <<y, x>>
    <3>1. p \in Nat \X Nat /\ p[1] = y /\ p[2] = x
        BY <2>1
    <3>2. p \in R <=> p[1] < p[2]
        BY <3>1, Zenon DEF R
    <3> QED BY <3>1, <3>2
  <2> QED BY <1>2, <2>1, <2>2
<1> QED BY <1>3

Rank(S, n) == Cardinality({m \in S : m < n})

(* A higher rank has more ranks below it.                                  *)
LEMMA RankOrder ==
    ASSUME NEW S \in SUBSET Nat, IsFiniteSet(S), NEW x \in S, NEW y \in S, x < y
    PROVE  Rank(S, x) < Rank(S, y)
<1> DEFINE A == {m \in S : m < x}
           B == {m \in S : m < y}
<1>1. A \cup {x} \subseteq B /\ x \notin A
  <2>1. x \in Nat /\ y \in Nat /\ \A m \in S : m \in Nat
      OBVIOUS
  <2>2. \A m \in A : m \in B
      BY <2>1
  <2>3. x \in B /\ x \notin A
      BY <2>1
  <2> QED BY <2>2, <2>3
<1>2. IsFiniteSet(A) /\ IsFiniteSet(B)
    BY FS_Subset
<1>3. Cardinality(A) \in Nat /\ Cardinality(B) \in Nat
    BY <1>2, FS_CardinalityType
<1> HIDE DEF A, B
<1>4. Cardinality(A \cup {x}) = Cardinality(A) + 1
    BY <1>1, <1>2, FS_AddElement
<1>5. Cardinality(A \cup {x}) <= Cardinality(B)
    BY <1>1, <1>2, FS_Subset
<1>6. Cardinality(A) < Cardinality(B)
    BY <1>3, <1>4, <1>5
<1> QED BY <1>6 DEF Rank, A, B

(* A rank is a natural number.                                             *)
LEMMA RankType ==
    ASSUME NEW S \in SUBSET Nat, IsFiniteSet(S), NEW x
    PROVE  Rank(S, x) \in Nat
<1>1. IsFiniteSet({m \in S : m < x})
    BY FS_Subset
<1> QED BY <1>1, FS_CardinalityType DEF Rank

(* The elements with fewer than j below them are j many: by induction on   *)
(* j, as the least counterexample.                                         *)
LEMMA LowestRanks ==
    ASSUME NEW S \in SUBSET Nat, IsFiniteSet(S), NEW j \in 0 .. Cardinality(S)
    PROVE  Cardinality({n \in S : Rank(S, n) < j}) = j
<1> DEFINE L(i) == {n \in S : Rank(S, n) < i}
           Bad == {i \in 0 .. Cardinality(S) : Cardinality(L(i)) # i}
<1>1. Cardinality(S) \in Nat
    BY FS_CardinalityType
<1>2. \A n \in S : Rank(S, n) \in Nat
    BY RankType
<1> SUFFICES ASSUME Bad # {} PROVE FALSE
    OBVIOUS
<1>3. Bad \in SUBSET Nat
    BY <1>1
<1> HIDE DEF Bad
<1>4. PICK i \in Bad : \A k \in Bad : i <= k
    BY <1>3, LeastElement
<1>5. i \in 0 .. Cardinality(S) /\ Cardinality(L(i)) # i
    BY <1>4 DEF Bad
<1>6. i # 0
  <2>1. \A n \in S : ~(Rank(S, n) < 0)
      BY <1>2
  <2>2. L(0) = {}
      BY <2>1, Zenon
  <2> HIDE DEF L
  <2> QED BY <1>5, <2>2, FS_EmptySet
<1>7. i - 1 \in 0 .. Cardinality(S) /\ i \in Nat /\ i <= Cardinality(S)
    BY <1>1, <1>5, <1>6
<1>8. Cardinality(L(i - 1)) = i - 1
  <2>1. i - 1 \notin Bad
      BY <1>4, <1>7
  <2> QED BY <1>7, <2>1 DEF Bad
<1>9. L(i - 1) \in SUBSET S /\ IsFiniteSet(L(i - 1))
    BY FS_Subset
<1>10. S \ L(i - 1) # {}
  <2>1. SUFFICES ASSUME S = L(i - 1) PROVE FALSE
      BY <1>9
  <2>2. Cardinality(S) = i - 1
      BY <1>8, <2>1
  <2> QED BY <1>7, <2>2
<1>11. PICK x \in S \ L(i - 1) : \A y \in S \ L(i - 1) : x <= y
    BY <1>10, LeastElement
<1>12. Rank(S, x) \in Nat /\ Rank(S, x) >= i - 1
    BY <1>2, <1>7, <1>11
<1>13. \A y \in S : y < x <=> y \in L(i - 1)
  <2> SUFFICES ASSUME NEW y \in S PROVE y < x <=> y \in L(i - 1)
      OBVIOUS
  <2>1. ASSUME y < x PROVE y \in L(i - 1)
      BY <1>11, <2>1
  <2>2. ASSUME y \in L(i - 1), ~(y < x) PROVE FALSE
    <3>1. y # x /\ x < y
        BY <1>11, <2>2
    <3>2. Rank(S, x) < Rank(S, y)
        BY <1>11, <3>1, RankOrder
    <3>3. Rank(S, y) < i - 1 /\ Rank(S, y) \in Nat
        BY <1>2, <2>2
    <3> QED BY <1>7, <1>12, <3>2, <3>3
  <2> QED BY <2>1, <2>2
<1>14. {m \in S : m < x} = L(i - 1)
    BY <1>13
<1>15. Rank(S, x) = i - 1
    BY <1>8, <1>14 DEF Rank
<1>16. L(i) = L(i - 1) \cup {x}
  <2>1. ASSUME NEW y \in L(i) PROVE y \in L(i - 1) \cup {x}
    <3>1. y \in S /\ Rank(S, y) \in Nat /\ Rank(S, y) < i
        BY <1>2, <2>1
    <3>2. SUFFICES ASSUME y \notin L(i - 1), y # x PROVE FALSE
        OBVIOUS
    <3>3. x < y
        BY <1>11, <3>1, <3>2
    <3>4. Rank(S, x) < Rank(S, y)
        BY <1>11, <3>1, <3>3, RankOrder
    <3> QED BY <1>7, <1>15, <3>1, <3>4
  <2>2. x \in L(i)
      BY <1>7, <1>11, <1>15
  <2>3. ASSUME NEW y \in L(i - 1) PROVE y \in L(i)
      BY <1>2, <1>7, <2>3
  <2> QED BY <2>1, <2>2, <2>3
<1>17. Cardinality(L(i)) = i
  <2> DEFINE P == L(i - 1)
  <2>1. IsFiniteSet(P) /\ x \notin P
      BY <1>9, <1>11
  <2> HIDE DEF L, P
  <2>2. Cardinality(P \cup {x}) = Cardinality(P) + 1
      BY <2>1, FS_AddElement
  <2> QED BY <1>7, <1>8, <1>16, <2>2 DEF P
<1> QED BY <1>5, <1>17

-----------------------------------------------------------------------------
(* What the manager's methods do.                                          *)

(* The ranks are natural numbers: the job has at most max nodes.           *)
LEMMA NodesAreRanks ==
    ASSUME params \in Params
    PROVE  Nodes \in SUBSET Nat /\ IsFiniteSet(Nodes)
BY RdzvAssumption

(* A completed round takes whole units, at least those of min_nodes, and   *)
(* leaves less than one.                                                   *)
LEMMA ChosenAre ==
    ASSUME params \in Params, NEW W \in SUBSET Nodes, Chosen(W) # {}
    PROVE  /\ Chosen(W) \in SUBSET W
           /\ Cardinality(Chosen(W)) >= Units(params.min)
           /\ Cardinality(Chosen(W)) % params.unit = 0
           /\ Cardinality(W \ Chosen(W)) < params.unit
<1> DEFINE k == Cardinality(W)
<1>1. W \in SUBSET Nat /\ IsFiniteSet(W)
    BY NodesAreRanks, FS_Subset
<1>2. k \in Nat
    BY <1>1, FS_CardinalityType
<1>3. /\ params.min \in Nat /\ params.max \in Nat /\ params.unit \in Nat \ {0}
      /\ params.min <= params.max /\ params.max % params.unit = 0
    BY RdzvAssumption
<1>4. Units(params.min) \in Nat /\ Units(params.min) <= params.min
    BY <1>3, UnitsAre
<1>5. CASE k = params.max
  <2>1. Chosen(W) = W
      BY <1>5 DEF Chosen
  <2>2. W \ Chosen(W) = {} /\ Cardinality({}) = 0
      BY <2>1, FS_EmptySet
  <2> QED BY <1>3, <1>4, <1>5, <2>1, <2>2
<1>6. CASE k # params.max
  <2>1. Enough(W) /\ Chosen(W) = {n \in W : Rank(W, n) < Units(k)}
      BY <1>6 DEF Chosen, Rank
  <2>2. Units(k) \in 0 .. k /\ k - Units(k) < params.unit
          /\ Units(k) % params.unit = 0
      BY <1>2, UnitsAre
  <2>3. Cardinality(Chosen(W)) = Units(k)
      BY <1>1, <2>1, <2>2, LowestRanks
  <2>4. Units(params.min) <= Units(k)
      BY <1>2, <1>3, <2>1, UnitsMonotone DEF Enough
  <2>5. Chosen(W) \in SUBSET W
      BY <2>1
  <2>6. W \cap Chosen(W) = Chosen(W)
      BY <2>5
  <2>7. Cardinality(W \ Chosen(W)) = k - Units(k)
      BY <1>1, <2>3, <2>6, FS_Difference
  <2> QED BY <2>2, <2>3, <2>4, <2>5, <2>7
<1> QED BY <1>5, <1>6

(* The part of the invariant that is about the manager alone.              *)
ManagerInv ==
    /\ waiting \in SUBSET Nodes /\ rdzvNodes \in SUBSET Nodes
    /\ latest \in SUBSET Nodes /\ taken \in SUBSET Nodes
    /\ round \in 0 .. MaxRounds
    /\ params \in Params /\ quiet \in BOOLEAN
    /\ TakenInv /\ RoundInv /\ RoundTakesAllUnits

(* Nodes the manager knows, or has taken before.                           *)
Accounted == waiting \cup rdzvNodes \cup taken

(* The invariant includes the manager's part.                              *)
LEMMA IInvManager == IInv => ManagerInv
BY DEF IInv, TypeOK, ManagerInv

(* A join forgets the standing round, but none of the nodes it took.       *)
LEMMA JoinStep ==
    ASSUME ManagerInv, NEW n \in Nodes, join_rendezvous(n)
    PROVE  /\ ManagerInv'
           /\ n \in waiting' /\ Accounted \subseteq Accounted'
           /\ round' = round /\ params' = params
           /\ rdzvNodes' \in {rdzvNodes, {}}
<1>1. CASE n \in waiting
  <2>1. UNCHANGED manager
      BY <1>1 DEF join_rendezvous
  <2> QED BY <1>1, <2>1
          DEF manager, ManagerInv, TakenInv, RoundInv, RoundTakesAllUnits,
              Accounted, Units
<1>2. CASE n \notin waiting
  <2>1. /\ waiting' = waiting \union {n} /\ rdzvNodes' = {} /\ quiet' = FALSE
        /\ taken' = taken \ {n}
        /\ UNCHANGED << latest, round, params >>
      BY <1>2 DEF join_rendezvous
  <2> QED BY <2>1
          DEF ManagerInv, TakenInv, RoundInv, RoundTakesAllUnits, Accounted
<1> QED BY <1>1, <1>2

(* get_comm_world drops only nodes that reported their failure, and counts *)
(* every round it completes.                                               *)
LEMMA GetCommWorldStep ==
    ASSUME ManagerInv, get_comm_world
    PROVE  /\ ManagerInv'
           /\ Accounted \ reported \subseteq Accounted'
           /\ params' = params
           /\ \/ rdzvNodes' = rdzvNodes /\ round' = round
              \/ rdzvNodes' # {} /\ round' = round + 1
<1> DEFINE W == waiting \ reported
<1>1. CASE rdzvNodes # {}
  <2>1. UNCHANGED manager
      BY <1>1 DEF get_comm_world
  <2> QED BY <2>1
          DEF manager, ManagerInv, TakenInv, RoundInv, RoundTakesAllUnits,
              Accounted, Units
<1>2. CASE rdzvNodes = {} /\ (Chosen(W) = {} \/ round = MaxRounds)
  <2>1. /\ waiting' = W
        /\ UNCHANGED << rdzvNodes, latest, round, params, quiet, taken >>
      BY <1>2 DEF get_comm_world
  <2> QED BY <1>2, <2>1
          DEF ManagerInv, TakenInv, RoundInv, RoundTakesAllUnits, Accounted
<1>3. CASE rdzvNodes = {} /\ Chosen(W) # {} /\ round # MaxRounds
  <2> DEFINE C == Chosen(W)
  <2>1. /\ rdzvNodes' = C /\ latest' = C /\ waiting' = W \ C /\ quiet' = TRUE
        /\ round' = round + 1 /\ taken' = taken \union C /\ params' = params
      BY <1>3 DEF get_comm_world, ExtraNodes, NextRound
  <2>2. W \in SUBSET Nodes /\ params \in Params
      BY DEF ManagerInv
  <2>3. /\ C \in SUBSET W /\ C # {}
        /\ Cardinality(C) >= Units(params.min)
        /\ Cardinality(C) % params.unit = 0
        /\ Cardinality(W \ C) < params.unit
      BY <1>3, <2>2, ChosenAre
  <2>4. round' \in 0 .. MaxRounds /\ round' > 0
      BY <1>3, <2>1, RdzvAssumption DEF ManagerInv
  <2>5. Units(params.min)' = Units(params.min)
      BY <2>1 DEF Units
  <2> HIDE DEF C, W
  <2>6. RoundInv' /\ RoundTakesAllUnits' /\ TakenInv'
      BY <2>1, <2>3, <2>4, <2>5 DEF RoundInv, RoundTakesAllUnits, TakenInv
  <2>7. ManagerInv'
      BY <2>1, <2>2, <2>3, <2>4, <2>6 DEF ManagerInv
  <2>8. Accounted \ reported \subseteq Accounted'
      BY <1>3, <2>1, <2>3 DEF Accounted, W
  <2> QED BY <2>1, <2>3, <2>7, <2>8
<1> QED BY <1>1, <1>2, <1>3

-----------------------------------------------------------------------------
(* Every step preserves the invariant.                                     *)

(* The part of the invariant that is about the agents.                     *)
AgentInv ==
    /\ reported \in SUBSET Nodes /\ published \in SUBSET (1 .. MaxRounds)
    /\ pc \in [Nodes -> States]
    /\ world \in [Nodes -> [round : 0 .. MaxRounds, nodes : SUBSET Nodes]]
    /\ errs \in [Nodes -> 0 .. MaxErrors - 1]
    /\ faults \in 0 .. MaxFaults
    /\ ReportedInv /\ WorldInv /\ AgreeInv /\ LostOnlyAfterRound

(* The invariant is a part about the manager and a part about the agents.  *)
LEMMA IInvParts ==
    /\ IInv <=> ManagerInv /\ AgentInv
    /\ IInv' <=> ManagerInv' /\ AgentInv'
BY DEF IInv, TypeOK, ManagerInv, AgentInv

(* A step that leaves the manager alone keeps its part.                    *)
LEMMA ManagerUnchanged ==
    ASSUME ManagerInv, UNCHANGED manager
    PROVE  ManagerInv' /\ Accounted' = Accounted
BY DEF manager, ManagerInv, TakenInv, RoundInv, RoundTakesAllUnits, Accounted,
       Units

(* The bound on faults holds.                                              *)
LEMMA FaultType ==
    ASSUME faults \in 0 .. MaxFaults, Fault
    PROVE  faults' \in 0 .. MaxFaults
BY RdzvAssumption DEF Fault

(* Steps that leave the worlds alone: no agent but n moves, n gets no      *)
(* world by moving and no node that still polls is forgotten, and the      *)
(* round stands or is forgotten.                                           *)
LEMMA WorldsKept ==
    ASSUME AgentInv, ManagerInv', NEW n \in Nodes, NEW to \in States,
           pc' = [pc EXCEPT ![n] = to], world' = world,
           to \in {"address", "running"} => Given(n),
           to = "polling" => n \in Accounted',
           reported' \in SUBSET Nodes,
           reported' \ {n} \subseteq reported, n \in reported' => to = "exited",
           Accounted \ (reported \cup {n}) \subseteq Accounted',
           round' = round, params' = params,
           rdzvNodes' \in {rdzvNodes, {}}
    PROVE  /\ pc' \in [Nodes -> States]
           /\ world' \in [Nodes -> [round : 0 .. MaxRounds, nodes : SUBSET Nodes]]
           /\ ReportedInv' /\ WorldInv' /\ AgreeInv' /\ LostOnlyAfterRound'
<1>1. Units(params.min)' = Units(params.min)
    BY DEF Units
<1>2. /\ pc \in [Nodes -> States]
      /\ world \in [Nodes -> [round : 0 .. MaxRounds, nodes : SUBSET Nodes]]
    BY DEF AgentInv
<1>3. \A m \in Nodes : pc'[m] = IF m = n THEN to ELSE pc[m]
    BY <1>2
<1>4. pc' \in [Nodes -> States] /\ world' = world
    BY <1>2
<1>5. ReportedInv'
    BY <1>3 DEF AgentInv, ReportedInv
<1>6. WorldInv'
  <2>1. \A m \in Nodes : Given(m)' => Given(m)
      BY <1>3 DEF Given
  <2> QED BY <1>1, <2>1 DEF AgentInv, WorldInv
<1>7. AgreeInv'
    BY DEF AgentInv, AgreeInv
<1>8. LostOnlyAfterRound'
    BY <1>3 DEF AgentInv, LostOnlyAfterRound, Accounted, ReportedInv
<1> QED BY <1>2, <1>4, <1>5, <1>6, <1>7, <1>8

(* A node joins the rendezvous.                                            *)
LEMMA JoinInv ==
    ASSUME IInv, NEW n \in Nodes, Join(n)
    PROVE  IInv'
<1>1. ManagerInv /\ AgentInv
    BY IInvParts
<1>2. /\ join_rendezvous(n) /\ pc' = [pc EXCEPT ![n] = "polling"]
      /\ UNCHANGED << world, errs, published, reported, faults >>
      /\ pc[n] = "start"
    BY DEF Join
<1>3. /\ ManagerInv' /\ n \in waiting' /\ Accounted \subseteq Accounted'
      /\ round' = round /\ params' = params /\ rdzvNodes' \in {rdzvNodes, {}}
    BY <1>1, <1>2, JoinStep
<1>4. n \in Accounted' /\ n \notin reported /\ reported \in SUBSET Nodes
    BY <1>1, <1>2, <1>3 DEF Accounted, AgentInv, ReportedInv
<1>5. /\ pc' \in [Nodes -> States]
      /\ world' \in [Nodes -> [round : 0 .. MaxRounds, nodes : SUBSET Nodes]]
      /\ ReportedInv' /\ WorldInv' /\ AgreeInv' /\ LostOnlyAfterRound'
    BY <1>1, <1>2, <1>3, <1>4, WorldsKept DEF States
<1> QED BY <1>1, <1>2, <1>3, <1>5, IInvParts DEF AgentInv

(* The reply is lost: the agent has not moved.                             *)
LEMMA JoinReplyLostInv ==
    ASSUME IInv, NEW n \in Nodes, JoinReplyLost(n)
    PROVE  IInv'
<1>1. ManagerInv /\ AgentInv
    BY IInvParts
<1>2. /\ Fault /\ join_rendezvous(n) /\ pc[n] = "start"
      /\ pc' = pc /\ UNCHANGED << world, errs, published, reported >>
    BY DEF JoinReplyLost, agents
<1>3. /\ ManagerInv' /\ Accounted \subseteq Accounted'
      /\ round' = round /\ params' = params /\ rdzvNodes' \in {rdzvNodes, {}}
    BY <1>1, <1>2, JoinStep
<1>4. /\ pc' = [pc EXCEPT ![n] = "start"] /\ n \notin reported
      /\ reported \in SUBSET Nodes
    BY <1>1, <1>2 DEF AgentInv, ReportedInv
<1>5. /\ pc' \in [Nodes -> States]
      /\ world' \in [Nodes -> [round : 0 .. MaxRounds, nodes : SUBSET Nodes]]
      /\ ReportedInv' /\ WorldInv' /\ AgreeInv' /\ LostOnlyAfterRound'
    BY <1>1, <1>2, <1>3, <1>4, WorldsKept DEF States
<1>6. faults' \in 0 .. MaxFaults
    BY <1>1, <1>2, FaultType DEF AgentInv
<1> QED BY <1>1, <1>2, <1>3, <1>5, <1>6, IInvParts DEF AgentInv

(* The one step that gives out a world.                                    *)
LEMMA PollInv ==
    ASSUME IInv, NEW n \in Nodes, Poll(n)
    PROVE  IInv'
<1>1. ManagerInv /\ AgentInv
    BY IInvParts
<1>2. /\ get_comm_world /\ pc[n] = "polling"
      /\ UNCHANGED << errs, published, reported, faults >>
    BY DEF Poll
<1>3. /\ ManagerInv' /\ Accounted \ reported \subseteq Accounted'
      /\ params' = params
      /\ \/ rdzvNodes' = rdzvNodes /\ round' = round
         \/ rdzvNodes' # {} /\ round' = round + 1
    BY <1>1, <1>2, GetCommWorldStep
<1>4. /\ pc \in [Nodes -> States]
      /\ world \in [Nodes -> [round : 0 .. MaxRounds, nodes : SUBSET Nodes]]
      /\ round \in 0 .. MaxRounds /\ round' \in 0 .. MaxRounds
      /\ rdzvNodes' \in SUBSET Nodes /\ MaxRounds \in Nat
    BY <1>1, <1>3, RdzvAssumption DEF AgentInv, ManagerInv
<1>5. Units(params.min)' = Units(params.min)
    BY <1>3 DEF Units
<1>6. \A m \in Nodes : pc[m] = "polling" => m \in Accounted'
    BY <1>1, <1>3 DEF AgentInv, LostOnlyAfterRound, ReportedInv, Accounted
<1>7. \A m \in Nodes : world[m].round <= round /\ world[m].round <= round'
    BY <1>1, <1>3, <1>4 DEF AgentInv, WorldInv
<1>8. CASE n \in rdzvNodes'
  <2> DEFINE w == [round |-> round', nodes |-> rdzvNodes']
  <2>1. pc' = [pc EXCEPT ![n] = "address"] /\ world' = [world EXCEPT ![n] = w]
      BY <1>8 DEF Poll
  <2>2. w.round = round' /\ w.nodes = rdzvNodes'
          /\ w \in [round : 0 .. MaxRounds, nodes : SUBSET Nodes]
      BY <1>4
  <2>3. /\ n \in rdzvNodes' /\ round' > 0
        /\ Cardinality(rdzvNodes') >= Units(params.min)
      BY <1>3, <1>5, <1>8 DEF ManagerInv, RoundInv
  <2> HIDE DEF w
  <2>4. \A m \in Nodes : /\ pc'[m] = IF m = n THEN "address" ELSE pc[m]
                         /\ world'[m] = IF m = n THEN w ELSE world[m]
      BY <1>4, <2>1
  <2>5. /\ pc' \in [Nodes -> States]
        /\ world' \in [Nodes -> [round : 0 .. MaxRounds, nodes : SUBSET Nodes]]
      BY <1>4, <2>1, <2>2 DEF States
  <2>6. ReportedInv'
      BY <1>1, <1>2, <2>4 DEF AgentInv, ReportedInv
  <2>7. WorldInv'
    <3> SUFFICES ASSUME NEW m \in Nodes
                 PROVE  /\ world'[m].round <= round'
                        /\ world'[m].round > 0 =>
                              /\ m \in world'[m].nodes
                              /\ Cardinality(world'[m].nodes) >= Units(params.min)
                        /\ Given(m)' => world'[m].round > 0
        BY <1>5 DEF WorldInv
    <3>1. CASE m = n
        BY <1>4, <2>2, <2>3, <2>4, <3>1
    <3>2. CASE m # n
        BY <1>1, <1>7, <2>4, <3>2 DEF AgentInv, WorldInv, Given
    <3> QED BY <3>1, <3>2
  <2>8. \A m \in Nodes : world[m].round = round' => world[m].nodes = rdzvNodes'
    <3>1. CASE rdzvNodes' = rdzvNodes /\ round' = round
        BY <1>1, <1>8, <3>1 DEF AgentInv, AgreeInv
    <3>2. CASE round' = round + 1
      <4>1. \A m \in Nodes : world[m].round # round'
          BY <1>4, <1>7, <3>2
      <4> QED BY <4>1
    <3> QED BY <1>3, <3>1, <3>2
  <2>9. AgreeInv'
      BY <1>1, <2>2, <2>4, <2>8 DEF AgentInv, AgreeInv
  <2>10. LostOnlyAfterRound'
      BY <1>6, <2>4 DEF LostOnlyAfterRound, Accounted
  <2> QED BY <1>1, <1>2, <1>3, <2>5, <2>6, <2>7, <2>9, <2>10, IInvParts
          DEF AgentInv
<1>9. CASE n \notin rdzvNodes'
  <2>1. pc' = pc /\ world' = world
      BY <1>9 DEF Poll
  <2>2. WorldInv'
      BY <1>1, <1>5, <1>7, <2>1 DEF AgentInv, WorldInv, Given
  <2>3. AgreeInv'
    <3>1. CASE rdzvNodes' = rdzvNodes /\ round' = round
        BY <1>1, <2>1, <3>1 DEF AgentInv, AgreeInv
    <3>2. CASE round' = round + 1
      <4>1. \A m \in Nodes : world[m].round # round'
          BY <1>4, <1>7, <3>2
      <4> QED BY <1>1, <2>1, <4>1 DEF AgentInv, AgreeInv
    <3> QED BY <1>3, <3>1, <3>2
  <2>4. LostOnlyAfterRound'
      BY <1>6, <2>1 DEF LostOnlyAfterRound, Accounted
  <2> QED BY <1>1, <1>2, <1>3, <2>1, <2>2, <2>3, <2>4, IInvParts
          DEF AgentInv, ReportedInv
<1> QED BY <1>8, <1>9

(* A node gives up waiting for a world.                                    *)
LEMMA JoinTimeoutInv ==
    ASSUME IInv, NEW n \in Nodes, JoinTimeout(n)
    PROVE  IInv'
<1>1. ManagerInv /\ AgentInv
    BY IInvParts
<1>2. /\ get_comm_world /\ n \notin rdzvNodes'
      /\ pc' = [pc EXCEPT ![n] = "exited"] /\ reported' = reported \union {n}
      /\ UNCHANGED << world, errs, published, faults >>
    BY DEF JoinTimeout
<1>3. /\ ManagerInv' /\ Accounted \ reported \subseteq Accounted'
      /\ params' = params
      /\ \/ rdzvNodes' = rdzvNodes /\ round' = round
         \/ rdzvNodes' # {} /\ round' = round + 1
    BY <1>1, <1>2, GetCommWorldStep
<1>4. /\ pc \in [Nodes -> States]
      /\ world \in [Nodes -> [round : 0 .. MaxRounds, nodes : SUBSET Nodes]]
      /\ round \in 0 .. MaxRounds /\ round' \in 0 .. MaxRounds
    BY <1>1, <1>3 DEF AgentInv, ManagerInv
<1>5. Units(params.min)' = Units(params.min)
    BY <1>3 DEF Units
<1>6. \A m \in Nodes : pc'[m] = IF m = n THEN "exited" ELSE pc[m]
    BY <1>2, <1>4
<1>7. \A m \in Nodes : world[m].round <= round /\ world[m].round <= round'
    BY <1>1, <1>3, <1>4 DEF AgentInv, WorldInv
<1>8. ReportedInv'
    BY <1>1, <1>2, <1>6 DEF AgentInv, ReportedInv
<1>9. WorldInv'
    BY <1>1, <1>2, <1>5, <1>6, <1>7 DEF AgentInv, WorldInv, Given
<1>10. AgreeInv'
  <2>1. CASE rdzvNodes' = rdzvNodes /\ round' = round
      BY <1>1, <1>2, <2>1 DEF AgentInv, AgreeInv
  <2>2. CASE round' = round + 1
    <3>1. \A m \in Nodes : world[m].round # round'
        BY <1>4, <1>7, <2>2
    <3> QED BY <1>1, <1>2, <3>1 DEF AgentInv, AgreeInv
  <2> QED BY <1>3, <2>1, <2>2
<1>11. LostOnlyAfterRound'
    BY <1>1, <1>3, <1>6 DEF AgentInv, LostOnlyAfterRound, ReportedInv, Accounted
<1>12. pc' \in [Nodes -> States] /\ reported' \in SUBSET Nodes
    BY <1>1, <1>2, <1>4 DEF States, AgentInv
<1> QED BY <1>1, <1>2, <1>3, <1>8, <1>9, <1>10, <1>11, <1>12, IInvParts DEF AgentInv

(* A node starts the workers of its world.                                 *)
LEMMA StartWorkersInv ==
    ASSUME IInv, NEW n \in Nodes, StartWorkers(n)
    PROVE  IInv'
<1>1. ManagerInv /\ AgentInv
    BY IInvParts
<1>2. /\ pc[n] = "address" /\ pc' = [pc EXCEPT ![n] = "running"]
      /\ errs' = [errs EXCEPT ![n] = 0]
      /\ published' \subseteq published \union {world[n].round}
      /\ UNCHANGED << manager, world, reported, faults >>
    BY DEF StartWorkers
<1>3. /\ ManagerInv' /\ Accounted' = Accounted
      /\ params' = params /\ round' = round /\ rdzvNodes' = rdzvNodes
    BY <1>1, <1>2, ManagerUnchanged DEF manager
<1>4. Given(n) /\ n \notin reported /\ reported \in SUBSET Nodes
    BY <1>1, <1>2 DEF Given, AgentInv, ReportedInv
<1>5. /\ pc' \in [Nodes -> States]
      /\ world' \in [Nodes -> [round : 0 .. MaxRounds, nodes : SUBSET Nodes]]
      /\ ReportedInv' /\ WorldInv' /\ AgreeInv' /\ LostOnlyAfterRound'
    BY <1>1, <1>2, <1>3, <1>4, WorldsKept DEF States
<1>6. world[n].round \in 1 .. MaxRounds
    BY <1>1, <1>4 DEF AgentInv, WorldInv
<1>7. published' \in SUBSET (1 .. MaxRounds)
    BY <1>1, <1>2, <1>6 DEF AgentInv
<1>8. errs' \in [Nodes -> 0 .. MaxErrors - 1]
    BY <1>1, <1>2, RdzvAssumption DEF AgentInv
<1> QED BY <1>1, <1>2, <1>3, <1>5, <1>7, <1>8, IInvParts DEF AgentInv

(* A node gives up waiting for the master address.                         *)
LEMMA AddressTimeoutInv ==
    ASSUME IInv, NEW n \in Nodes, AddressTimeout(n)
    PROVE  IInv'
<1>1. ManagerInv /\ AgentInv
    BY IInvParts
<1>2. pc[n] = "address" /\ UNCHANGED << manager, world, published, faults >>
    BY DEF AddressTimeout
<1>3. /\ ManagerInv' /\ Accounted' = Accounted
      /\ params' = params /\ round' = round /\ rdzvNodes' = rdzvNodes
    BY <1>1, <1>2, ManagerUnchanged DEF manager
<1>4. /\ n \notin reported /\ reported \in SUBSET Nodes
      /\ errs \in [Nodes -> 0 .. MaxErrors - 1] /\ MaxErrors \in Nat \ {0}
    BY <1>1, <1>2, RdzvAssumption DEF AgentInv, ReportedInv
<1>5. PICK to \in {"start", "exited"} :
          /\ pc' = [pc EXCEPT ![n] = to]
          /\ reported' = IF to = "exited" THEN reported \union {n} ELSE reported
    BY DEF AddressTimeout
<1>6. errs' \in [Nodes -> 0 .. MaxErrors - 1]
    BY <1>4 DEF AddressTimeout
<1>7. /\ reported' \in SUBSET Nodes /\ reported' \ {n} \subseteq reported
      /\ n \in reported' => to = "exited"
    BY <1>4, <1>5
<1>8. /\ pc' \in [Nodes -> States]
      /\ world' \in [Nodes -> [round : 0 .. MaxRounds, nodes : SUBSET Nodes]]
      /\ ReportedInv' /\ WorldInv' /\ AgreeInv' /\ LostOnlyAfterRound'
    BY <1>1, <1>2, <1>3, <1>5, <1>7, WorldsKept DEF States
<1> QED BY <1>1, <1>2, <1>3, <1>6, <1>7, <1>8, IInvParts DEF AgentInv

(* A node restarts its workers because others wait.                        *)
LEMMA RestartForMembershipInv ==
    ASSUME IInv, NEW n \in Nodes, RestartForMembership(n)
    PROVE  IInv'
<1>1. ManagerInv /\ AgentInv
    BY IInvParts
<1>2. /\ pc[n] = "running" /\ pc' = [pc EXCEPT ![n] = "start"]
      /\ UNCHANGED << manager, world, errs, published, reported, faults >>
    BY DEF RestartForMembership
<1>3. /\ ManagerInv' /\ Accounted' = Accounted
      /\ params' = params /\ round' = round /\ rdzvNodes' = rdzvNodes
    BY <1>1, <1>2, ManagerUnchanged DEF manager
<1>4. n \notin reported /\ reported \in SUBSET Nodes
    BY <1>1, <1>2 DEF AgentInv, ReportedInv
<1>5. /\ pc' \in [Nodes -> States]
      /\ world' \in [Nodes -> [round : 0 .. MaxRounds, nodes : SUBSET Nodes]]
      /\ ReportedInv' /\ WorldInv' /\ AgreeInv' /\ LostOnlyAfterRound'
    BY <1>1, <1>2, <1>3, <1>4, WorldsKept DEF States
<1> QED BY <1>1, <1>2, <1>3, <1>5, IInvParts DEF AgentInv

(* The workers of a node fail.                                             *)
LEMMA WorkersFailInv ==
    ASSUME IInv, NEW n \in Nodes, WorkersFail(n)
    PROVE  IInv'
<1>1. ManagerInv /\ AgentInv
    BY IInvParts
<1>2. /\ pc[n] = "running" /\ (Fault \/ UNCHANGED faults)
      /\ UNCHANGED << manager, world, errs, published >>
    BY DEF WorkersFail
<1>3. /\ ManagerInv' /\ Accounted' = Accounted
      /\ params' = params /\ round' = round /\ rdzvNodes' = rdzvNodes
    BY <1>1, <1>2, ManagerUnchanged DEF manager
<1>4. n \notin reported /\ reported \in SUBSET Nodes
    BY <1>1, <1>2 DEF AgentInv, ReportedInv
<1>5. PICK to \in {"start", "exited"} :
          /\ pc' = [pc EXCEPT ![n] = to]
          /\ reported' = IF to = "exited" THEN reported \union {n} ELSE reported
    BY DEF WorkersFail
<1>6. /\ reported' \in SUBSET Nodes /\ reported' \ {n} \subseteq reported
      /\ n \in reported' => to = "exited"
    BY <1>4, <1>5
<1>7. /\ pc' \in [Nodes -> States]
      /\ world' \in [Nodes -> [round : 0 .. MaxRounds, nodes : SUBSET Nodes]]
      /\ ReportedInv' /\ WorldInv' /\ AgreeInv' /\ LostOnlyAfterRound'
    BY <1>1, <1>2, <1>3, <1>5, <1>6, WorldsKept DEF States
<1>8. faults' \in 0 .. MaxFaults
    BY <1>1, <1>2, FaultType DEF AgentInv
<1> QED BY <1>1, <1>2, <1>3, <1>6, <1>7, <1>8, IInvParts DEF AgentInv

(* A node crashes.                                                         *)
LEMMA CrashInv ==
    ASSUME IInv, NEW n \in Nodes, Crash(n)
    PROVE  IInv'
<1>1. ManagerInv /\ AgentInv
    BY IInvParts
<1>2. /\ Fault /\ pc' = [pc EXCEPT ![n] = "exited"]
      /\ errs' = [errs EXCEPT ![n] = 0]
      /\ UNCHANGED << manager, world, published, reported >>
    BY DEF Crash
<1>3. /\ ManagerInv' /\ Accounted' = Accounted
      /\ params' = params /\ round' = round /\ rdzvNodes' = rdzvNodes
    BY <1>1, <1>2, ManagerUnchanged DEF manager
<1>4. reported \in SUBSET Nodes
    BY <1>1 DEF AgentInv
<1>5. /\ pc' \in [Nodes -> States]
      /\ world' \in [Nodes -> [round : 0 .. MaxRounds, nodes : SUBSET Nodes]]
      /\ ReportedInv' /\ WorldInv' /\ AgreeInv' /\ LostOnlyAfterRound'
    BY <1>1, <1>2, <1>3, <1>4, WorldsKept DEF States
<1>6. faults' \in 0 .. MaxFaults
    BY <1>1, <1>2, FaultType DEF AgentInv
<1>7. errs' \in [Nodes -> 0 .. MaxErrors - 1]
    BY <1>1, <1>2, RdzvAssumption DEF AgentInv
<1> QED BY <1>1, <1>2, <1>3, <1>5, <1>6, <1>7, IInvParts DEF AgentInv

(* A node that exited leaves the waiting list, which only grows shorter.   *)
LEMMA NodeExitedInv ==
    ASSUME IInv, NEW n \in Nodes, NodeExited(n)
    PROVE  IInv'
<1>1. ManagerInv /\ AgentInv
    BY IInvParts
<1>2. /\ waiting' = waiting \ {n} /\ reported' = reported \ {n}
      /\ UNCHANGED << rdzvNodes, latest, round, params, quiet, taken, world,
                      errs, published, faults >>
    BY DEF NodeExited
<1>3. ManagerInv'
  <2>1. IsFiniteSet(waiting)
      BY <1>1, NodesAreRanks, FS_Subset DEF ManagerInv
  <2>2. Cardinality(waiting') <= Cardinality(waiting)
      BY <1>2, <2>1, FS_Subset
  <2>3. Cardinality(waiting) \in Nat /\ Cardinality(waiting') \in Nat
      BY <1>2, <2>1, FS_CardinalityType, FS_Subset
  <2>4. params.unit \in Nat
      BY <1>1, RdzvAssumption DEF ManagerInv
  <2>5. RoundTakesAllUnits'
      BY <1>1, <1>2, <2>2, <2>3, <2>4 DEF ManagerInv, RoundTakesAllUnits
  <2> QED BY <1>1, <1>2, <2>5 DEF ManagerInv, TakenInv, RoundInv, Units
<1>4. Accounted \ {n} \subseteq Accounted'
    BY <1>2 DEF Accounted
<1>5. reported' \in SUBSET Nodes
    BY <1>1, <1>2 DEF AgentInv
<1>6. PICK to \in {"start", "gone"} : pc' = [pc EXCEPT ![n] = to]
    BY DEF NodeExited
<1>7. /\ pc' \in [Nodes -> States]
      /\ world' \in [Nodes -> [round : 0 .. MaxRounds, nodes : SUBSET Nodes]]
      /\ ReportedInv' /\ WorldInv' /\ AgreeInv' /\ LostOnlyAfterRound'
    BY <1>1, <1>2, <1>3, <1>4, <1>5, <1>6, WorldsKept DEF States
<1> QED BY <1>1, <1>2, <1>3, <1>5, <1>7, IInvParts DEF AgentInv

(* The invariant holds before anyone joined.                               *)
LEMMA InitInv == Init => IInv
<1> SUFFICES ASSUME Init PROVE IInv
    OBVIOUS
<1>1. TypeOK
    BY RdzvAssumption DEF Init, TypeOK, NoWorld, States
<1>2. ReportedInv /\ TakenInv /\ RoundInv /\ LostOnlyAfterRound
        /\ RoundTakesAllUnits
    BY DEF Init, ReportedInv, TakenInv, RoundInv, LostOnlyAfterRound,
           RoundTakesAllUnits
<1>3. WorldInv /\ AgreeInv
    BY DEF Init, WorldInv, AgreeInv, NoWorld, Given
<1> QED BY <1>1, <1>2, <1>3 DEF IInv

(* Every step of the manager and of the agents keeps the invariant.        *)
LEMMA NextInv == IInv /\ [Next]_vars => IInv'
<1> SUFFICES ASSUME IInv, [Next]_vars PROVE IInv'
    OBVIOUS
<1>1. ASSUME NEW n \in Nodes, Agent(n) PROVE IInv'
    BY <1>1, JoinInv, JoinReplyLostInv, PollInv, JoinTimeoutInv,
       StartWorkersInv, AddressTimeoutInv, RestartForMembershipInv,
       WorkersFailInv, CrashInv, NodeExitedInv DEF Agent
<1>2. CASE WaitingTimeout
    BY <1>2 DEF WaitingTimeout, agents, IInv, TypeOK, ReportedInv, TakenInv,
        RoundInv, WorldInv, AgreeInv, LostOnlyAfterRound, RoundTakesAllUnits,
        Given, Units
<1>3. CASE UNCHANGED vars
    BY <1>3 DEF vars, IInv, TypeOK, ReportedInv, TakenInv, RoundInv, WorldInv,
        AgreeInv, LostOnlyAfterRound, RoundTakesAllUnits, Given, Units
<1> QED BY <1>1, <1>2, <1>3 DEF Next

-----------------------------------------------------------------------------
(* The theorems.                                                           *)

(* The invariant holds in every reachable state of the manager and the     *)
(* agents, TypeOK included.                                                *)
THEOREM IInvInductive == Spec => []IInv
<1> QED BY InitInv, NextInv, PTL DEF Spec

(* Two agents that are given a world under one round number are given the  *)
(* same world (get_comm_world of rdzv_manager.py, next_rendezvous of       *)
(* training.py), whatever joins, timeouts, crashes and lost replies come   *)
(* between their polls.                                                    *)
THEOREM WorldsAgree == Spec => []OneWorldPerRound
<1>1. IInv => OneWorldPerRound
    BY DEF IInv, WorldInv, AgreeInv, OneWorldPerRound
<1> QED BY <1>1, IInvInductive, PTL

(* No path through the manager loses an agent that joined and polls,       *)
(* except the join that makes it forget a standing round.                  *)
THEOREM NoneLost == Spec => []LostOnlyAfterRound
<1>1. IInv => LostOnlyAfterRound
    BY DEF IInv
<1> QED BY <1>1, IInvInductive, PTL

(* _check_rdzv_completed takes every whole unit it can, for any node_unit  *)
(* and any number of nodes.                                                *)
THEOREM UnitsTaken == Spec => []RoundTakesAllUnits
<1>1. IInv => RoundTakesAllUnits
    BY DEF IInv
<1> QED BY <1>1, IInvInductive, PTL

(* When min_nodes is a majority of the job, there are never two complete   *)
(* worlds: a node cannot be present in two rounds, and two worlds of that  *)
(* size share a node.                                                      *)
THEOREM NoSecondWorld == Spec => []OneWholeWorld
<1>1. IInv => OneWholeWorld
  <2> SUFFICES ASSUME IInv, 2 * Units(params.min) > Cardinality(Nodes),
                      NEW m \in Nodes, NEW n \in Nodes,
                      pc[m] = "running", pc[n] = "running", Whole(m), Whole(n)
               PROVE  world[m] = world[n]
      BY DEF OneWholeWorld
  <2>1. TypeOK /\ WorldInv /\ AgreeInv /\ params \in Params
      BY DEF IInv, TypeOK
  <2> DEFINE M == world[m].nodes
             N == world[n].nodes
  <2>2. M \in SUBSET Nodes /\ N \in SUBSET Nodes /\ IsFiniteSet(Nodes)
      BY <2>1, RdzvAssumption DEF TypeOK
  <2>3. /\ Cardinality(M) >= Units(params.min)
        /\ Cardinality(N) >= Units(params.min)
      BY <2>1 DEF WorldInv, Given
  <2>4. /\ Cardinality(M) \in Nat /\ Cardinality(N) \in Nat
        /\ Cardinality(Nodes) \in Nat /\ Units(params.min) \in Nat
    <3>1. params.min \in Nat
        BY <2>1, RdzvAssumption
    <3> QED BY <2>1, <2>2, <3>1, FS_Subset, FS_CardinalityType, UnitsAre
  <2>5. Cardinality(M) + Cardinality(N) > Cardinality(Nodes)
      BY <2>3, <2>4
  <2>6. PICK p \in M : p \in N
      BY <2>2, <2>5, FS_MajoritiesIntersect
  <2>7. Present(p, world[m].round) /\ Present(p, world[n].round)
      BY <2>6 DEF Whole
  <2>8. world[m].round = world[n].round
      BY <2>7 DEF Present
  <2>9. M = N
      BY <2>1, <2>8 DEF AgreeInv
  <2> QED BY <2>1, <2>8, <2>9 DEF TypeOK
<1> QED BY <1>1, IInvInductive, PTL
=============================================================================
