-------------------------- MODULE DataShardsProofs --------------------------
(***************************************************************************)
(* Proofs about DataShards, for every number of workers, every size of the *)
(* dataset and of its shards, every number of retries and of faults.       *)
(***************************************************************************)
EXTENDS DataShards, FiniteSetTheorems, TLAPS

-----------------------------------------------------------------------------
(* The inductive invariant.                                                *)

AllShards == UNION {Shards(p) : p \in Nat}
TaskRec == [id : Nat, pass : Nat, shard : AllShards, retry : Nat]
NoTasks == [i \in {} |-> {}]

DoingTyped(d) ==
    /\ d = [i \in DOMAIN d |-> d[i]]
    /\ DOMAIN d \subseteq Nat /\ IsFiniteSet(DOMAIN d)
    /\ \A i \in DOMAIN d : d[i].task \in TaskRec /\ d[i].task.id = i

DataTypes ==
    /\ todo \in Seq(TaskRec) /\ pass \in Nat /\ nextId \in Nat
    /\ DoingTyped(doing)
    /\ has = [w \in Workers |-> has[w]]
    /\ \A w \in Workers : has[w] \subseteq TaskRec
    /\ reports \subseteq [id : Nat, ok : BOOLEAN, again : BOOLEAN]

LockTypes ==
    /\ reading.at \in Nat /\ reading.todo \in Seq(TaskRec)
    /\ reading = [at |-> reading.at, todo |-> reading.todo]
    /\ ckpt.pass \in Nat /\ ckpt.tasks \in Seq(TaskRec) /\ ckpt.torn \in BOOLEAN
    /\ restoring = [at |-> restoring.at, left |-> restoring.left]
    /\ restoring.at \in {"none", "todo", "doing", "fill"}
    /\ restoring.left \in Seq(TaskRec)
    /\ restoring.at = "none" => restoring.left = <<>>
    /\ raced \in BOOLEAN

Types == DataTypes /\ LockTypes

(* Ids: a task keeps its own for life, and none is ever given out twice.   *)
Elems(q) == {q[i] : i \in DOMAIN q}
Known(q, d, h) == Elems(q) \cup {d[i].task : i \in DOMAIN d} \cup UNION {h[w] : w \in Workers}

IdsApart(q, d) ==
    /\ \A i, j \in DOMAIN q : q[i].id = q[j].id => i = j
    /\ \A i \in DOMAIN q : q[i].id \notin DOMAIN d

Identity(K, n) ==
    /\ \A t \in K : t.id < n
    /\ \A t, u \in K : t.id = u.id => Instance(t) = Instance(u)

(* A report of success is about a shard that was processed.                *)
ReportsTrue(K, R, P, n) ==
    \A m \in R : m.id < n /\ (m.ok => \A t \in K : t.id = m.id => Instance(t) \in P)

Ident == /\ IdsApart(todo, doing)
         /\ Identity(Known(todo, doing, has), nextId)
         /\ ReportsTrue(Known(todo, doing, has), reports, processed, nextId)
         /\ consumed \subseteq processed /\ ckpt.consumed \subseteq processed

(* The tasks of a dead worker that its recovery will still report.         *)
Recovering ==
    /\ rec = [w \in Workers |-> rec[w]]
    /\ \A w \in Workers :
          /\ rec[w] = [at |-> rec[w].at, size |-> rec[w].size, ids |-> rec[w].ids]
          /\ rec[w] # Idle => w \in dead
          /\ rec[w].at = "report" =>
                \A i \in DOMAIN doing : doing[i].node = w => i \in rec[w].ids

(* Where the shards of the passes that have begun are.                     *)
TodoAt(q, x) == {i \in DOMAIN q : Instance(q[i]) = x}
DoingAt(d, x) == {i \in DOMAIN d : Instance(d[i].task) = x}
Single(S) == \E i : S = {i}
Begun(x, p) == \E k \in 0 .. (p - 1) : \E s \in Shards(k) : x = <<k, s>>

OneOf(A, B, C, D, E) ==
    \/ Single(A) /\ B = {} /\ C = {} /\ ~D /\ ~E
    \/ A = {} /\ Single(B) /\ C = {} /\ ~D /\ ~E
    \/ A = {} /\ B = {} /\ Single(C) /\ ~D /\ ~E
    \/ A = {} /\ B = {} /\ C = {} /\ D /\ ~E
    \/ A = {} /\ B = {} /\ C = {} /\ ~D /\ E
NoneOf(A, B, C, D, E) == A = {} /\ B = {} /\ C = {} /\ ~D /\ ~E

Partition(q, d, l, c, r, p) ==
    \A x : IF Begun(x, p)
           THEN OneOf(TodoAt(q, x), DoingAt(d, x), TodoAt(l, x), x \in c, x \in r)
           ELSE NoneOf(TodoAt(q, x), DoingAt(d, x), TodoAt(l, x), x \in c, x \in r)

Live == Partition(todo, doing, restoring.left, consumed, dropped, pass)
Pending == Partition(<<>>, NoTasks, restoring.left, consumed, dropped, pass)

Places ==
    /\ ckpt = NoCkpt => restoring.at = "none"
    /\ (ckpt = NoCkpt \/ ~raced) /\ restoring.at \in {"none", "fill"} => Live
    /\ ~raced /\ restoring.at \in {"todo", "doing"} => Pending
    /\ ~raced /\ restoring.at = "doing" => todo = <<>>
    /\ ckpt # NoCkpt /\ ~ckpt.torn =>
          Partition(<<>>, NoTasks, ckpt.tasks, ckpt.consumed, ckpt.dropped, ckpt.pass)
    /\ reading # NotReading =>
          /\ ckpt = NoCkpt /\ restoring.at = "none"
          /\ ~raced => /\ reading.at \in 1 .. (Len(todo) + 1)
                       /\ reading.todo = [i \in 1 .. (reading.at - 1) |-> todo[i]]

DInv == Types /\ Ident /\ Recovering /\ Places

-----------------------------------------------------------------------------
(* Sequences of tasks.                                                     *)

(* A list as a function on its positions.                                  *)
LEMMA SeqDomain ==
    ASSUME NEW S, NEW q \in Seq(S)
    PROVE  Len(q) \in Nat /\ DOMAIN q = 1 .. Len(q) /\ \A i \in DOMAIN q : q[i] \in S
OBVIOUS

(* What Tail and Head of a list that is not empty are.                     *)
LEMMA TailIs ==
    ASSUME NEW S, NEW q \in Seq(S), q # <<>>
    PROVE  /\ Len(q) \in Nat \ {0} /\ DOMAIN q = 1 .. Len(q)
           /\ Tail(q) \in Seq(S) /\ DOMAIN Tail(q) = 1 .. (Len(q) - 1)
           /\ \A i \in 1 .. (Len(q) - 1) : Tail(q)[i] = q[i + 1]
           /\ Head(q) = q[1] /\ Head(q) \in S
OBVIOUS

(* What Append does to a list.                                             *)
LEMMA AppendIs ==
    ASSUME NEW S, NEW q \in Seq(S), NEW e \in S
    PROVE  /\ Len(q) \in Nat /\ DOMAIN q = 1 .. Len(q)
           /\ Append(q, e) \in Seq(S) /\ DOMAIN Append(q, e) = 1 .. (Len(q) + 1)
           /\ \A i \in 1 .. Len(q) : Append(q, e)[i] = q[i]
           /\ Append(q, e)[Len(q) + 1] = e
OBVIOUS

(* What handing out, putting back and restoring do to the places of an     *)
(* instance.                                                               *)
LEMMA TailPlaces ==
    ASSUME NEW S, NEW q \in Seq(S), q # <<>>, NEW x
    PROVE  /\ Instance(Head(q)) = x => TodoAt(q, x) # {}
           /\ Instance(Head(q)) = x /\ Single(TodoAt(q, x)) => TodoAt(Tail(q), x) = {}
           /\ Instance(Head(q)) # x /\ TodoAt(q, x) = {} => TodoAt(Tail(q), x) = {}
           /\ Instance(Head(q)) # x /\ Single(TodoAt(q, x)) => Single(TodoAt(Tail(q), x))
<1> DEFINE n == Len(q)
           r == Tail(q)
<1>1. /\ n \in Nat \ {0} /\ DOMAIN q = 1 .. n /\ DOMAIN r = 1 .. (n - 1)
      /\ \A i \in 1 .. (n - 1) : r[i] = q[i + 1]
      /\ Head(q) = q[1]
    BY TailIs
<1> HIDE DEF n, r
<1>2. 1 \in DOMAIN q
    BY <1>1
<1>3. Instance(Head(q)) = x => 1 \in TodoAt(q, x)
    BY <1>1, <1>2 DEF TodoAt
<1>4. \A i : i \in TodoAt(r, x) => i + 1 \in TodoAt(q, x) /\ i \in Nat \ {0}
    BY <1>1 DEF TodoAt
<1>5. \A j : j \in TodoAt(q, x) /\ j # 1 => j - 1 \in TodoAt(r, x) /\ j \in Nat
    BY <1>1 DEF TodoAt
<1>6. ASSUME Instance(Head(q)) = x, Single(TodoAt(q, x)) PROVE TodoAt(r, x) = {}
  <2>1. TodoAt(q, x) = {1}
      BY <1>3, <1>6 DEF Single
  <2> QED BY <1>4, <2>1
<1>7. ASSUME Instance(Head(q)) # x, TodoAt(q, x) = {} PROVE TodoAt(r, x) = {}
    BY <1>4, <1>7
<1>8. ASSUME Instance(Head(q)) # x, Single(TodoAt(q, x)) PROVE Single(TodoAt(r, x))
  <2>1. PICK j : TodoAt(q, x) = {j}
      BY <1>8 DEF Single
  <2>2. j # 1
      BY <1>1, <1>8, <2>1 DEF TodoAt
  <2>3. j - 1 \in TodoAt(r, x) /\ j \in Nat
      BY <1>5, <2>1, <2>2
  <2>4. \A i \in TodoAt(r, x) : i = j - 1
      BY <1>4, <2>1, <2>3
  <2>5. TodoAt(r, x) = {j - 1}
      BY <2>3, <2>4
  <2> QED BY <2>5 DEF Single
<1> QED BY <1>3, <1>6, <1>7, <1>8 DEF r

(* A task appended to todo gives its instance a place there, and no other. *)
LEMMA AppendPlaces ==
    ASSUME NEW S, NEW q \in Seq(S), NEW e \in S, NEW x
    PROVE  /\ Instance(e) # x => TodoAt(Append(q, e), x) = TodoAt(q, x)
           /\ Instance(e) = x /\ TodoAt(q, x) = {} => Single(TodoAt(Append(q, e), x))
<1> DEFINE n == Len(q)
           r == Append(q, e)
<1>1. /\ n \in Nat /\ DOMAIN q = 1 .. n /\ DOMAIN r = 1 .. (n + 1)
      /\ \A i \in 1 .. n : r[i] = q[i]
      /\ r[n + 1] = e
    BY AppendIs
<1> HIDE DEF n, r
<1>2. ASSUME Instance(e) # x PROVE TodoAt(r, x) = TodoAt(q, x)
  <2>1. \A i \in 1 .. (n + 1) : i = n + 1 \/ i \in 1 .. n
      BY <1>1
  <2>2. \A i \in 1 .. n : i \in 1 .. (n + 1)
      BY <1>1
  <2> QED BY <1>1, <1>2, <2>1, <2>2 DEF TodoAt
<1>3. ASSUME Instance(e) = x, TodoAt(q, x) = {} PROVE TodoAt(r, x) = {n + 1}
  <2>1. \A i \in 1 .. (n + 1) : i = n + 1 \/ i \in 1 .. n
      BY <1>1
  <2>2. n + 1 \in 1 .. (n + 1)
      BY <1>1
  <2>3. \A i \in 1 .. n : Instance(q[i]) # x
      BY <1>1, <1>3 DEF TodoAt
  <2>4. \A i : i \in TodoAt(r, x) <=> i = n + 1
      BY <1>1, <1>3, <2>1, <2>2, <2>3 DEF TodoAt
  <2> QED BY <2>4
<1> QED BY <1>2, <1>3 DEF r, Single

(* A task handed out gives its instance a place in doing, and no other.    *)
LEMMA WithPlaces ==
    ASSUME NEW d, NEW i, i \notin DOMAIN d, NEW t, NEW w, NEW x
    PROVE  LET e == With(d, i, [task |-> t, node |-> w]) IN
           /\ Instance(t) # x => DoingAt(e, x) = DoingAt(d, x)
           /\ Instance(t) = x /\ DoingAt(d, x) = {} => Single(DoingAt(e, x))
<1> DEFINE e == With(d, i, [task |-> t, node |-> w])
<1>1. /\ DOMAIN e = DOMAIN d \cup {i} /\ e[i].task = t
      /\ \A j \in DOMAIN d : e[j] = d[j]
    BY DEF With
<1> HIDE DEF e
<1>2. Instance(t) # x => DoingAt(e, x) = DoingAt(d, x)
    BY <1>1 DEF DoingAt
<1>3. Instance(t) = x /\ DoingAt(d, x) = {} => DoingAt(e, x) = {i}
    BY <1>1 DEF DoingAt
<1> QED BY <1>2, <1>3 DEF e, Single

(* A task taken out of doing takes its instance's place with it, and no    *)
(* other.                                                                  *)
LEMMA WithoutPlaces ==
    ASSUME NEW d, NEW i \in DOMAIN d, NEW x
    PROVE  LET e == Without(d, i) IN
           /\ Instance(d[i].task) = x => DoingAt(d, x) # {}
           /\ Instance(d[i].task) # x => DoingAt(e, x) = DoingAt(d, x)
           /\ Instance(d[i].task) = x /\ Single(DoingAt(d, x)) => DoingAt(e, x) = {}
<1> DEFINE e == Without(d, i)
<1>1. DOMAIN e = DOMAIN d \ {i} /\ \A j \in DOMAIN e : e[j] = d[j]
    BY DEF Without
<1> HIDE DEF e
<1>2. Instance(d[i].task) # x => DoingAt(e, x) = DoingAt(d, x)
    BY <1>1 DEF DoingAt
<1>3. ASSUME Instance(d[i].task) = x, Single(DoingAt(d, x)) PROVE DoingAt(e, x) = {}
  <2>1. i \in DoingAt(d, x)
      BY <1>3 DEF DoingAt
  <2>2. DoingAt(d, x) = {i}
      BY <1>3, <2>1 DEF Single
  <2> QED BY <1>1, <2>2 DEF DoingAt
<1> QED BY <1>2, <1>3 DEF e, DoingAt

(* Nothing is in empty queues.                                             *)
LEMMA EmptyPlaces == \A x : TodoAt(<<>>, x) = {} /\ DoingAt(NoTasks, x) = {}
<1>1. DOMAIN NoTasks = {} /\ \A i : i \notin DOMAIN <<>>
    BY DEF NoTasks
<1> QED BY <1>1 DEF TodoAt, DoingAt

-----------------------------------------------------------------------------
(* The shards of a pass.                                                   *)

(* The sizes of the data set are positive numbers.                         *)
LEMMA SizesAre == ShardSize \in Nat \ {0} /\ DatasetSize \in Nat \ {0}
                  /\ MaxShardCount \in Nat \ {0} /\ NumEpochs \in Nat \ {0}
BY ShardsAssumption

(* A division rounded up is an integer.                                    *)
LEMMA CeilDivInt == ASSUME NEW a \in Int, NEW b \in Nat \ {0} PROVE CeilDiv(a, b) \in Int
BY DEF CeilDiv

(* There is at least one pass over the data.                               *)
LEMMA SubepochsPositive == Subepochs \in Nat \ {0}
<1>1. ShardCount \in Int
    BY SizesAre, CeilDivInt DEF ShardCount
<1>2. CASE ShardCount > MaxShardCount
  <2>1. ShardCount \in Nat \ {0} /\ MaxShardCount \in Nat \ {0}
      BY <1>1, <1>2, SizesAre
  <2>2. ShardCount >= MaxShardCount
      BY <1>1, <1>2, SizesAre
  <2>3. \A a, b \in Nat \ {0} : a >= b => (a + b - 1) \div b \in Nat \ {0}
      OBVIOUS
  <2> QED BY <1>2, <2>1, <2>2, <2>3 DEF Subepochs, CeilDiv
<1>3. CASE ~(ShardCount > MaxShardCount)
    BY <1>3 DEF Subepochs
<1> QED BY <1>2, <1>3

(* Two multiples of a shard size are equal only if the factors are.        *)
LEMMA SameMultiple ==
    ASSUME NEW s \in Nat \ {0}, NEW i \in Int, NEW j \in Int, i * s = j * s
    PROVE  i = j
OBVIOUS

Listing(f) == \E n \in Nat : /\ f = [i \in 1 .. n |-> f[i]] /\ DOMAIN f = 1 .. n
                             /\ \A i, j \in 1 .. n : f[i] = f[j] => i = j

(* create_shards_with_range() lists its shards without repetition.         *)
LEMMA RangeShards ==
    ASSUME NEW a \in Int, NEW b \in Int
    PROVE  Listing(create_shards_with_range(a, b))
<1> DEFINE f == create_shards_with_range(a, b)
           m == CeilDiv(b - a, ShardSize)
<1>1. m \in Int
    BY SizesAre, CeilDivInt
<1>2. f = [i \in 1 .. m |-> <<a + (i - 1) * ShardSize,
                            IF a + i * ShardSize > b THEN b ELSE a + i * ShardSize>>]
    BY DEF create_shards_with_range
<1> HIDE DEF f, m
<1>3. PICK n \in Nat : 1 .. m = 1 .. n
  <2>1. CASE m >= 0
      BY <1>1, <2>1
  <2>2. CASE m < 0
    <3>1. 1 .. m = 1 .. 0
        BY <1>1, <2>2
    <3> QED BY <3>1
  <2> QED BY <1>1, <2>1, <2>2
<1>4. ASSUME NEW i \in 1 .. n, NEW j \in 1 .. n, f[i] = f[j] PROVE i = j
  <2>1. i \in Int /\ j \in Int /\ i - 1 \in Int /\ j - 1 \in Int
      OBVIOUS
  <2>2. a + (i - 1) * ShardSize = a + (j - 1) * ShardSize
      BY <1>2, <1>3, <1>4
  <2>3. (i - 1) * ShardSize \in Int /\ (j - 1) * ShardSize \in Int
      BY <2>1, SizesAre
  <2>a. \A u, v, w \in Int : u + v = u + w => v = w
      OBVIOUS
  <2>4. (i - 1) * ShardSize = (j - 1) * ShardSize
      BY <2>2, <2>3, <2>a, Zenon
  <2>5. i - 1 = j - 1
      BY <2>1, <2>4, SizesAre, SameMultiple
  <2> QED BY <2>1, <2>5
<1>5. f = [i \in 1 .. n |-> f[i]] /\ DOMAIN f = 1 .. n
    BY <1>2, <1>3
<1>6. Listing(f)
    BY <1>4, <1>5 DEF Listing
<1> QED BY <1>6 DEF f

(* create_shards() lists the shards of a pass without repetition.          *)
LEMMA PassShards ==
    ASSUME NEW p \in Nat
    PROVE  LET f == create_shards(p) IN
           \E n \in Nat : /\ f = [i \in 1 .. n |-> f[i]] /\ DOMAIN f = 1 .. n
                          /\ \A i, j \in 1 .. n : f[i] = f[j] => i = j
                          /\ Shards(p) = {f[i] : i \in 1 .. n}
<1> DEFINE f == create_shards(p)
<1>1. PICK a \in Int, b \in Int : f = create_shards_with_range(a, b)
  <2>1. CASE Subepochs = 1
      BY <2>1, SizesAre DEF create_shards
  <2>2. CASE Subepochs # 1
    <3> DEFINE size == MaxShardCount * ShardSize
               from == (p % Subepochs) * size
               to == IF from + size > DatasetSize THEN DatasetSize ELSE from + size
    <3>1. size \in Int
        BY SizesAre
    <3>2. p % Subepochs \in Int
        BY SubepochsPositive
    <3> HIDE DEF size
    <3>3. from \in Int
        BY <3>1, <3>2
    <3> HIDE DEF from
    <3>4. to \in Int
        BY <3>1, <3>3, SizesAre
    <3>5. f = create_shards_with_range(from, to)
        BY <2>2 DEF create_shards, from, size
    <3> QED BY <3>3, <3>4, <3>5
  <2> QED BY <2>1, <2>2
<1> HIDE DEF f
<1>2. PICK n \in Nat : /\ f = [i \in 1 .. n |-> f[i]] /\ DOMAIN f = 1 .. n
                       /\ \A i, j \in 1 .. n : f[i] = f[j] => i = j
  <2>1. Listing(f)
      BY <1>1, RangeShards
  <2> QED BY <2>1 DEF Listing
<1>3. Shards(p) = {f[i] : i \in 1 .. n}
    BY <1>2 DEF Shards, Range, f
<1> QED BY <1>2, <1>3 DEF f

(* The tasks of a new pass: fresh ids, and every shard of the pass once.   *)
LEMMA FreshTasks ==
    ASSUME pass \in Nat, nextId \in Nat
    PROVE  LET q == Tasks(create_shards(pass), pass) IN
           /\ q \in Seq(TaskRec) /\ Len(q) \in Nat
           /\ \A i \in DOMAIN q : q[i].id = nextId + i - 1 /\ i \in 1 .. Len(q)
           /\ \A i, j \in DOMAIN q : Instance(q[i]) = Instance(q[j]) => i = j
           /\ \A x : (\E i \in DOMAIN q : Instance(q[i]) = x)
                        <=> (\E s \in Shards(pass) : x = <<pass, s>>)
<1> DEFINE f == create_shards(pass)
           q == Tasks(f, pass)
<1>1. PICK n \in Nat : /\ f = [i \in 1 .. n |-> f[i]] /\ DOMAIN f = 1 .. n
                       /\ \A i, j \in 1 .. n : f[i] = f[j] => i = j
                       /\ Shards(pass) = {f[i] : i \in 1 .. n}
    BY PassShards
<1> HIDE DEF f
<1>2. q = [i \in 1 .. n |-> [id |-> nextId + i - 1, pass |-> pass, shard |-> f[i], retry |-> 0]]
    BY <1>1 DEF Tasks
<1> HIDE DEF q
<1>3. DOMAIN q = 1 .. n /\ Len(q) = n
    BY <1>2
<1>4. \A i \in 1 .. n : q[i] = [id |-> nextId + i - 1, pass |-> pass, shard |-> f[i], retry |-> 0]
    BY <1>2
<1>5. \A i \in 1 .. n : nextId + i - 1 \in Nat /\ f[i] \in AllShards
  <2>1. \A i \in 1 .. n : f[i] \in Shards(pass)
      BY <1>1
  <2>2. \A i \in 1 .. n : f[i] \in AllShards
      BY <2>1 DEF AllShards
  <2> QED BY <2>2
<1>6. \A i \in 1 .. n : q[i] \in TaskRec
  <2> TAKE i \in 1 .. n
  <2> DEFINE e == nextId + i - 1
  <2>1. e \in Nat /\ f[i] \in AllShards
      BY <1>5
  <2> HIDE DEF e
  <2>2. [id |-> e, pass |-> pass, shard |-> f[i], retry |-> 0] \in TaskRec
      BY <2>1 DEF TaskRec
  <2> QED BY <1>4, <2>2 DEF e
<1>7. q \in Seq(TaskRec)
    BY <1>2, <1>3, <1>4, <1>6
<1>8. \A i \in 1 .. n : q[i].id = nextId + i - 1 /\ Instance(q[i]) = <<pass, f[i]>>
  <2> TAKE i \in 1 .. n
  <2> DEFINE e == nextId + i - 1
  <2>1. q[i] = [id |-> e, pass |-> pass, shard |-> f[i], retry |-> 0]
      BY <1>4
  <2> HIDE DEF e
  <2>2. q[i].id = e /\ Instance(q[i]) = <<pass, f[i]>>
      BY <2>1 DEF Instance
  <2> QED BY <2>2 DEF e
<1>9. \A i, j \in 1 .. n : Instance(q[i]) = Instance(q[j]) => i = j
    BY <1>1, <1>8
<1>10. ASSUME NEW x
       PROVE  (\E i \in 1 .. n : Instance(q[i]) = x) <=> (\E s \in Shards(pass) : x = <<pass, s>>)
    BY <1>1, <1>8
<1> QED BY <1>3, <1>7, <1>8, <1>9, <1>10 DEF f, q

-----------------------------------------------------------------------------
(* What the operations do to the partition of the shards.                  *)

(* One instance, one place at a time.                                      *)
At(x, q, d, l, c, r, p) ==
    IF Begun(x, p)
    THEN OneOf(TodoAt(q, x), DoingAt(d, x), TodoAt(l, x), x \in c, x \in r)
    ELSE NoneOf(TodoAt(q, x), DoingAt(d, x), TodoAt(l, x), x \in c, x \in r)

(* Every instance in its one place, said of one instance at a time.        *)
LEMMA PartitionAt ==
    ASSUME NEW q, NEW d, NEW l, NEW c, NEW r, NEW p
    PROVE  Partition(q, d, l, c, r, p) <=> \A x : At(x, q, d, l, c, r, p)
BY DEF Partition, At

(* create_shards(): the next pass goes into an empty todo.                 *)
LEMMA NewPass ==
    ASSUME pass \in Nat, nextId \in Nat, NEW d, NEW l, NEW c, NEW r,
           Partition(<<>>, d, l, c, r, pass)
    PROVE  Partition(Tasks(create_shards(pass), pass), d, l, c, r, pass + 1)
<1> DEFINE q == Tasks(create_shards(pass), pass)
<1>1. /\ \A i, j \in DOMAIN q : Instance(q[i]) = Instance(q[j]) => i = j
      /\ \A x : (\E i \in DOMAIN q : Instance(q[i]) = x)
                   <=> (\E s \in Shards(pass) : x = <<pass, s>>)
    BY FreshTasks
<1> HIDE DEF q
<1> SUFFICES ASSUME NEW x PROVE At(x, q, d, l, c, r, pass + 1)
    BY PartitionAt DEF q
<1>2. At(x, <<>>, d, l, c, r, pass)
    BY PartitionAt
<1>3. TodoAt(<<>>, x) = {}
    BY EmptyPlaces
<1>4. \A k : k \in 0 .. (pass + 1 - 1) <=> (k \in 0 .. (pass - 1) \/ k = pass)
    OBVIOUS
<1>5. Begun(x, pass + 1) <=> Begun(x, pass) \/ \E s \in Shards(pass) : x = <<pass, s>>
    BY <1>4 DEF Begun
<1>6. CASE \E s \in Shards(pass) : x = <<pass, s>>
  <2>1. ~ Begun(x, pass)
    <3>1. \A k \in 0 .. (pass - 1) : k # pass
        OBVIOUS
    <3> QED BY <1>6, <3>1 DEF Begun
  <2>2. PICK i \in DOMAIN q : Instance(q[i]) = x
      BY <1>1, <1>6
  <2>3. TodoAt(q, x) = {i}
      BY <1>1, <2>2 DEF TodoAt
  <2> QED BY <1>2, <1>5, <1>6, <2>1, <2>3 DEF At, OneOf, NoneOf, Single
<1>7. CASE ~ \E s \in Shards(pass) : x = <<pass, s>>
  <2>1. TodoAt(q, x) = {}
      BY <1>1, <1>7 DEF TodoAt
  <2> QED BY <1>2, <1>3, <1>5, <1>7, <2>1 DEF At
<1> QED BY <1>6, <1>7

(* todo.pop(0) and doing[id] = ...                                         *)
LEMMA HandOutPart ==
    ASSUME NEW S, NEW q \in Seq(S), q # <<>>, NEW d, Head(q).id \notin DOMAIN d, NEW w,
           NEW l, NEW c, NEW r, NEW p, Partition(q, d, l, c, r, p)
    PROVE  Partition(Tail(q), With(d, Head(q).id, [task |-> Head(q), node |-> w]),
                     l, c, r, p)
<1> DEFINE t == Head(q)
           e == With(d, t.id, [task |-> t, node |-> w])
<1> SUFFICES ASSUME NEW x PROVE At(x, Tail(q), e, l, c, r, p)
    BY PartitionAt
<1>1. At(x, q, d, l, c, r, p)
    BY PartitionAt
<1>2. /\ Instance(t) = x => TodoAt(q, x) # {}
      /\ Instance(t) = x /\ Single(TodoAt(q, x)) => TodoAt(Tail(q), x) = {}
      /\ Instance(t) # x /\ TodoAt(q, x) = {} => TodoAt(Tail(q), x) = {}
      /\ Instance(t) # x /\ Single(TodoAt(q, x)) => Single(TodoAt(Tail(q), x))
    BY TailPlaces
<1>3. /\ Instance(t) # x => DoingAt(e, x) = DoingAt(d, x)
      /\ Instance(t) = x /\ DoingAt(d, x) = {} => Single(DoingAt(e, x))
    BY WithPlaces
<1> HIDE DEF t, e
<1> QED BY <1>1, <1>2, <1>3 DEF At, OneOf, NoneOf

(* A task leaves doing for todo, or is counted, or given up.               *)
LEMMA ReportPart ==
    ASSUME NEW S, NEW q \in Seq(S), NEW d, NEW i \in DOMAIN d, NEW u \in S,
           Instance(u) = Instance(d[i].task),
           NEW l, NEW c, NEW r, NEW p, Partition(q, d, l, c, r, p)
    PROVE  /\ Partition(Append(q, u), Without(d, i), l, c, r, p)
           /\ Partition(q, Without(d, i), l, c \cup {Instance(u)}, r, p)
           /\ Partition(q, Without(d, i), l, c, r \cup {Instance(u)}, p)
<1> DEFINE e == Without(d, i)
<1> SUFFICES ASSUME NEW x
             PROVE  /\ At(x, Append(q, u), e, l, c, r, p)
                    /\ At(x, q, e, l, c \cup {Instance(u)}, r, p)
                    /\ At(x, q, e, l, c, r \cup {Instance(u)}, p)
    BY PartitionAt
<1>1. At(x, q, d, l, c, r, p)
    BY PartitionAt
<1>2. /\ Instance(u) = x => DoingAt(d, x) # {}
      /\ Instance(u) # x => DoingAt(e, x) = DoingAt(d, x)
      /\ Instance(u) = x /\ Single(DoingAt(d, x)) => DoingAt(e, x) = {}
    BY WithoutPlaces
<1>3. /\ Instance(u) # x => TodoAt(Append(q, u), x) = TodoAt(q, x)
      /\ Instance(u) = x /\ TodoAt(q, x) = {} => Single(TodoAt(Append(q, u), x))
    BY AppendPlaces
<1> HIDE DEF e
<1>4. CASE Instance(u) = x
  <2>1. /\ Begun(x, p) /\ TodoAt(q, x) = {} /\ TodoAt(l, x) = {} /\ x \notin c /\ x \notin r
        /\ DoingAt(e, x) = {} /\ Single(TodoAt(Append(q, u), x))
      BY <1>1, <1>2, <1>3, <1>4 DEF At, OneOf, NoneOf
  <2> QED BY <1>4, <2>1 DEF At, OneOf
<1>5. CASE Instance(u) # x
  <2>1. /\ DoingAt(e, x) = DoingAt(d, x) /\ TodoAt(Append(q, u), x) = TodoAt(q, x)
        /\ x \in c \cup {Instance(u)} <=> x \in c
        /\ x \in r \cup {Instance(u)} <=> x \in r
      BY <1>2, <1>3, <1>5
  <2> QED BY <1>1, <2>1 DEF At, OneOf, NoneOf
<1> QED BY <1>4, <1>5

(* restore_checkpoint(): a task of the checkpoint goes into todo.          *)
LEMMA RestorePart ==
    ASSUME NEW S, NEW q \in Seq(S), NEW l \in Seq(S), l # <<>>, NEW u \in S,
           Instance(u) = Instance(Head(l)),
           NEW d, NEW c, NEW r, NEW p, Partition(q, d, l, c, r, p)
    PROVE  Partition(Append(q, u), d, Tail(l), c, r, p)
<1> SUFFICES ASSUME NEW x PROVE At(x, Append(q, u), d, Tail(l), c, r, p)
    BY PartitionAt
<1>1. At(x, q, d, l, c, r, p)
    BY PartitionAt
<1>2. /\ Instance(u) = x => TodoAt(l, x) # {}
      /\ Instance(u) = x /\ Single(TodoAt(l, x)) => TodoAt(Tail(l), x) = {}
      /\ Instance(u) # x /\ TodoAt(l, x) = {} => TodoAt(Tail(l), x) = {}
      /\ Instance(u) # x /\ Single(TodoAt(l, x)) => Single(TodoAt(Tail(l), x))
    BY TailPlaces
<1>3. /\ Instance(u) # x => TodoAt(Append(q, u), x) = TodoAt(q, x)
      /\ Instance(u) = x /\ TodoAt(q, x) = {} => Single(TodoAt(Append(q, u), x))
    BY AppendPlaces
<1> QED BY <1>1, <1>2, <1>3 DEF At, OneOf, NoneOf

(* One list after another.                                                 *)
IsConcat(s, q, r, S) ==
    /\ Len(q) \in Nat /\ Len(r) \in Nat
    /\ s \in Seq(S) /\ DOMAIN s = 1 .. (Len(q) + Len(r))
    /\ \A i \in 1 .. Len(q) : s[i] = q[i]
    /\ \A i \in 1 .. Len(r) : s[Len(q) + i] = r[i]

(* What the concatenation of two lists is.                                 *)
LEMMA ConcatIs ==
    ASSUME NEW S, NEW q \in Seq(S), NEW r \in Seq(S)
    PROVE  IsConcat(q \o r, q, r, S)
<1> DEFINE s == q \o r
<1>1. s \in Seq(S) /\ Len(s) = Len(q) + Len(r) /\ Len(q) \in Nat /\ Len(r) \in Nat
    OBVIOUS
<1>2. DOMAIN s = 1 .. (Len(q) + Len(r))
    OBVIOUS
<1>3. \A i \in 1 .. Len(q) : s[i] = q[i]
    OBVIOUS
<1>4. \A i \in 1 .. (Len(q) + Len(r)) : i > Len(q) => s[i] = r[i - Len(q)]
    OBVIOUS
<1> HIDE DEF s
<1>5. \A i \in 1 .. Len(r) : s[Len(q) + i] = r[i]
  <2> TAKE i \in 1 .. Len(r)
  <2>1. /\ Len(q) + i \in 1 .. (Len(q) + Len(r)) /\ Len(q) + i > Len(q)
        /\ (Len(q) + i) - Len(q) = i
      BY <1>1
  <2>2. s[Len(q) + i] = r[(Len(q) + i) - Len(q)]
      BY <1>4, <2>1
  <2> QED BY <2>1, <2>2
<1>6. IsConcat(s, q, r, S)
    BY <1>1, <1>2, <1>3, <1>5 DEF IsConcat
<1> QED BY <1>6 DEF s

(* checkpoint(): what is being done and what is to be done, in a list.     *)
LEMMA CheckpointPart ==
    ASSUME NEW d, IsFiniteSet(DOMAIN d), \A i \in DOMAIN d : d[i].task \in TaskRec,
           NEW q \in Seq(TaskRec), NEW c, NEW r, NEW p, Partition(q, d, <<>>, c, r, p),
           NEW n, n = Cardinality(DOMAIN d), NEW f \in Bijection(1 .. n, DOMAIN d)
    PROVE  LET l == [i \in 1 .. n |-> d[f[i]].task] \o q IN
           l \in Seq(TaskRec) /\ Partition(<<>>, NoTasks, l, c, r, p)
<1> DEFINE a == [i \in 1 .. n |-> d[f[i]].task]
           l == a \o q
           m == Len(q)
<1>1. /\ n \in Nat /\ \A i \in 1 .. n : f[i] \in DOMAIN d
      /\ \A i, j \in 1 .. n : f[i] = f[j] => i = j
      /\ \A k \in DOMAIN d : \E i \in 1 .. n : f[i] = k
    BY FS_CardinalityType DEF Bijection, Injection, Surjection, IsInjective
<1>2. a \in Seq(TaskRec) /\ Len(a) = n /\ \A i \in 1 .. n : a[i] = d[f[i]].task
    BY <1>1, SMTT(30)
<1> HIDE DEF a
<1>3. /\ l \in Seq(TaskRec) /\ m \in Nat /\ DOMAIN q = 1 .. m /\ DOMAIN l = 1 .. (n + m)
      /\ \A i \in 1 .. n : l[i] = a[i]
      /\ \A i \in 1 .. m : l[n + i] = q[i]
  <2>1. IsConcat(l, a, q, TaskRec)
      BY <1>2, ConcatIs
  <2>2. DOMAIN q = 1 .. Len(q)
      BY SeqDomain
  <2> HIDE DEF l
  <2> QED BY <1>2, <2>1, <2>2 DEF IsConcat
<1> HIDE DEF l, m
<1> SUFFICES ASSUME NEW x PROVE At(x, <<>>, NoTasks, l, c, r, p)
    BY <1>3, PartitionAt DEF l, a
<1>4. At(x, q, d, <<>>, c, r, p)
    BY PartitionAt
<1>5. TodoAt(<<>>, x) = {} /\ DoingAt(NoTasks, x) = {}
    BY EmptyPlaces
<1>6. \A i \in 1 .. (n + m) : i \in 1 .. n \/ \E j \in 1 .. m : i = n + j
  <2> TAKE i \in 1 .. (n + m)
  <2>1. CASE i > n
    <3>1. i - n \in 1 .. m /\ i = n + (i - n)
        BY <1>1, <1>3, <2>1
    <3> QED BY <3>1
  <2> QED BY <1>1, <1>3, <2>1
<1>7. \A i \in 1 .. n : i \in 1 .. (n + m)
    BY <1>1, <1>3
<1>8. \A j \in 1 .. m : n + j \in 1 .. (n + m) /\ n + j \notin 1 .. n
    BY <1>1, <1>3
<1>9. \A i \in 1 .. n : i \in TodoAt(l, x) <=> f[i] \in DoingAt(d, x)
    BY <1>1, <1>2, <1>3, <1>7 DEF TodoAt, DoingAt
<1>10. \A j \in 1 .. m : n + j \in TodoAt(l, x) <=> j \in TodoAt(q, x)
    BY <1>3, <1>8 DEF TodoAt
<1>11. TodoAt(l, x) \subseteq 1 .. (n + m) /\ TodoAt(q, x) \subseteq 1 .. m
       /\ DoingAt(d, x) \subseteq DOMAIN d
    BY <1>3 DEF TodoAt, DoingAt
<1>12. ASSUME TodoAt(q, x) = {}, DoingAt(d, x) = {} PROVE TodoAt(l, x) = {}
    BY <1>6, <1>9, <1>10, <1>11, <1>12
<1>13. ASSUME Single(TodoAt(q, x)), DoingAt(d, x) = {} PROVE Single(TodoAt(l, x))
  <2>1. PICK j : TodoAt(q, x) = {j}
      BY <1>13 DEF Single
  <2>2. j \in 1 .. m
      BY <1>11, <2>1
  <2>3. n + j \in TodoAt(l, x)
      BY <1>10, <2>1, <2>2
  <2>4. \A i \in TodoAt(l, x) : i = n + j
      BY <1>6, <1>9, <1>10, <1>11, <1>13, <2>1
  <2>5. TodoAt(l, x) = {n + j}
      BY <2>3, <2>4
  <2> QED BY <2>5 DEF Single
<1>14. ASSUME TodoAt(q, x) = {}, Single(DoingAt(d, x)) PROVE Single(TodoAt(l, x))
  <2>1. PICK k : DoingAt(d, x) = {k}
      BY <1>14 DEF Single
  <2>2. PICK i \in 1 .. n : f[i] = k
      BY <1>1, <1>11, <2>1
  <2>3. i \in TodoAt(l, x)
      BY <1>9, <2>1, <2>2
  <2>4. ASSUME NEW h \in TodoAt(l, x) PROVE h = i
    <3>1. CASE h \in 1 .. n
      <4>1. f[h] = f[i]
          BY <1>9, <2>1, <2>2, <3>1
      <4> QED BY <1>1, <2>2, <3>1, <4>1
    <3>2. CASE h \notin 1 .. n
      <4>1. PICK j \in 1 .. m : h = n + j
          BY <1>6, <1>11, <3>2
      <4> QED BY <1>10, <1>14, <4>1
    <3> QED BY <3>1, <3>2
  <2>5. TodoAt(l, x) = {i}
      BY <2>3, <2>4
  <2> QED BY <2>5 DEF Single
<1> QED BY <1>4, <1>5, <1>12, <1>13, <1>14 DEF At, OneOf, NoneOf

(* A shard in one place occurs once.                                       *)
LEMMA OccursOnce ==
    ASSUME NEW x,
           OneOf(TodoAt(todo, x), DoingAt(doing, x), TodoAt(restoring.left, x),
                 x \in consumed, x \in dropped)
    PROVE  Occurrences(x) = 1
<1>1. \A S : Single(S) => Cardinality(S) = 1
    BY FS_Singleton DEF Single
<1>2. Cardinality({}) = 0
    BY FS_EmptySet
<1>3. Occurrences(x) = Cardinality(TodoAt(todo, x)) + Cardinality(DoingAt(doing, x))
          + Cardinality(TodoAt(restoring.left, x))
          + (IF x \in consumed THEN 1 ELSE 0) + (IF x \in dropped THEN 1 ELSE 0)
    BY DEF Occurrences, TodoAt, DoingAt
<1> QED BY <1>1, <1>2, <1>3 DEF OneOf

-----------------------------------------------------------------------------
(* Ids.                                                                    *)

(* Every task of K1 stands for one of K: its id, and its shard.            *)
Covered(K1, K) == \A t \in K1 : \E u \in K : u.id = t.id /\ Instance(u) = Instance(t)

(* What is known of the ids stays true of fewer tasks, fewer reports and   *)
(* more shards processed.                                                  *)
LEMMA IdentCovered ==
    ASSUME NEW K, NEW K1, NEW R, NEW R1, NEW P, NEW P1, NEW n,
           Covered(K1, K), R1 \subseteq R, P \subseteq P1,
           Identity(K, n), ReportsTrue(K, R, P, n)
    PROVE  Identity(K1, n) /\ ReportsTrue(K1, R1, P1, n)
<1>1. \A t \in K1 : \E u \in K : u.id = t.id /\ Instance(u) = Instance(t)
    BY DEF Covered
<1>2. Identity(K1, n)
    BY <1>1 DEF Identity
<1>3. ASSUME NEW m \in R1
      PROVE  m.id < n /\ (m.ok => \A t \in K1 : t.id = m.id => Instance(t) \in P1)
  <2>1. m.id < n /\ (m.ok => \A t \in K : t.id = m.id => Instance(t) \in P)
      BY DEF ReportsTrue
  <2> QED BY <1>1, <2>1
<1> QED BY <1>2, <1>3 DEF ReportsTrue

(* Tasks with new ids: no other task has them, and no report is about them. *)
LEMMA IdentFresh ==
    ASSUME NEW K, NEW Q, NEW R, NEW P, NEW n \in Nat, NEW k \in Nat, n <= k,
           \A t \in K \cup Q : t.id \in Nat, \A m \in R : m.id \in Nat,
           \A t \in Q : n <= t.id /\ t.id < k,
           \A t, u \in Q : t.id = u.id => Instance(t) = Instance(u),
           Identity(K, n), ReportsTrue(K, R, P, n)
    PROVE  Identity(K \cup Q, k) /\ ReportsTrue(K \cup Q, R, P, k)
<1>a. \A i \in Nat : i < n => i < k
    OBVIOUS
<1>b. \A i, j \in Nat : i < n /\ n <= j => i # j
    OBVIOUS
<1>1. \A t \in K : t.id < n /\ t.id \in Nat
    BY DEF Identity
<1>2. \A t, u \in K : t.id = u.id => Instance(t) = Instance(u)
    BY DEF Identity
<1>3. \A t \in K, u \in Q : t.id # u.id
    BY <1>b, <1>1
<1>4. \A t \in K \cup Q : t.id < k
    BY <1>a, <1>1
<1>5. \A t, u \in K \cup Q : t.id = u.id => Instance(t) = Instance(u)
    BY <1>2, <1>3
<1>6. ASSUME NEW m \in R
      PROVE  m.id < k /\ (m.ok => \A t \in K \cup Q : t.id = m.id => Instance(t) \in P)
  <2>1. m.id < n /\ m.id \in Nat
      BY DEF ReportsTrue
  <2>2. m.ok => \A t \in K : t.id = m.id => Instance(t) \in P
      BY DEF ReportsTrue
  <2>3. \A t \in Q : t.id # m.id
      BY <1>b, <2>1
  <2>4. m.id < k
      BY <1>a, <2>1
  <2> QED BY <2>2, <2>3, <2>4
<1> QED BY <1>4, <1>5, <1>6 DEF Identity, ReportsTrue

(* Nothing has happened to the dataset.                                    *)
LEMMA SameKnown == ASSUME NEW K PROVE Covered(K, K)
BY DEF Covered

-----------------------------------------------------------------------------
(* report_task_status(), whoever calls it.                                 *)

Reported(id) ==
    /\ todo' \in Seq(TaskRec) /\ DoingTyped(doing')
    /\ IdsApart(todo', doing')
    /\ id \notin DOMAIN doing' /\ DOMAIN doing' \subseteq DOMAIN doing
    /\ \A i \in DOMAIN doing' : doing'[i] = doing[i]
    /\ \A h : Covered(Known(todo', doing', h), Known(todo, doing, h))
    /\ consumed' \subseteq processed
    /\ \A l, p : Partition(todo, doing, l, consumed, dropped, p)
                    => Partition(todo', doing', l, consumed', dropped', p)

(* report_task_status(): what it does to the queues, the counters and the  *)
(* places of a task, whether it succeeded, failed or is not known.         *)
LEMMA ReportStep ==
    ASSUME DInv, NEW id, NEW ok, report_task_status(id, ok),
           ok => \A t \in Known(todo, doing, has) : t.id = id => Instance(t) \in processed
    PROVE  Reported(id)
<1>1. todo \in Seq(TaskRec) /\ DoingTyped(doing) /\ IdsApart(todo, doing) /\ consumed \subseteq processed
    BY DEF DInv, Types, DataTypes, Ident
<1>2. CASE id \notin DOMAIN doing
  <2>1. UNCHANGED <<todo, doing, dropped, consumed>>
      BY <1>2 DEF report_task_status
  <2>2. \A h : Covered(Known(todo', doing', h), Known(todo, doing, h))
      BY <2>1, SameKnown
  <2> QED BY <1>1, <1>2, <2>1, <2>2 DEF Reported
<1>3. CASE id \in DOMAIN doing
  <2> DEFINE t == doing[id].task
             u == [t EXCEPT !.retry = @ + 1]
             e == Without(doing, id)
  <2>1. doing' = e /\ t \in TaskRec /\ t.id = id
      BY <1>1, <1>3 DEF report_task_status, DoingTyped
  <2>2. u \in TaskRec /\ u.id = t.id /\ Instance(u) = Instance(t)
      BY <2>1 DEF TaskRec, Instance
  <2>3. \/ ok /\ consumed' = consumed \cup {Instance(t)} /\ UNCHANGED <<todo, dropped>>
        \/ dropped' = dropped \cup {Instance(t)} /\ UNCHANGED <<todo, consumed>>
        \/ todo' = Append(todo, u) /\ UNCHANGED <<dropped, consumed>>
      BY <1>3 DEF report_task_status
  <2>4. DOMAIN e = DOMAIN doing \ {id} /\ \A i \in DOMAIN e : e[i] = doing[i]
      BY DEF Without
  <2>5. e = [i \in DOMAIN e |-> e[i]]
      BY DEF Without
  <2>6. t \in Known(todo, doing, has)
      BY <1>3 DEF Known
  <2> HIDE DEF u, e
  <2>7. DoingTyped(e)
      BY <1>1, <2>4, <2>5, FS_RemoveElement DEF DoingTyped
  <2>8. ASSUME NEW l, NEW p, Partition(todo, doing, l, consumed, dropped, p)
        PROVE  Partition(todo', doing', l, consumed', dropped', p)
    <3>1. /\ Partition(Append(todo, u), Without(doing, id), l, consumed, dropped, p)
          /\ Partition(todo, Without(doing, id), l, consumed \cup {Instance(u)}, dropped, p)
          /\ Partition(todo, Without(doing, id), l, consumed, dropped \cup {Instance(u)}, p)
        BY <1>1, <1>3, <2>2, <2>8, ReportPart
    <3> QED BY <2>1, <2>2, <2>3, <3>1 DEF e
  <2>9. consumed' \subseteq processed
      BY <1>1, <2>1, <2>3, <2>6
  <2>10. CASE todo' = todo
    <3>1. IdsApart(todo', doing')
        BY <1>1, <2>1, <2>4, <2>10 DEF IdsApart
    <3>2. \A h : Known(todo', doing', h) \subseteq Known(todo, doing, h)
        BY <2>1, <2>4, <2>10 DEF Known
    <3>3. \A h : Covered(Known(todo', doing', h), Known(todo, doing, h))
        BY <3>2 DEF Covered
    <3> QED BY <1>1, <2>1, <2>4, <2>7, <2>8, <2>9, <2>10, <3>1, <3>3 DEF Reported
  <2>11. CASE todo' = Append(todo, u)
    <3> DEFINE n == Len(todo)
    <3>1. /\ n \in Nat /\ DOMAIN todo = 1 .. n
          /\ todo' \in Seq(TaskRec) /\ DOMAIN todo' = 1 .. (n + 1)
          /\ \A i \in 1 .. n : todo'[i] = todo[i]
          /\ todo'[n + 1] = u
        BY <1>1, <2>2, <2>11, AppendIs
    <3> HIDE DEF n
    <3>2. \A i \in 1 .. (n + 1) : i \in 1 .. n \/ i = n + 1
        BY <3>1
    <3>3. \A i \in DOMAIN todo' : (i \in DOMAIN todo /\ todo'[i] = todo[i]) \/ (i = n + 1 /\ todo'[i] = u)
        BY <3>1, <3>2
    <3>4. \A i \in DOMAIN todo : todo[i].id # id
        BY <1>1, <1>3 DEF IdsApart
    <3>5. IdsApart(todo', doing')
        BY <1>1, <2>1, <2>2, <2>4, <3>3, <3>4 DEF IdsApart
    <3>6. ASSUME NEW h, NEW v \in Known(todo', doing', h)
          PROVE  \E z \in Known(todo, doing, h) : z.id = v.id /\ Instance(z) = Instance(v)
      <4>1. v = u \/ v \in Known(todo, doing, h)
          BY <2>1, <2>4, <3>3 DEF Known, Elems
      <4>2. t \in Known(todo, doing, h)
          BY <1>3 DEF Known
      <4> QED BY <2>2, <4>1, <4>2
    <3>7. \A h : Covered(Known(todo', doing', h), Known(todo, doing, h))
        BY <3>6 DEF Covered
    <3> QED BY <2>1, <2>4, <2>7, <2>8, <2>9, <3>1, <3>5, <3>7 DEF Reported
  <2> QED BY <2>3, <2>10, <2>11
<1> QED BY <1>2, <1>3

(* The places of the shards after a report.                                *)
LEMMA ReportPlaces ==
    ASSUME DInv, NEW id, NEW ok, report_task_status(id, ok), Reported(id),
           UNCHANGED <<pass, restoring, ckpt, reading>>,
           raced' = (raced \/ (Overtaking /\ id \in DOMAIN doing))
    PROVE  Places'
<1>1. Places /\ LockTypes
    BY DEF DInv, Types
<1>2. CASE id \notin DOMAIN doing
  <2>1. UNCHANGED <<todo, doing, dropped, consumed, raced>>
      BY <1>1, <1>2 DEF report_task_status, LockTypes
  <2> QED BY <1>1, <2>1 DEF Places, Live, Pending
<1>3. CASE id \in DOMAIN doing
  <2>1. Live => Live'
      BY DEF Reported, Live
  <2>2. Overtaking => raced'
      BY <1>3
  <2>3. ~ raced' => ~ raced
      BY <1>1 DEF LockTypes
  <2>4. ~ raced' => restoring.at = "none" /\ reading = NotReading
      BY <2>2 DEF Overtaking, NotRestoring
  <2> QED BY <1>1, <2>1, <2>3, <2>4 DEF Places
<1> QED BY <1>2, <1>3

(* The recovery of the other workers is not disturbed by one task less.    *)
LEMMA ReportRecovering ==
    ASSUME DInv, NEW id, Reported(id), UNCHANGED rec, dead \subseteq dead'
    PROVE  Recovering'
<1>1. Recovering
    BY DEF DInv
<1> QED BY <1>1 DEF Recovering, Reported

(* Tasks that workers no longer have.                                      *)
HasLess == has' = [w \in Workers |-> has'[w]] /\ \A w \in Workers : has'[w] \subseteq has[w]

(* Fewer tasks in the hands of workers are fewer tasks known.              *)
LEMMA LessKnown ==
    ASSUME HasLess, NEW q, NEW d, NEW q1, NEW d1,
           \A h : Covered(Known(q1, d1, h), Known(q, d, h))
    PROVE  Covered(Known(q1, d1, has'), Known(q, d, has))
<1>1. Known(q1, d1, has') \subseteq Known(q1, d1, has)
    BY DEF HasLess, Known
<1> QED BY <1>1 DEF Covered

(* Identifiers and types survive a report.                                 *)
LEMMA ReportIdent ==
    ASSUME DInv, NEW id, Reported(id), HasLess, UNCHANGED <<pass, nextId, ckpt, processed>>,
           reports' \subseteq [id : Nat, ok : BOOLEAN, again : BOOLEAN],
           \A m \in reports' : \E k \in reports : m.id = k.id /\ m.ok = k.ok
    PROVE  DataTypes' /\ Ident'
<1>1. DataTypes /\ Ident
    BY DEF DInv, Types
<1>2. DataTypes'
    BY <1>1 DEF DataTypes, Reported, HasLess
<1>3. Covered(Known(todo', doing', has'), Known(todo, doing, has))
    BY LessKnown DEF Reported
<1>4. /\ Identity(Known(todo', doing', has'), nextId)
      /\ ReportsTrue(Known(todo', doing', has'), reports, processed, nextId)
    BY <1>1, <1>3, IdentCovered DEF Ident
<1>5. ReportsTrue(Known(todo', doing', has'), reports', processed, nextId)
    BY <1>4 DEF ReportsTrue
<1>6. IdsApart(todo', doing') /\ consumed' \subseteq processed
    BY DEF Reported
<1>7. Identity(Known(todo', doing', has'), nextId') /\ ReportsTrue(Known(todo', doing', has'), reports', processed', nextId')
    BY <1>4, <1>5
<1>8. ckpt'.consumed \subseteq processed'
    BY <1>1 DEF Ident
<1> QED BY <1>2, <1>6, <1>7, <1>8 DEF Ident

(* A report of a worker arrives, the first time or again.                  *)
LEMMA DeliverReportInv ==
    ASSUME DInv, NEW m \in reports, DeliverReport(m)
    PROVE  DInv'
<1>1. DataTypes /\ LockTypes /\ Ident
    BY DEF DInv, Types
<1>2. m \in [id : Nat, ok : BOOLEAN, again : BOOLEAN]
    BY <1>1 DEF DataTypes
<1>3. m.ok => \A t \in Known(todo, doing, has) : t.id = m.id => Instance(t) \in processed
    BY <1>1 DEF Ident, ReportsTrue
<1>4. report_task_status(m.id, m.ok) /\ UNCHANGED <<pass, nextId, has, processed, dead, lockFree>>
      /\ raced' = (raced \/ (Overtaking /\ m.id \in DOMAIN doing))
    BY DEF DeliverReport
<1>5. Reported(m.id)
    BY <1>3, <1>4, ReportStep
<1>6. HasLess
    BY <1>1, <1>4 DEF HasLess, DataTypes
<1>7. /\ [m EXCEPT !.again = FALSE] \in [id : Nat, ok : BOOLEAN, again : BOOLEAN]
      /\ [m EXCEPT !.again = FALSE].id = m.id /\ [m EXCEPT !.again = FALSE].ok = m.ok
    BY <1>2
<1>8. reports' = reports \ {m} \/ reports' = (reports \ {m}) \cup {[m EXCEPT !.again = FALSE]}
    BY DEF DeliverReport
<1>9. /\ reports' \subseteq [id : Nat, ok : BOOLEAN, again : BOOLEAN]
      /\ \A r \in reports' : \E k \in reports : r.id = k.id /\ r.ok = k.ok
    BY <1>1, <1>7, <1>8 DEF DataTypes
<1>10. UNCHANGED <<rec, snap, reading, ckpt, restoring>>
    BY <1>4 DEF lockFree
<1>11. DataTypes' /\ Ident'
    BY <1>4, <1>5, <1>6, <1>9, <1>10, ReportIdent
<1>12. Places'
    BY <1>4, <1>5, <1>10, ReportPlaces
<1>13. Recovering'
    BY <1>4, <1>5, <1>10, ReportRecovering
<1>14. LockTypes'
    BY <1>1, <1>4, <1>10 DEF LockTypes
<1> QED BY <1>11, <1>12, <1>13, <1>14 DEF DInv, Types

(* The timeout thread gives up a task it found too old.                    *)
LEMMA TimeoutReportInv ==
    ASSUME DInv, TimeoutReport
    PROVE  DInv'
<1>1. DataTypes /\ LockTypes
    BY DEF DInv, Types
<1>2. /\ report_task_status(snap[1], FALSE)
      /\ dead' = dead \cup {snap[2]} /\ has' = [has EXCEPT ![snap[2]] = {}]
      /\ raced' = (raced \/ (Overtaking /\ snap[1] \in DOMAIN doing))
      /\ UNCHANGED <<pass, nextId, reports, processed, rec, reading, ckpt, restoring, faults>>
    BY DEF TimeoutReport
<1>3. Reported(snap[1])
    BY <1>2, ReportStep
<1>4. HasLess
    BY <1>1, <1>2 DEF HasLess, DataTypes
<1>5. /\ reports' \subseteq [id : Nat, ok : BOOLEAN, again : BOOLEAN]
      /\ \A r \in reports' : \E k \in reports : r.id = k.id /\ r.ok = k.ok
    BY <1>1, <1>2 DEF DataTypes
<1>6. DataTypes' /\ Ident'
    BY <1>2, <1>3, <1>4, <1>5, ReportIdent
<1>7. Places'
    BY <1>2, <1>3, ReportPlaces
<1>8. Recovering'
    BY <1>2, <1>3, ReportRecovering
<1>9. LockTypes'
    BY <1>1, <1>2 DEF LockTypes
<1> QED BY <1>6, <1>7, <1>8, <1>9 DEF DInv, Types

(* recover_tasks() puts one task of a dead worker back.                    *)
LEMMA RecoverOneInv ==
    ASSUME DInv, NEW w \in Workers, NEW id, RecoverOne(w, id)
    PROVE  DInv'
<1>1. DataTypes /\ LockTypes /\ Recovering
    BY DEF DInv, Types
<1>2. /\ rec[w].at = "report" /\ id \in rec[w].ids
      /\ report_task_status(id, FALSE)
      /\ rec' = [rec EXCEPT ![w].ids = @ \ {id}]
      /\ raced' = (raced \/ (Overtaking /\ id \in DOMAIN doing))
      /\ UNCHANGED <<pass, nextId, workerVars, snap, reading, ckpt, restoring, faults>>
    BY DEF RecoverOne
<1>3. Reported(id)
    BY <1>2, ReportStep
<1>4. UNCHANGED <<has, reports, processed, dead>>
    BY <1>2 DEF workerVars
<1>5. HasLess
    BY <1>1, <1>4 DEF HasLess, DataTypes
<1>6. /\ reports' \subseteq [id : Nat, ok : BOOLEAN, again : BOOLEAN]
      /\ \A r \in reports' : \E k \in reports : r.id = k.id /\ r.ok = k.ok
    BY <1>1, <1>4 DEF DataTypes
<1>7. DataTypes' /\ Ident'
    BY <1>2, <1>3, <1>4, <1>5, <1>6, ReportIdent
<1>8. Places'
    BY <1>2, <1>3, ReportPlaces
<1>9. Recovering'
  <2>1. /\ rec' = [v \in Workers |-> rec'[v]]
        /\ \A v \in Workers \ {w} : rec'[v] = rec[v]
        /\ rec'[w] = [at |-> rec[w].at, size |-> rec[w].size, ids |-> rec[w].ids \ {id}]
    <3>1. /\ rec = [v \in Workers |-> rec[v]]
          /\ rec[w] = [at |-> rec[w].at, size |-> rec[w].size, ids |-> rec[w].ids]
        BY <1>1 DEF Recovering
    <3> DEFINE r == [rec[w] EXCEPT !.ids = @ \ {id}]
    <3>2. rec' = [rec EXCEPT ![w] = r]
        BY <1>2
    <3>3. r = [at |-> rec[w].at, size |-> rec[w].size, ids |-> rec[w].ids \ {id}]
        BY <3>1
    <3> HIDE DEF r
    <3> QED BY <3>1, <3>2, <3>3
  <2>2. \A i \in DOMAIN doing' : i # id /\ i \in DOMAIN doing /\ doing'[i] = doing[i]
      BY <1>3 DEF Reported
  <2>3. rec[w] # Idle
      BY <1>2 DEF Idle
  <2> QED BY <1>1, <1>2, <1>4, <2>1, <2>2, <2>3 DEF Recovering
<1>10. LockTypes'
    BY <1>1, <1>2 DEF LockTypes
<1> QED BY <1>7, <1>8, <1>9, <1>10 DEF DInv, Types

-----------------------------------------------------------------------------
(* The steps that leave the dataset alone.                                 *)

(* A step that leaves the queues alone leaves every instance in its place. *)
LEMMA PlacesSame ==
    ASSUME Places, UNCHANGED <<todo, doing, pass, dropped, consumed, reading, ckpt, restoring, raced>>
    PROVE  Places'
BY DEF Places, Live, Pending

(* The data set starts with every instance still to be created.            *)
LEMMA DInitInv == Init => DInv
<1> SUFFICES ASSUME Init PROVE DInv
    OBVIOUS
<1>1. /\ todo = <<>> /\ doing = NoTasks /\ pass = 0 /\ nextId = 0
      /\ dropped = {} /\ consumed = {} /\ has = [w \in Workers |-> {}] /\ reports = {}
      /\ processed = {} /\ rec = [w \in Workers |-> Idle] /\ reading = NotReading
      /\ ckpt = NoCkpt /\ restoring = NotRestoring /\ raced = FALSE
    BY DEF Init, NoTasks
<1>2. DOMAIN NoTasks = {} /\ NoTasks = [i \in {} |-> NoTasks[i]]
    BY DEF NoTasks
<1>3. <<>> \in Seq(TaskRec) /\ DOMAIN <<>> = {}
    OBVIOUS
<1>4. IsFiniteSet({})
    BY FS_EmptySet
<1>5. DoingTyped(doing)
    BY <1>1, <1>2, <1>4 DEF DoingTyped
<1>6. DataTypes
    BY <1>1, <1>3, <1>5 DEF DataTypes
<1>7. LockTypes
    BY <1>1, <1>3 DEF LockTypes, NotReading, NotRestoring, NoCkpt
<1>8. Ident
  <2>1. Known(todo, doing, has) = {}
      BY <1>1, <1>2, <1>3 DEF Known, Elems
  <2>2. ckpt.consumed = {}
      BY <1>1 DEF NoCkpt
  <2> QED BY <1>1, <1>2, <1>3, <2>1, <2>2 DEF Ident, IdsApart, Identity, ReportsTrue
<1>9. Recovering
    BY <1>1 DEF Recovering, Idle
<1>10. Places
  <2>1. restoring.at = "none" /\ restoring.left = <<>>
      BY <1>1 DEF NotRestoring
  <2>2. \A x : ~ Begun(x, 0)
      BY DEF Begun
  <2>3. Live
      BY <1>1, <2>1, <2>2, EmptyPlaces DEF Live, Partition, NoneOf
  <2> QED BY <1>1, <2>1, <2>3 DEF Places
<1> QED BY <1>6, <1>7, <1>8, <1>9, <1>10 DEF DInv, Types

(* What the dataset's own variables need when workers only have less.      *)
LEMMA SameIdent ==
    ASSUME DInv, HasLess, UNCHANGED <<datasetVars, reports, processed, ckpt>>
    PROVE  DataTypes' /\ Ident'
<1>1. DataTypes /\ Ident
    BY DEF DInv, Types
<1>2. UNCHANGED <<todo, doing, pass, nextId, dropped, consumed>>
    BY DEF datasetVars
<1>3. DataTypes'
    BY <1>1, <1>2 DEF DataTypes, HasLess
<1>4. Covered(Known(todo, doing, has'), Known(todo, doing, has))
    BY LessKnown, SameKnown
<1>5. /\ Identity(Known(todo, doing, has'), nextId)
      /\ ReportsTrue(Known(todo, doing, has'), reports, processed, nextId)
    BY <1>1, <1>4, IdentCovered DEF Ident
<1> QED BY <1>1, <1>2, <1>3, <1>5 DEF Ident

(* A worker reports a task it holds.                                       *)
LEMMA SendReportInv ==
    ASSUME DInv, NEW w \in Workers, NEW task \in has[w], NEW ok \in BOOLEAN, SendReport(w, task, ok)
    PROVE  DInv'
<1>1. DataTypes /\ LockTypes /\ Ident /\ Recovering /\ Places
    BY DEF DInv, Types
<1>2. /\ has' = [has EXCEPT ![w] = @ \ {task}]
      /\ reports' = reports \cup {[id |-> task.id, ok |-> ok, again |-> TRUE]}
      /\ UNCHANGED <<todo, doing, pass, nextId, dropped, consumed>>
      /\ UNCHANGED <<dead, rec, snap, reading, ckpt, restoring, raced>>
      /\ processed \subseteq processed'
      /\ ok => Instance(task) \in processed'
    BY DEF SendReport, datasetVars, lockFree
<1> DEFINE m == [id |-> task.id, ok |-> ok, again |-> TRUE]
           K == Known(todo, doing, has)
           K1 == Known(todo, doing, has')
<1>3. task \in TaskRec /\ task \in K
    BY <1>1 DEF DataTypes, Known
<1>4. m \in [id : Nat, ok : BOOLEAN, again : BOOLEAN] /\ m.id = task.id /\ m.ok = ok
    BY <1>3 DEF TaskRec
<1>5. HasLess
    BY <1>1, <1>2 DEF HasLess, DataTypes
<1>6. DataTypes'
    BY <1>1, <1>2, <1>4, <1>5 DEF DataTypes, HasLess
<1>7. Covered(K1, K)
    BY <1>5, LessKnown, SameKnown
<1>8. Identity(K1, nextId) /\ ReportsTrue(K1, reports, processed', nextId)
    BY <1>1, <1>2, <1>7, IdentCovered DEF Ident
<1>9. ReportsTrue(K1, {m}, processed', nextId)
  <2>1. m.id < nextId
      BY <1>1, <1>3, <1>4 DEF Ident, Identity
  <2>2. ASSUME m.ok, NEW t \in K1, t.id = m.id PROVE Instance(t) \in processed'
    <3>1. PICK u \in K : u.id = t.id /\ Instance(u) = Instance(t)
        BY <1>7, <2>2 DEF Covered
    <3>2. Instance(u) = Instance(task)
        BY <1>1, <1>3, <1>4, <2>2, <3>1 DEF Ident, Identity
    <3> QED BY <1>2, <1>4, <2>2, <3>1, <3>2
  <2> QED BY <2>1, <2>2 DEF ReportsTrue
<1>10. reports' = reports \cup {m}
    BY <1>2
<1> HIDE DEF m, K, K1
<1>11. ReportsTrue(K1, reports', processed', nextId)
    BY <1>8, <1>9, <1>10 DEF ReportsTrue
<1>12. IdsApart(todo', doing') /\ consumed' \subseteq processed' /\ ckpt'.consumed \subseteq processed'
    BY <1>1, <1>2 DEF Ident
<1>13. Known(todo, doing, has)' = K1 /\ nextId' = nextId
    BY <1>2 DEF K1
<1>14. Ident'
    BY <1>8, <1>11, <1>12, <1>13 DEF Ident
<1>15. LockTypes' /\ Recovering' /\ Places'
    BY <1>1, <1>2, PlacesSame DEF LockTypes, Recovering
<1> QED BY <1>6, <1>14, <1>15 DEF DInv, Types

(* A worker dies with the tasks it holds.                                  *)
LEMMA DieInv ==
    ASSUME DInv, NEW w \in Workers, Die(w)
    PROVE  DInv'
<1>1. DataTypes /\ LockTypes /\ Recovering /\ Places
    BY DEF DInv, Types
<1>2. /\ dead' = dead \cup {w} /\ has' = [has EXCEPT ![w] = {}]
      /\ UNCHANGED <<datasetVars, reports, processed, rec, snap, reading, ckpt, restoring, raced>>
    BY DEF Die, lockFree
<1>3. HasLess
    BY <1>1, <1>2 DEF HasLess, DataTypes
<1>4. DataTypes' /\ Ident'
    BY <1>2, <1>3, SameIdent
<1>5. LockTypes' /\ Recovering' /\ Places'
    BY <1>1, <1>2, PlacesSame DEF LockTypes, Recovering, datasetVars
<1> QED BY <1>4, <1>5 DEF DInv, Types

(* recover_tasks() begins for a dead worker.                               *)
LEMMA RecoverBeginInv ==
    ASSUME DInv, NEW w \in Workers, RecoverBegin(w)
    PROVE  DInv'
<1>1. DataTypes /\ LockTypes /\ Recovering /\ Places
    BY DEF DInv, Types
<1>2. /\ w \in dead
      /\ UNCHANGED <<datasetVars, workerVars, snap, reading, ckpt, restoring, raced>>
    BY DEF RecoverBegin
<1>3. PICK n : rec' = [rec EXCEPT ![w] = [at |-> "scan", size |-> n, ids |-> {}]]
    BY DEF RecoverBegin
<1>4. HasLess
    BY <1>1, <1>2 DEF HasLess, DataTypes, workerVars
<1>5. DataTypes' /\ Ident'
    BY <1>2, <1>4, SameIdent DEF workerVars
<1>6. LockTypes' /\ Places'
    BY <1>1, <1>2, PlacesSame DEF LockTypes, datasetVars
<1>7. Recovering'
    BY <1>1, <1>2, <1>3 DEF Recovering, datasetVars, workerVars
<1> QED BY <1>5, <1>6, <1>7 DEF DInv, Types

(* Two fields of the recovery's record.                                    *)
SetTwo(r, u, v) == [r EXCEPT !.at = u, !.ids = v]

(* Two fields of the recovery's record set at once.                        *)
LEMMA TwoFields ==
    ASSUME NEW x, NEW y, NEW z, NEW u, NEW v, NEW r, r = [at |-> x, size |-> y, ids |-> z]
    PROVE  SetTwo(r, u, v) = [at |-> u, size |-> y, ids |-> v]
<1>1. [r EXCEPT !.at = u, !.ids = v] = [[r EXCEPT !.at = u] EXCEPT !.ids = v]
    BY SMT
<1>2. [r EXCEPT !.at = u] = [at |-> u, size |-> y, ids |-> z]
    OBVIOUS
<1> DEFINE q == [r EXCEPT !.at = u]
<1>3. q = [at |-> u, size |-> y, ids |-> z]
    BY <1>2
<1> HIDE DEF q
<1>4. [q EXCEPT !.ids = v] = [at |-> u, size |-> y, ids |-> v]
    BY <1>3
<1> QED BY <1>1, <1>4 DEF q, SetTwo

(* recover_tasks() collects the identifiers of the worker's tasks.         *)
LEMMA RecoverScanInv ==
    ASSUME DInv, NEW w \in Workers, RecoverScan(w)
    PROVE  DInv'
<1>1. DataTypes /\ LockTypes /\ Recovering /\ Places
    BY DEF DInv, Types
<1>2. /\ rec[w].at = "scan"
      /\ UNCHANGED <<datasetVars, workerVars, snap, reading, ckpt, restoring, raced>>
    BY DEF RecoverScan
<1>3. w \in dead
    BY <1>1, <1>2 DEF Recovering, Idle
<1>4. HasLess
    BY <1>1, <1>2 DEF HasLess, DataTypes, workerVars
<1>5. DataTypes' /\ Ident'
    BY <1>2, <1>4, SameIdent DEF workerVars
<1>6. LockTypes' /\ Places'
    BY <1>1, <1>2, PlacesSame DEF LockTypes, datasetVars
<1>7. PICK r : /\ rec' = [rec EXCEPT ![w] = r]
               /\ r = [at |-> r.at, size |-> r.size, ids |-> r.ids]
               /\ r.at = "report" => r.ids = RecoverIds(w)
  <2>1. rec[w] = [at |-> rec[w].at, size |-> rec[w].size, ids |-> rec[w].ids]
      BY <1>1 DEF Recovering
  <2> DEFINE a == [rec[w] EXCEPT !.at = "raised"]
             b == [rec[w] EXCEPT !.at = "report", !.ids = RecoverIds(w)]
  <2>2. a = [at |-> "raised", size |-> rec[w].size, ids |-> rec[w].ids]
      BY <2>1
  <2>3. b = [at |-> "report", size |-> rec[w].size, ids |-> RecoverIds(w)]
    <3>1. PICK x, y, z, r : r = rec[w] /\ r = [at |-> x, size |-> y, ids |-> z] /\ y = rec[w].size
        BY <2>1
    <3>2. SetTwo(r, "report", RecoverIds(w))
            = [at |-> "report", size |-> y, ids |-> RecoverIds(w)]
        BY <3>1, TwoFields
    <3> QED BY <3>1, <3>2 DEF SetTwo
  <2>4. rec' = [rec EXCEPT ![w] = a] \/ rec' = [rec EXCEPT ![w] = b]
      BY <1>1 DEF RecoverScan, Recovering
  <2> HIDE DEF a, b
  <2>5. a = [at |-> a.at, size |-> a.size, ids |-> a.ids] /\ a.at # "report"
      BY <2>2
  <2>6. b = [at |-> b.at, size |-> b.size, ids |-> b.ids] /\ b.ids = RecoverIds(w)
      BY <2>3
  <2> QED BY <2>4, <2>5, <2>6
<1>8. Recovering'
  <2>1. /\ rec' = [v \in Workers |-> rec'[v]] /\ rec'[w] = r
        /\ \A v \in Workers \ {w} : rec'[v] = rec[v]
      BY <1>1, <1>7 DEF Recovering
  <2>2. UNCHANGED <<doing, dead>>
      BY <1>2 DEF datasetVars, workerVars
  <2>3. \A i \in DOMAIN doing : doing[i].node = w => i \in RecoverIds(w)
      BY DEF RecoverIds
  <2> QED BY <1>1, <1>3, <1>7, <2>1, <2>2, <2>3 DEF Recovering
<1> QED BY <1>5, <1>6, <1>8 DEF DInv, Types

(* The timeout thread finds a task too old.                                *)
LEMMA TimeoutFoundInv ==
    ASSUME DInv, NEW id, TimeoutFound(id)
    PROVE  DInv'
<1>1. DataTypes /\ LockTypes /\ Recovering /\ Places
    BY DEF DInv, Types
<1>2. UNCHANGED <<datasetVars, workerVars, rec, reading, ckpt, restoring, raced>>
    BY DEF TimeoutFound
<1>3. HasLess
    BY <1>1, <1>2 DEF HasLess, DataTypes, workerVars
<1>4. DataTypes' /\ Ident'
    BY <1>2, <1>3, SameIdent DEF workerVars
<1>5. LockTypes' /\ Recovering' /\ Places'
    BY <1>1, <1>2, PlacesSame DEF LockTypes, Recovering, datasetVars, workerVars
<1> QED BY <1>4, <1>5 DEF DInv, Types

-----------------------------------------------------------------------------
(* The checkpoint.                                                         *)

(* checkpoint() begins to read todo.                                       *)
LEMMA CheckpointBeginInv ==
    ASSUME DInv, CheckpointBegin
    PROVE  DInv'
<1>1. DataTypes /\ LockTypes /\ Recovering /\ Places
    BY DEF DInv, Types
<1>2. /\ ckpt = NoCkpt /\ restoring = NotRestoring
      /\ reading' = [at |-> 1, todo |-> <<>>] /\ raced' = FALSE
      /\ UNCHANGED <<datasetVars, workerVars, rec, snap, ckpt, restoring, faults>>
    BY DEF CheckpointBegin
<1>3. UNCHANGED <<todo, doing, pass, nextId, dropped, consumed, has, reports, processed, dead>>
    BY <1>2 DEF datasetVars, workerVars
<1>4. HasLess
    BY <1>1, <1>3 DEF HasLess, DataTypes
<1>5. DataTypes' /\ Ident'
    BY <1>2, <1>3, <1>4, SameIdent
<1>6. reading'.at = 1 /\ reading'.todo = <<>> /\ <<>> \in Seq(TaskRec)
    BY <1>2
<1>7. LockTypes'
    BY <1>1, <1>2, <1>6 DEF LockTypes
<1>8. Recovering'
    BY <1>1, <1>2, <1>3 DEF Recovering
<1>9. Places'
  <2>1. restoring.at = "none"
      BY <1>2 DEF NotRestoring
  <2>2. Live
      BY <1>1, <1>2, <2>1 DEF Places
  <2>3. Live'
      BY <1>2, <1>3, <2>2 DEF Live
  <2>4. Len(todo) \in Nat
      BY <1>1 DEF DataTypes
  <2>5. 1 \in 1 .. (Len(todo) + 1)
      BY <2>4
  <2>6. <<>> = [i \in 1 .. (1 - 1) |-> todo[i]]
      OBVIOUS
  <2> QED BY <1>2, <1>3, <1>6, <2>1, <2>3, <2>5, <2>6 DEF Places
<1> QED BY <1>5, <1>7, <1>8, <1>9 DEF DInv, Types

(* checkpoint() reads one task of todo.                                    *)
LEMMA CheckpointTodoInv ==
    ASSUME DInv, CheckpointTodo
    PROVE  DInv'
<1>1. DataTypes /\ LockTypes /\ Recovering /\ Places
    BY DEF DInv, Types
<1> DEFINE k == reading.at
<1>2. /\ k \in DOMAIN todo
      /\ reading' = [at |-> k + 1, todo |-> Append(reading.todo, todo[k])]
      /\ UNCHANGED <<datasetVars, workerVars, rec, snap, ckpt, restoring, raced, faults>>
    BY DEF CheckpointTodo
<1>3. UNCHANGED <<todo, doing, pass, nextId, dropped, consumed, has, reports, processed, dead>>
    BY <1>2 DEF datasetVars, workerVars
<1>4. HasLess
    BY <1>1, <1>3 DEF HasLess, DataTypes
<1>5. DataTypes' /\ Ident'
    BY <1>2, <1>3, <1>4, SameIdent
<1>6. /\ Len(todo) \in Nat /\ DOMAIN todo = 1 .. Len(todo) /\ \A i \in DOMAIN todo : todo[i] \in TaskRec
      /\ reading.todo \in Seq(TaskRec)
    BY <1>1, SeqDomain DEF DataTypes, LockTypes
<1>7. k \in Nat \ {0} /\ todo[k] \in TaskRec
    BY <1>2, <1>6
<1>8. reading'.at = k + 1 /\ reading'.todo = Append(reading.todo, todo[k])
    BY <1>2
<1>9. Append(reading.todo, todo[k]) \in Seq(TaskRec)
    BY <1>6, <1>7, AppendIs
<1> HIDE DEF k
<1>10. k + 1 \in Nat
    BY <1>7
<1>11. LockTypes'
    BY <1>1, <1>2, <1>8, <1>9, <1>10 DEF LockTypes
<1>12. Recovering'
    BY <1>1, <1>2, <1>3 DEF Recovering
<1>13. Places'
  <2>1. reading # NotReading
      BY <1>7 DEF NotReading, k
  <2>2. Live => Live'
      BY <1>2, <1>3 DEF Live
  <2>3. Pending => Pending'
      BY <1>2, <1>3 DEF Pending
  <2>4. ASSUME ~ raced
        PROVE  /\ reading'.at \in 1 .. (Len(todo') + 1)
               /\ reading'.todo = [i \in 1 .. (reading'.at - 1) |-> todo'[i]]
    <3>1. reading.todo = [i \in 1 .. (k - 1) |-> todo[i]]
        BY <1>1, <2>1, <2>4 DEF Places, k
    <3>2. k + 1 \in 1 .. (Len(todo) + 1) /\ (k + 1) - 1 = k
        BY <1>2, <1>6, <1>7
    <3> DEFINE b == [i \in 1 .. k |-> todo[i]]
               a == Append(reading.todo, todo[k])
    <3>3. Len(reading.todo) = k - 1
        BY <1>7, <3>1
    <3>4. /\ a \in Seq(TaskRec) /\ DOMAIN a = 1 .. ((k - 1) + 1)
          /\ \A i \in 1 .. (k - 1) : a[i] = reading.todo[i]
          /\ a[(k - 1) + 1] = todo[k]
        BY <1>6, <1>7, <3>3, AppendIs
    <3>5. a = [i \in DOMAIN a |-> a[i]]
        OBVIOUS
    <3>6. (k - 1) + 1 = k /\ \A i \in 1 .. k : i \in 1 .. (k - 1) \/ i = k
        BY <1>7
    <3> HIDE DEF a
    <3>7. \A i \in 1 .. k : a[i] = todo[i]
        BY <3>1, <3>4, <3>6
    <3>8. a = b
        BY <3>4, <3>5, <3>6, <3>7
    <3> QED BY <1>3, <1>8, <3>2, <3>8 DEF a
  <2> QED BY <1>1, <1>2, <1>3, <2>1, <2>2, <2>3, <2>4 DEF Places
<1> QED BY <1>5, <1>11, <1>12, <1>13 DEF DInv, Types

(* A checkpoint is a list of tasks: those in doing in some order, then     *)
(* those in todo.                                                          *)
LEMMA CheckpointSeq ==
    ASSUME NEW d, \A i \in DOMAIN d : d[i].task \in TaskRec, NEW q \in Seq(TaskRec),
           NEW n \in Nat, NEW f \in Bijection(1 .. n, DOMAIN d)
    PROVE  [i \in 1 .. n |-> d[f[i]].task] \o q \in Seq(TaskRec)
<1> DEFINE a == [i \in 1 .. n |-> d[f[i]].task]
<1>1. \A i \in 1 .. n : f[i] \in DOMAIN d
    BY DEF Bijection, Injection, Surjection
<1>2. a \in Seq(TaskRec)
    BY <1>1
<1> HIDE DEF a
<1>3. a \o q \in Seq(TaskRec)
    BY <1>2
<1> QED BY <1>3 DEF a

(* checkpoint() reads doing and its record is kept.                        *)
LEMMA CheckpointEndInv ==
    ASSUME DInv, CheckpointEnd
    PROVE  DInv'
<1>1. DataTypes /\ LockTypes /\ Ident /\ Recovering /\ Places
    BY DEF DInv, Types
<1>2. /\ reading.at > Len(todo)
      /\ ckpt' = [pass |-> pass, tasks |-> CheckpointTasks,
                  consumed |-> consumed, dropped |-> dropped, torn |-> raced]
      /\ reading' = NotReading /\ raced' = FALSE
      /\ UNCHANGED <<datasetVars, workerVars, rec, snap, restoring, faults>>
    BY DEF CheckpointEnd
<1>3. UNCHANGED <<todo, doing, pass, nextId, dropped, consumed, has, reports, processed, dead>>
    BY <1>2 DEF datasetVars, workerVars
<1>4. /\ ckpt'.pass = pass /\ ckpt'.tasks = CheckpointTasks /\ ckpt'.consumed = consumed
      /\ ckpt'.dropped = dropped /\ ckpt'.torn = raced
    BY <1>2
<1>5. Len(todo) \in Nat /\ DoingTyped(doing) /\ reading.todo \in Seq(TaskRec)
    BY <1>1 DEF DataTypes, LockTypes
<1> DEFINE n == Cardinality(DOMAIN doing)
           f == CHOOSE g \in Bijection(1 .. n, DOMAIN doing) : TRUE
<1>6. n \in Nat /\ Bijection(1 .. n, DOMAIN doing) # {}
    BY <1>5, FS_CardinalityType DEF DoingTyped, ExistsBijection
<1>7. f \in Bijection(1 .. n, DOMAIN doing)
    BY <1>6
<1>8. CheckpointTasks = [i \in 1 .. n |-> doing[f[i]].task] \o reading.todo
    BY DEF CheckpointTasks
<1> HIDE DEF n, f
<1>9. CheckpointTasks \in Seq(TaskRec)
  <2>1. \A i \in DOMAIN doing : doing[i].task \in TaskRec
      BY <1>5 DEF DoingTyped
  <2>2. [i \in 1 .. n |-> doing[f[i]].task] \o reading.todo \in Seq(TaskRec)
      BY <1>5, <1>6, <1>7, <2>1, CheckpointSeq
  <2> QED BY <1>8, <2>2
<1>10. reading # NotReading
    BY <1>2, <1>5 DEF NotReading
<1>11. ckpt = NoCkpt /\ restoring.at = "none" /\ restoring.left = <<>>
    BY <1>1, <1>10 DEF Places, LockTypes
<1>12. Live
    BY <1>1, <1>11 DEF Places
<1>13. ASSUME ~ raced
       PROVE  Partition(<<>>, NoTasks, CheckpointTasks, consumed, dropped, pass)
  <2>1. /\ reading.at \in 1 .. (Len(todo) + 1)
        /\ reading.todo = [i \in 1 .. (reading.at - 1) |-> todo[i]]
      BY <1>1, <1>10, <1>13 DEF Places
  <2>2. reading.at - 1 = Len(todo)
      BY <1>2, <1>5, <2>1
  <2>3. reading.todo = todo
    <3>1. todo = [i \in 1 .. Len(todo) |-> todo[i]]
        BY <1>1 DEF DataTypes
    <3> QED BY <2>1, <2>2, <3>1
  <2>4. Partition(todo, doing, <<>>, consumed, dropped, pass)
      BY <1>11, <1>12 DEF Live
  <2>5. IsFiniteSet(DOMAIN doing) /\ \A i \in DOMAIN doing : doing[i].task \in TaskRec
      BY <1>5 DEF DoingTyped
  <2>6. n = Cardinality(DOMAIN doing) /\ todo \in Seq(TaskRec)
      BY <1>1 DEF n, DataTypes
  <2>7. Partition(<<>>, NoTasks, [i \in 1 .. n |-> doing[f[i]].task] \o todo, consumed, dropped, pass)
      BY <1>7, <2>4, <2>5, <2>6, CheckpointPart
  <2> QED BY <1>8, <2>3, <2>7
<1>14. HasLess
    BY <1>1, <1>3 DEF HasLess, DataTypes
<1>15. DataTypes'
    BY <1>1, <1>3 DEF DataTypes
<1>16. Ident'
    BY <1>1, <1>3, <1>4 DEF Ident
<1>17. LockTypes'
  <2>1. reading'.at = 0 /\ reading'.todo = <<>> /\ <<>> \in Seq(TaskRec)
        /\ reading' = [at |-> reading'.at, todo |-> reading'.todo]
      BY <1>2 DEF NotReading
  <2>2. ckpt'.pass \in Nat /\ ckpt'.tasks \in Seq(TaskRec) /\ ckpt'.torn \in BOOLEAN
      BY <1>1, <1>4, <1>9 DEF LockTypes, DataTypes
  <2>3. restoring' = restoring /\ raced' \in BOOLEAN
      BY <1>2
  <2>4. reading'.at \in Nat
      BY <2>1
  <2> HIDE DEF n, f
  <2> QED BY <1>1, <2>1, <2>2, <2>3, <2>4 DEF LockTypes
<1>18. Recovering'
    BY <1>1, <1>2, <1>3 DEF Recovering
<1>19. Places'
  <2>1. Live'
      BY <1>2, <1>3, <1>12 DEF Live
  <2> QED BY <1>2, <1>3, <1>4, <1>11, <1>13, <2>1 DEF Places
<1> QED BY <1>15, <1>16, <1>17, <1>18, <1>19 DEF DInv, Types

-----------------------------------------------------------------------------
(* The restore.                                                            *)

(* restore_checkpoint() begins, with the workers' tasks forgotten.         *)
LEMMA RestoreBeginInv ==
    ASSUME DInv, RestoreBegin
    PROVE  DInv'
<1>1. DataTypes /\ LockTypes /\ Ident /\ Recovering /\ Places
    BY DEF DInv, Types
<1>2. /\ ckpt # NoCkpt /\ reading = NotReading
      /\ pass' = ckpt.pass
      /\ restoring' = [at |-> "todo", left |-> ckpt.tasks]
      /\ consumed' = ckpt.consumed /\ dropped' = ckpt.dropped
      /\ nextId' = nextId
      /\ has' = [w \in Workers |-> {}]
      /\ raced' = ckpt.torn
      /\ UNCHANGED <<todo, doing, reports, processed, dead, rec, snap, reading, ckpt>>
    BY DEF RestoreBegin, NextIdAtRestore
<1>3. restoring'.at = "todo" /\ restoring'.left = ckpt.tasks
      /\ restoring' = [at |-> restoring'.at, left |-> restoring'.left]
    BY <1>2
<1>4. HasLess
    BY <1>2 DEF HasLess
<1>5. DataTypes'
  <2>1. pass' \in Nat /\ nextId' \in Nat
      BY <1>1, <1>2 DEF LockTypes, DataTypes
  <2>2. has' = [w \in Workers |-> has'[w]] /\ \A w \in Workers : has'[w] \subseteq TaskRec
      BY <1>2
  <2> QED BY <1>1, <1>2, <2>1, <2>2 DEF DataTypes
<1>6. Ident'
  <2>1. Covered(Known(todo, doing, has'), Known(todo, doing, has))
      BY <1>4, LessKnown, SameKnown
  <2>2. /\ Identity(Known(todo, doing, has'), nextId)
        /\ ReportsTrue(Known(todo, doing, has'), reports, processed, nextId)
      BY <1>1, <2>1, IdentCovered DEF Ident
  <2> QED BY <1>1, <1>2, <2>2 DEF Ident
<1>7. LockTypes'
  <2>1. restoring'.at \in {"none", "todo", "doing", "fill"} /\ restoring'.at # "none"
      BY <1>3
  <2>2. restoring'.left \in Seq(TaskRec) /\ raced' \in BOOLEAN
      BY <1>1, <1>2, <1>3 DEF LockTypes
  <2>3. reading' = reading /\ ckpt' = ckpt
      BY <1>2
  <2> QED BY <1>1, <1>3, <2>1, <2>2, <2>3 DEF LockTypes
<1>8. Recovering'
    BY <1>1, <1>2 DEF Recovering
<1>9. Places'
  <2>1. ~ raced' => Pending'
      BY <1>1, <1>2, <1>3 DEF Places, Pending
  <2> QED BY <1>1, <1>2, <1>3, <2>1 DEF Places
<1> QED BY <1>5, <1>6, <1>7, <1>8, <1>9 DEF DInv, Types

(* todo and doing are emptied one after the other.                         *)
LEMMA RestoreClearInv ==
    ASSUME DInv, RestoreClear
    PROVE  DInv'
<1>1. DataTypes /\ LockTypes /\ Ident /\ Recovering /\ Places
    BY DEF DInv, Types
<1>2. /\ UNCHANGED <<pass, nextId, dropped, consumed, has, reports, processed, dead>>
      /\ UNCHANGED <<rec, snap, reading, ckpt, raced, faults>>
    BY DEF RestoreClear, workerVars
<1>3. restoring' = [restoring EXCEPT !.at = IF @ = "todo" THEN "doing" ELSE "fill"]
    BY DEF RestoreClear
<1>4. restoring = [at |-> restoring.at, left |-> restoring.left]
    BY <1>1 DEF LockTypes
<1>5. /\ restoring'.at = IF restoring.at = "todo" THEN "doing" ELSE "fill"
      /\ restoring'.left = restoring.left
      /\ restoring' = [at |-> restoring'.at, left |-> restoring'.left]
    BY <1>3, <1>4
<1>6. \/ restoring.at = "todo" /\ todo' = <<>> /\ doing' = doing
      \/ restoring.at = "doing" /\ doing' = NoTasks /\ todo' = todo
    BY DEF RestoreClear, NoTasks
<1>7. <<>> \in Seq(TaskRec) /\ DOMAIN <<>> = {}
    OBVIOUS
<1>8. DoingTyped(NoTasks) /\ DOMAIN NoTasks = {}
  <2>1. DOMAIN NoTasks = {} /\ NoTasks = [i \in {} |-> NoTasks[i]]
      BY DEF NoTasks
  <2> QED BY <2>1, FS_EmptySet DEF DoingTyped
<1>9. DataTypes'
    BY <1>1, <1>2, <1>6, <1>7, <1>8 DEF DataTypes
<1>10. Ident'
  <2>1. Known(todo', doing', has) \subseteq Known(todo, doing, has)
      BY <1>6, <1>7, <1>8 DEF Known, Elems
  <2>2. Covered(Known(todo', doing', has), Known(todo, doing, has))
      BY <2>1 DEF Covered
  <2>3. /\ Identity(Known(todo', doing', has), nextId)
        /\ ReportsTrue(Known(todo', doing', has), reports, processed, nextId)
      BY <1>1, <2>2, IdentCovered DEF Ident
  <2>4. IdsApart(todo', doing')
      BY <1>1, <1>6, <1>7, <1>8 DEF Ident, IdsApart
  <2> QED BY <1>1, <1>2, <2>3, <2>4 DEF Ident
<1>11. LockTypes'
  <2>1. restoring'.at \in {"none", "todo", "doing", "fill"} /\ restoring'.at # "none"
      BY <1>5
  <2>2. restoring'.left \in Seq(TaskRec)
      BY <1>1, <1>5 DEF LockTypes
  <2> QED BY <1>1, <1>2, <1>5, <2>1, <2>2 DEF LockTypes
<1>12. Recovering'
    BY <1>1, <1>2, <1>6, <1>8 DEF Recovering
<1>13. Places'
  <2>1. ckpt # NoCkpt /\ reading = NotReading
      BY <1>1, <1>6 DEF Places
  <2>2. CASE restoring.at = "todo"
    <3>1. restoring'.at = "doing" /\ todo' = <<>>
        BY <1>5, <1>6, <2>2
    <3>2. ~ raced => Pending'
        BY <1>1, <1>2, <1>5, <2>2 DEF Places, Pending
    <3> QED BY <1>1, <1>2, <2>1, <3>1, <3>2 DEF Places
  <2>3. CASE restoring.at = "doing"
    <3>1. restoring'.at = "fill" /\ doing' = NoTasks /\ todo' = todo
        BY <1>5, <1>6, <2>3
    <3>2. ~ raced => Live'
        BY <1>1, <1>2, <1>5, <2>3, <3>1 DEF Places, Pending, Live
    <3> QED BY <1>1, <1>2, <2>1, <3>1, <3>2 DEF Places
  <2> QED BY <1>6, <2>2, <2>3
<1> QED BY <1>9, <1>10, <1>11, <1>12, <1>13 DEF DInv, Types

(* restore_checkpoint() ends.                                              *)
LEMMA RestoreEndInv ==
    ASSUME DInv, RestoreEnd
    PROVE  DInv'
<1>1. DataTypes /\ LockTypes /\ Recovering /\ Places
    BY DEF DInv, Types
<1>2. /\ restoring.at = "fill" /\ restoring.left = <<>> /\ restoring' = NotRestoring
      /\ UNCHANGED <<datasetVars, workerVars, rec, snap, reading, ckpt, raced, faults>>
    BY DEF RestoreEnd
<1>3. UNCHANGED <<todo, doing, pass, nextId, dropped, consumed, has, reports, processed, dead>>
    BY <1>2 DEF datasetVars, workerVars
<1>4. restoring'.at = "none" /\ restoring'.left = <<>>
      /\ restoring' = [at |-> restoring'.at, left |-> restoring'.left]
    BY <1>2 DEF NotRestoring
<1>5. HasLess
    BY <1>1, <1>3 DEF HasLess, DataTypes
<1>6. DataTypes' /\ Ident'
    BY <1>2, <1>3, <1>5, SameIdent
<1>7. LockTypes'
    BY <1>1, <1>2, <1>4 DEF LockTypes
<1>8. Recovering'
    BY <1>1, <1>2, <1>3 DEF Recovering
<1>9. Places'
  <2>1. Live => Live'
      BY <1>2, <1>3, <1>4 DEF Live
  <2> QED BY <1>1, <1>2, <1>3, <1>4, <2>1 DEF Places
<1> QED BY <1>6, <1>7, <1>8, <1>9 DEF DInv, Types

(* A task with a new id at the end of todo.                                *)
LEMMA AppendFresh ==
    ASSUME DInv, NEW u \in TaskRec, u.id = nextId
    PROVE  /\ Append(todo, u) \in Seq(TaskRec)
           /\ IdsApart(Append(todo, u), doing)
           /\ Known(Append(todo, u), doing, has) = Known(todo, doing, has) \cup {u}
<1>1. DataTypes /\ Ident
    BY DEF DInv, Types
<1> DEFINE n == Len(todo)
           q == Append(todo, u)
<1>2. /\ n \in Nat /\ DOMAIN todo = 1 .. n
      /\ q \in Seq(TaskRec) /\ DOMAIN q = 1 .. (n + 1)
      /\ \A i \in 1 .. n : q[i] = todo[i]
      /\ q[n + 1] = u
    BY <1>1, AppendIs DEF DataTypes
<1> HIDE DEF n, q
<1>3. \A i \in DOMAIN q : (i \in DOMAIN todo /\ q[i] = todo[i]) \/ (i = n + 1 /\ q[i] = u)
  <2>1. \A i \in 1 .. (n + 1) : i \in 1 .. n \/ i = n + 1
      BY <1>2
  <2> QED BY <1>2, <2>1
<1>4. \A i \in DOMAIN todo : i \in DOMAIN q
    BY <1>2
<1>5. n + 1 \in DOMAIN q
    BY <1>2
<1>6. \A t \in Known(todo, doing, has) : t.id # nextId
  <2>1. \A t \in Known(todo, doing, has) : t.id < nextId
      BY <1>1 DEF Ident, Identity
  <2>2. ~ (nextId < nextId)
      BY <1>1 DEF DataTypes
  <2> QED BY <2>1, <2>2, Zenon
<1>7. \A i \in DOMAIN todo : todo[i].id # nextId
    BY <1>6 DEF Known, Elems
<1>8. nextId \notin DOMAIN doing
    BY <1>1, <1>6 DEF Known, DataTypes, DoingTyped
<1>9. IdsApart(q, doing)
    BY <1>1, <1>3, <1>7, <1>8 DEF Ident, IdsApart
<1>10. Elems(q) = Elems(todo) \cup {u}
    BY <1>2, <1>3, <1>4, <1>5 DEF Elems
<1>11. Known(q, doing, has) = Known(todo, doing, has) \cup {u}
    BY <1>10 DEF Known
<1> QED BY <1>2, <1>9, <1>11 DEF q

(* Every task that is known is a task.                                     *)
LEMMA KnownTyped == DInv => \A t \in Known(todo, doing, has) : t \in TaskRec /\ t.id \in Nat
<1> SUFFICES ASSUME DInv, NEW t \in Known(todo, doing, has) PROVE t \in TaskRec /\ t.id \in Nat
    OBVIOUS
<1>1. DataTypes
    BY DEF DInv, Types
<1>2. \A i \in DOMAIN todo : todo[i] \in TaskRec
    BY <1>1, SeqDomain DEF DataTypes
<1>3. t \in TaskRec
    BY <1>1, <1>2 DEF DataTypes, DoingTyped, Known, Elems
<1> QED BY <1>3 DEF TaskRec

(* restore_checkpoint() puts one task of its list back into todo.          *)
LEMMA RestoreOneInv ==
    ASSUME DInv, RestoreOne
    PROVE  DInv'
<1>1. DataTypes /\ LockTypes /\ Ident /\ Recovering /\ Places
    BY DEF DInv, Types
<1> DEFINE t == Head(restoring.left)
           u == [id |-> nextId, pass |-> t.pass, shard |-> t.shard, retry |-> 0]
<1>2. /\ restoring.at = "fill" /\ restoring.left # <<>>
      /\ todo' = todo \o Tasks(<<t.shard>>, t.pass)
      /\ nextId' = nextId + 1
      /\ restoring' = [restoring EXCEPT !.left = Tail(@)]
      /\ UNCHANGED <<doing, pass, dropped, consumed, workerVars, rec, snap, reading, ckpt, raced, faults>>
    BY DEF RestoreOne
<1>3. UNCHANGED <<has, reports, processed, dead>>
    BY <1>2 DEF workerVars
<1>4. restoring = [at |-> restoring.at, left |-> restoring.left] /\ restoring.left \in Seq(TaskRec)
    BY <1>1 DEF LockTypes
<1>5. /\ restoring'.at = "fill" /\ restoring'.left = Tail(restoring.left)
      /\ restoring' = [at |-> restoring'.at, left |-> restoring'.left]
    BY <1>2, <1>4
<1>6. t \in TaskRec /\ Tail(restoring.left) \in Seq(TaskRec)
    BY <1>2, <1>4, TailIs
<1> HIDE DEF t
<1>7. nextId \in Nat /\ todo \in Seq(TaskRec)
    BY <1>1 DEF DataTypes
<1>8. u \in TaskRec /\ u.id = nextId /\ Instance(u) = Instance(t)
    BY <1>6, <1>7 DEF TaskRec, Instance
<1>9. Tasks(<<t.shard>>, t.pass) = <<u>>
  <2>1. \A i \in {1} : nextId + i - 1 = nextId
      BY <1>7
  <2>2. DOMAIN <<t.shard>> = {1} /\ <<t.shard>>[1] = t.shard
      OBVIOUS
  <2>3. Tasks(<<t.shard>>, t.pass) = [i \in {1} |-> u]
      BY <2>1, <2>2 DEF Tasks
  <2> HIDE DEF u
  <2>4. [i \in {1} |-> u] = <<u>>
      OBVIOUS
  <2> QED BY <2>3, <2>4
<1> HIDE DEF u
<1>10. todo' = Append(todo, u)
  <2>1. todo \o <<u>> = Append(todo, u)
      BY <1>7, <1>8
  <2> QED BY <1>2, <1>9, <2>1
<1>11. /\ todo' \in Seq(TaskRec) /\ IdsApart(todo', doing')
       /\ Known(todo', doing', has') = Known(todo, doing, has) \cup {u}
  <2>1. /\ Append(todo, u) \in Seq(TaskRec)
        /\ IdsApart(Append(todo, u), doing)
        /\ Known(Append(todo, u), doing, has) = Known(todo, doing, has) \cup {u}
      BY <1>8, AppendFresh
  <2> QED BY <1>2, <1>3, <1>10, <2>1
<1>12. nextId + 1 \in Nat /\ nextId <= nextId + 1 /\ nextId <= nextId /\ nextId < nextId + 1
    BY <1>7
<1>13. DataTypes'
    BY <1>1, <1>2, <1>3, <1>11, <1>12 DEF DataTypes
<1>14. Ident'
  <2> DEFINE K == Known(todo, doing, has)
             Q == {u}
  <2>1. \A v \in K \cup Q : v.id \in Nat
      BY <1>7, <1>8, KnownTyped
  <2>2. \A m \in reports : m.id \in Nat
      BY <1>1 DEF DataTypes
  <2>3. Identity(K, nextId) /\ ReportsTrue(K, reports, processed, nextId)
      BY <1>1 DEF Ident
  <2>4. /\ \A v \in Q : nextId <= v.id /\ v.id < nextId + 1
        /\ \A v, z \in Q : v.id = z.id => Instance(v) = Instance(z)
      BY <1>8, <1>12
  <2> HIDE DEF K, Q
  <2>5. Identity(K \cup Q, nextId + 1) /\ ReportsTrue(K \cup Q, reports, processed, nextId + 1)
      BY <1>7, <1>12, <2>1, <2>2, <2>3, <2>4, IdentFresh
  <2>6. Known(todo', doing', has') = K \cup Q
      BY <1>11 DEF K, Q
  <2> QED BY <1>1, <1>2, <1>3, <1>11, <2>5, <2>6 DEF Ident
<1>15. LockTypes'
    BY <1>1, <1>2, <1>5, <1>6 DEF LockTypes
<1>16. Recovering'
    BY <1>1, <1>2, <1>3 DEF Recovering
<1>17. Places'
  <2>1. ckpt # NoCkpt /\ reading = NotReading
      BY <1>1, <1>2 DEF Places
  <2>2. ASSUME ~ raced PROVE Live'
    <3>1. Partition(todo, doing, restoring.left, consumed, dropped, pass)
        BY <1>1, <1>2, <2>2 DEF Places, Live
    <3>2. Instance(u) = Instance(Head(restoring.left))
        BY <1>8 DEF t
    <3>3. Partition(Append(todo, u), doing, Tail(restoring.left), consumed, dropped, pass)
        BY <1>2, <1>4, <1>7, <1>8, <3>1, <3>2, RestorePart
    <3> QED BY <1>2, <1>5, <1>10, <3>3 DEF Live
  <2> QED BY <1>1, <1>2, <1>5, <2>1, <2>2 DEF Places
<1> QED BY <1>13, <1>14, <1>15, <1>16, <1>17 DEF DInv, Types

-----------------------------------------------------------------------------
(* get_dataset_task().                                                     *)

(* The queue once the tasks of a next pass have been created.              *)
Queued(q, k, p) ==
    /\ q \in Seq(TaskRec) /\ k \in Nat /\ p \in Nat
    /\ IdsApart(q, doing)
    /\ Identity(Known(q, doing, has), k)
    /\ ReportsTrue(Known(q, doing, has), reports, processed, k)
    /\ \A l, c, r : Partition(todo, doing, l, c, r, pass) => Partition(q, doing, l, c, r, p)

(* todo as it stands is what get_task() takes from, when it is not empty.  *)
LEMMA QueueSame == DInv => Queued(todo, nextId, pass)
BY DEF DInv, Types, DataTypes, Ident, Queued

(* todo after the next pass was created, when it was empty.                *)
LEMMA QueueNew ==
    ASSUME DInv, todo = <<>>
    PROVE  LET q == Tasks(create_shards(pass), pass) IN Queued(q, nextId + Len(q), pass + 1)
<1> DEFINE q == Tasks(create_shards(pass), pass)
           k == nextId + Len(q)
           K == Known(todo, doing, has)
<1>1. DataTypes /\ Ident
    BY DEF DInv, Types
<1>2. pass \in Nat /\ nextId \in Nat
    BY <1>1 DEF DataTypes
<1>3. /\ q \in Seq(TaskRec) /\ Len(q) \in Nat
      /\ \A i \in DOMAIN q : q[i].id = nextId + i - 1 /\ i \in 1 .. Len(q)
    BY <1>2, FreshTasks
<1>4. \A l, c, r : Partition(todo, doing, l, c, r, pass) => Partition(q, doing, l, c, r, pass + 1)
    BY <1>2, NewPass
<1> HIDE DEF q
<1>5. k \in Nat /\ nextId <= k
    BY <1>2, <1>3
<1>6. \A i \in DOMAIN q : nextId <= q[i].id /\ q[i].id < k /\ q[i].id \in Nat
  <2>1. \A i \in 1 .. Len(q) : nextId <= nextId + i - 1 /\ nextId + i - 1 < k /\ nextId + i - 1 \in Nat
      BY <1>2, <1>3
  <2> HIDE DEF k
  <2> QED BY <1>3, <2>1
<1>7. \A i, j \in DOMAIN q : q[i].id = q[j].id => i = j
  <2>1. \A i, j \in 1 .. Len(q) : nextId + i - 1 = nextId + j - 1 => i = j
      BY <1>2, <1>3
  <2> QED BY <1>3, <2>1
<1> HIDE DEF k
<1>8. \A t \in K : t.id \in Nat /\ t.id < nextId
    BY <1>1, KnownTyped DEF Ident, Identity
<1>a. \A i, j \in Nat : i < nextId /\ nextId <= j => i # j
    BY <1>2
<1>9. \A i \in DOMAIN q : q[i].id \notin DOMAIN doing
  <2>1. \A i \in DOMAIN doing : i \in Nat /\ i < nextId
    <3>1. \A i \in DOMAIN doing : doing[i].task \in K /\ doing[i].task.id = i
        BY <1>1 DEF DataTypes, DoingTyped, Known
    <3> QED BY <1>8, <3>1
  <2> QED BY <1>a, <1>6, <2>1
<1>10. IdsApart(q, doing)
    BY <1>7, <1>9 DEF IdsApart
<1> DEFINE Q == Elems(q)
<1>11. /\ \A t \in Q : nextId <= t.id /\ t.id < k /\ t.id \in Nat
       /\ \A t, u \in Q : t.id = u.id => Instance(t) = Instance(u)
    BY <1>6, <1>7 DEF Elems
<1>12. \A m \in reports : m.id \in Nat
    BY <1>1 DEF DataTypes
<1>13. Identity(K, nextId) /\ ReportsTrue(K, reports, processed, nextId)
    BY <1>1 DEF Ident
<1>14. Known(q, doing, has) = K \cup Q
  <2>1. Elems(todo) = {}
    <3>1. DOMAIN <<>> = {}
        OBVIOUS
    <3> QED BY <3>1 DEF Elems
  <2> QED BY <2>1 DEF Known
<1> HIDE DEF K, Q
<1>15. \A t \in K \cup Q : t.id \in Nat
    BY <1>8, <1>11
<1>16. \A t \in Q : nextId <= t.id /\ t.id < k
    BY <1>11
<1>17. Identity(K \cup Q, k) /\ ReportsTrue(K \cup Q, reports, processed, k)
    BY <1>2, <1>5, <1>11, <1>12, <1>13, <1>15, <1>16, IdentFresh
<1>18. pass + 1 \in Nat
    BY <1>2
<1>19. Queued(q, k, pass + 1)
    BY <1>3, <1>4, <1>5, <1>10, <1>14, <1>17, <1>18 DEF Queued
<1> QED BY <1>19 DEF q, k

(* doing[id] = ... keeps the type of doing.                                *)
LEMMA WithTyped ==
    ASSUME NEW d, DoingTyped(d), NEW t \in TaskRec, NEW w
    PROVE  DoingTyped(With(d, t.id, [task |-> t, node |-> w]))
<1> DEFINE v == [task |-> t, node |-> w]
           e == With(d, t.id, v)
<1>1. t.id \in Nat
    BY DEF TaskRec
<1>2. v.task = t
    OBVIOUS
<1> HIDE DEF v
<1>3. /\ DOMAIN e = DOMAIN d \cup {t.id} /\ e = [i \in DOMAIN e |-> e[i]]
      /\ \A i \in DOMAIN e : e[i] = IF i = t.id THEN v ELSE d[i]
    BY DEF With
<1> HIDE DEF e
<1>4. IsFiniteSet(DOMAIN e)
    BY <1>3, FS_AddElement DEF DoingTyped
<1>5. \A i \in DOMAIN e : e[i].task \in TaskRec /\ e[i].task.id = i
    BY <1>2, <1>3 DEF DoingTyped
<1>6. DOMAIN e \subseteq Nat
    BY <1>1, <1>3 DEF DoingTyped
<1>7. DoingTyped(e)
    BY <1>3, <1>4, <1>5, <1>6 DEF DoingTyped
<1> QED BY <1>7 DEF e, v

(* get_task() hands out the head of todo, after creating the next pass     *)
(* where todo was empty.                                                   *)
LEMMA GetTaskInv ==
    ASSUME DInv, NEW w \in Workers, GetTask(w)
    PROVE  DInv'
<1>1. DataTypes /\ LockTypes /\ Ident /\ Recovering /\ Places
    BY DEF DInv, Types
<1>2. /\ w \notin dead
      /\ raced' = (raced \/ Overtaking)
      /\ UNCHANGED <<dropped, consumed, reports, processed, dead, rec, snap, reading, ckpt, restoring>>
    BY DEF GetTask, lockFree
<1>3. PICK q : /\ Queued(q, nextId', pass')
               /\ \/ q = <<>> /\ UNCHANGED <<todo, doing, has>> /\ todo = <<>>
                  \/ /\ q # <<>> /\ todo' = Tail(q)
                     /\ doing' = With(doing, Head(q).id, [task |-> Head(q), node |-> w])
                     /\ has' = has \/ has' = [has EXCEPT ![w] = @ \cup {Head(q)}]
  <2> DEFINE fresh == IF todo = <<>> /\ ~epoch_finished
                      THEN Tasks(create_shards(pass), pass) ELSE <<>>
             q == todo \o fresh
  <2>1. /\ pass' = IF todo = <<>> /\ ~epoch_finished THEN pass + 1 ELSE pass
        /\ nextId' = nextId + Len(fresh)
        /\ \/ q = <<>> /\ UNCHANGED <<todo, doing, has>>
           \/ /\ q # <<>> /\ todo' = Tail(q)
              /\ doing' = With(doing, Head(q).id, [task |-> Head(q), node |-> w])
              /\ has' = has \/ has' = [has EXCEPT ![w] = @ \cup {Head(q)}]
      BY DEF GetTask
  <2>2. todo \in Seq(TaskRec) /\ nextId \in Nat /\ pass \in Nat
      BY <1>1 DEF DataTypes
  <2>3. CASE todo = <<>> /\ ~epoch_finished
    <3> DEFINE s == Tasks(create_shards(pass), pass)
    <3>1. s \in Seq(TaskRec)
        BY <2>2, FreshTasks
    <3>2. Queued(s, nextId + Len(s), pass + 1)
        BY <2>3, QueueNew
    <3>3. fresh = s /\ q = todo \o s
        BY <2>3
    <3> HIDE DEF s, fresh, q
    <3>4. q = s
        BY <2>3, <3>1, <3>3
    <3>5. Queued(q, nextId', pass')
        BY <2>1, <2>3, <3>2, <3>3, <3>4
    <3> QED BY <2>1, <2>3, <3>5
  <2>4. CASE ~ (todo = <<>> /\ ~epoch_finished)
    <3>1. fresh = <<>>
        BY <2>4
    <3> HIDE DEF fresh
    <3>2. q = todo /\ Len(fresh) = 0
        BY <2>2, <3>1
    <3> HIDE DEF q
    <3>3. nextId' = nextId /\ pass' = pass
        BY <2>1, <2>2, <2>4, <3>2
    <3>4. Queued(q, nextId', pass')
        BY <3>2, <3>3, QueueSame
    <3> QED BY <2>1, <3>2, <3>4
  <2> QED BY <2>3, <2>4
<1>4. /\ q \in Seq(TaskRec) /\ nextId' \in Nat /\ pass' \in Nat /\ IdsApart(q, doing)
      /\ Identity(Known(q, doing, has), nextId')
      /\ ReportsTrue(Known(q, doing, has), reports, processed, nextId')
    BY <1>3 DEF Queued
<1>5. LockTypes'
    BY <1>1, <1>2 DEF LockTypes
<1>6. \A l, c, r : Partition(todo, doing, l, c, r, pass) => Partition(q, doing, l, c, r, pass')
    BY <1>3 DEF Queued
<1>7. ASSUME \A l, c, r : Partition(q, doing, l, c, r, pass') => Partition(todo', doing', l, c, r, pass')
      PROVE  Places'
  <2>1. Live => Live'
      BY <1>2, <1>6, <1>7 DEF Live
  <2>2. ~ raced' => ~ raced /\ restoring.at = "none" /\ reading = NotReading
    <3>1. Overtaking => raced'
        BY <1>2
    <3>2. raced => raced'
        BY <1>1, <1>2 DEF LockTypes
    <3>3. ~ Overtaking => restoring.at = "none" /\ reading = NotReading
        BY DEF Overtaking, NotRestoring
    <3> QED BY <3>1, <3>2, <3>3
  <2>3. ckpt' = ckpt /\ restoring' = restoring /\ reading' = reading
      BY <1>2
  <2> QED BY <1>1, <2>1, <2>2, <2>3 DEF Places
<1>8. CASE q = <<>> /\ UNCHANGED <<todo, doing, has>> /\ todo = <<>>
  <2>1. DataTypes'
      BY <1>1, <1>2, <1>4, <1>8 DEF DataTypes
  <2>2. Ident'
      BY <1>1, <1>2, <1>4, <1>8 DEF Ident
  <2>3. Recovering'
      BY <1>1, <1>2, <1>8 DEF Recovering
  <2>4. Places'
      BY <1>7, <1>8
  <2> QED BY <1>5, <2>1, <2>2, <2>3, <2>4 DEF DInv, Types
<1>9. CASE /\ q # <<>> /\ todo' = Tail(q)
           /\ doing' = With(doing, Head(q).id, [task |-> Head(q), node |-> w])
           /\ has' = has \/ has' = [has EXCEPT ![w] = @ \cup {Head(q)}]
  <2> DEFINE t == Head(q)
             n == Len(q)
  <2>1. /\ n \in Nat \ {0} /\ DOMAIN q = 1 .. n
        /\ todo' \in Seq(TaskRec) /\ DOMAIN todo' = 1 .. (n - 1)
        /\ \A i \in 1 .. (n - 1) : todo'[i] = q[i + 1]
        /\ t = q[1] /\ t \in TaskRec
      BY <1>4, <1>9, TailIs
  <2> HIDE DEF t, n
  <2>2. \A i \in 1 .. (n - 1) : i + 1 \in 1 .. n /\ i + 1 # 1 /\ i \in Nat
      BY <2>1
  <2>3. 1 \in 1 .. n
      BY <2>1
  <2>4. doing' = With(doing, t.id, [task |-> t, node |-> w])
      BY <1>9 DEF t
  <2>5. /\ DOMAIN doing' = DOMAIN doing \cup {t.id} /\ doing'[t.id] = [task |-> t, node |-> w]
        /\ \A i \in DOMAIN doing : i # t.id => doing'[i] = doing[i]
      BY <2>4 DEF With
  <2>6. t.id \notin DOMAIN doing
      BY <1>4, <2>1, <2>3 DEF IdsApart
  <2>7. DoingTyped(doing')
      BY <1>1, <2>1, <2>4, WithTyped DEF DataTypes
  <2>8. has' = has \/ has' = [has EXCEPT ![w] = @ \cup {t}]
      BY <1>9 DEF t
  <2>9. /\ has' = [v \in Workers |-> has'[v]]
        /\ \A v \in Workers : has'[v] \subseteq has[v] \cup {t}
      BY <1>1, <2>8 DEF DataTypes
  <2>10. \A v \in Workers : has'[v] \subseteq TaskRec
      BY <1>1, <2>1, <2>9 DEF DataTypes
  <2>11. DataTypes'
      BY <1>1, <1>2, <1>4, <2>1, <2>7, <2>9, <2>10 DEF DataTypes
  <2>12. IdsApart(todo', doing')
    <3>1. \A i, j \in 1 .. n : q[i].id = q[j].id => i = j
        BY <1>4, <2>1 DEF IdsApart
    <3>2. \A i \in 1 .. n : q[i].id \notin DOMAIN doing
        BY <1>4, <2>1 DEF IdsApart
    <3>3. ASSUME NEW i \in 1 .. (n - 1), NEW j \in 1 .. (n - 1), todo'[i].id = todo'[j].id
          PROVE  i = j
      <4>1. i + 1 = j + 1
          BY <2>1, <2>2, <3>1, <3>3
      <4> QED BY <2>2, <4>1
    <3>4. ASSUME NEW i \in 1 .. (n - 1) PROVE todo'[i].id \notin DOMAIN doing'
      <4>1. todo'[i].id # t.id
          BY <2>1, <2>2, <2>3, <3>1
      <4>2. todo'[i].id \notin DOMAIN doing
          BY <2>1, <2>2, <3>2
      <4> QED BY <2>5, <4>1, <4>2
    <3> QED BY <2>1, <3>3, <3>4 DEF IdsApart
  <2>13. Ident'
    <3>1. Elems(todo') \subseteq Elems(q) /\ t \in Elems(q)
        BY <2>1, <2>2, <2>3 DEF Elems
    <3>2. {doing'[i].task : i \in DOMAIN doing'} \subseteq {doing[i].task : i \in DOMAIN doing} \cup {t}
        BY <2>5
    <3>3. (UNION {has'[v] : v \in Workers}) \subseteq (UNION {has[v] : v \in Workers}) \cup {t}
        BY <2>9
    <3>4. Known(todo', doing', has') \subseteq Known(q, doing, has)
        BY <3>1, <3>2, <3>3 DEF Known
    <3>5. Covered(Known(todo', doing', has'), Known(q, doing, has))
        BY <3>4 DEF Covered
    <3>6. /\ Identity(Known(todo', doing', has'), nextId')
          /\ ReportsTrue(Known(todo', doing', has'), reports, processed, nextId')
        BY <1>4, <3>5, IdentCovered
    <3> QED BY <1>1, <1>2, <2>12, <3>6 DEF Ident
  <2>14. Recovering'
    <3>1. \A v \in Workers : rec[v].at = "report" => v # w
        BY <1>1, <1>2 DEF Recovering, Idle
    <3>2. \A i \in DOMAIN doing' : \A v \in Workers :
             v # w /\ doing'[i].node = v => i \in DOMAIN doing /\ doing[i].node = v
        BY <2>5
    <3> QED BY <1>1, <1>2, <3>1, <3>2 DEF Recovering
  <2>15. Places'
    <3>1. ASSUME NEW l, NEW c, NEW r, Partition(q, doing, l, c, r, pass')
          PROVE  Partition(todo', doing', l, c, r, pass')
      <4>1. Head(q).id \notin DOMAIN doing
          BY <2>6 DEF t
      <4>2. Partition(Tail(q), With(doing, Head(q).id, [task |-> Head(q), node |-> w]), l, c, r, pass')
          BY <1>4, <1>9, <3>1, <4>1, HandOutPart
      <4> QED BY <1>9, <4>2
    <3> QED BY <1>7, <3>1
  <2> QED BY <1>5, <2>11, <2>13, <2>14, <2>15 DEF DInv, Types
<1> QED BY <1>3, <1>8, <1>9

-----------------------------------------------------------------------------
(* The theorems.                                                           *)

(* DInv is inductive.                                                      *)
LEMMA DNextInv == DInv /\ [Next]_vars => DInv'
<1> SUFFICES ASSUME DInv, [Next]_vars PROVE DInv'
    OBVIOUS
<1>1. ASSUME NEW w \in Workers, GetTask(w) PROVE DInv'
    BY <1>1, GetTaskInv
<1>2. ASSUME NEW w \in Workers, NEW task \in has[w], NEW ok \in BOOLEAN, SendReport(w, task, ok)
      PROVE  DInv'
    BY <1>2, SendReportInv
<1>3. ASSUME NEW w \in Workers, Die(w) PROVE DInv'
    BY <1>3, DieInv
<1>4. ASSUME NEW w \in Workers, Recover(w) PROVE DInv'
    BY <1>4, RecoverBeginInv, RecoverScanInv, RecoverOneInv DEF Recover
<1>5. ASSUME NEW m \in reports, DeliverReport(m) PROVE DInv'
    BY <1>5, DeliverReportInv
<1>6. ASSUME NEW id \in Ids, TimeoutFound(id) PROVE DInv'
    BY <1>6, TimeoutFoundInv
<1>7. CASE TimeoutReport
    BY <1>7, TimeoutReportInv
<1>8. CASE CheckpointBegin
    BY <1>8, CheckpointBeginInv
<1>9. CASE CheckpointTodo
    BY <1>9, CheckpointTodoInv
<1>10. CASE CheckpointEnd
    BY <1>10, CheckpointEndInv
<1>11. CASE RestoreBegin
    BY <1>11, RestoreBeginInv
<1>12. CASE Restore
    BY <1>12, RestoreClearInv, RestoreOneInv, RestoreEndInv DEF Restore
<1>13. CASE CompletedTodo \/ CompletedDoing \/ UNCHANGED vars
  <2>1. DataTypes /\ LockTypes /\ Recovering /\ Places
      BY DEF DInv, Types
  <2>2. UNCHANGED <<datasetVars, workerVars, lockFree, raced>>
      BY <1>13 DEF vars, CompletedTodo, CompletedDoing
  <2>3. UNCHANGED <<todo, doing, pass, nextId, dropped, consumed, has, reports, processed, dead,
                    rec, snap, reading, ckpt, restoring, raced>>
      BY <2>2 DEF datasetVars, workerVars, lockFree
  <2>4. HasLess
      BY <2>1, <2>3 DEF HasLess, DataTypes
  <2>5. DataTypes' /\ Ident'
      BY <2>2, <2>3, <2>4, SameIdent
  <2>6. LockTypes' /\ Recovering' /\ Places'
      BY <2>1, <2>3, PlacesSame DEF LockTypes, Recovering
  <2> QED BY <2>5, <2>6 DEF DInv, Types
<1> QED BY <1>1, <1>2, <1>3, <1>4, <1>5, <1>6, <1>7, <1>8, <1>9, <1>10, <1>11, <1>12, <1>13 DEF Next

(* In every state: each shard of each pass in exactly one place, the       *)
(* identifiers of tasks never shared, the counters equal to what was       *)
(* consumed, and the progress of recover_tasks(), checkpoint() and         *)
(* restore_checkpoint() between their locks.                               *)
THEOREM DInvInductive == Spec => []DInv
BY DInitInv, DNextInv, PTL DEF Spec

(* A shard is in one place, whatever fails, is repeated or is restored.    *)
THEOREM InOnePlace == Spec => []ShardInOnePlace
<1>1. ASSUME DInv PROVE ShardInOnePlace
  <2> SUFFICES ASSUME ~ raced, restoring.at \in {"none", "fill"},
                      NEW p \in 0 .. (pass - 1), NEW s \in Shards(p)
               PROVE  Occurrences(<<p, s>>) = 1
      BY DEF ShardInOnePlace
  <2>1. Live
      BY <1>1 DEF DInv, Places
  <2>2. Begun(<<p, s>>, pass)
      BY DEF Begun
  <2> QED BY <2>1, <2>2, OccursOnce DEF Live, Partition
<1> QED BY <1>1, DInvInductive, PTL

(* consumed only grows by what some worker got through, for no id is ever  *)
(* given to two tasks, not even across a restore.                          *)
THEOREM CountedRight == Spec => []CountedWasProcessed
<1>1. DInv => CountedWasProcessed
    BY DEF DInv, Ident, CountedWasProcessed
<1> QED BY <1>1, DInvInductive, PTL

(* Once recover_tasks() has reported what its scan found, nothing is left  *)
(* with the dead worker.                                                   *)
THEOREM DeadRecovered == Spec => []DeadWorkerRecovered
<1>1. DInv => DeadWorkerRecovered
    BY DEF DInv, Recovering, DeadWorkerRecovered
<1> QED BY <1>1, DInvInductive, PTL

-----------------------------------------------------------------------------
(* Every record of the dataset is in a shard of every epoch.               *)

(* What division gives.                                                    *)
LEMMA Division ==
    ASSUME NEW a \in Int, NEW b \in Nat \ {0}
    PROVE  a \div b \in Int /\ (a \div b) * b <= a /\ a < (a \div b) * b + b
OBVIOUS

(* The quotient from its two bounds.                                       *)
LEMMA DivisionIs ==
    ASSUME NEW a \in Int, NEW b \in Nat \ {0}, NEW q \in Int, q * b <= a, a < q * b + b
    PROVE  a \div b = q
OBVIOUS

(* The remainder from the quotient.                                        *)
LEMMA Remainder ==
    ASSUME NEW a \in Int, NEW b \in Nat \ {0}
    PROVE  a % b = a - (a \div b) * b
OBVIOUS

(* Multiples of a positive number, in order.                               *)
LEMMA Products ==
    ASSUME NEW i \in Int, NEW j \in Int, NEW b \in Nat \ {0}
    PROVE  /\ i * b \in Int /\ (i + 1) * b = i * b + b
           /\ i < j => i * b + b <= j * b
OBVIOUS

(* Products associate.                                                     *)
LEMMA ProductOfThree ==
    ASSUME NEW i \in Int, NEW b \in Int, NEW c \in Int
    PROVE  i * (b * c) = (i * b) * c /\ b * c \in Int /\ i * b \in Int
OBVIOUS

(* A product of positive numbers is positive.                              *)
LEMMA ProductPositive ==
    ASSUME NEW b \in Nat \ {0}, NEW c \in Nat \ {0}
    PROVE  b * c \in Nat \ {0}
OBVIOUS

(* A multiple that reaches a value is at least its quotient rounded up.    *)
LEMMA Quotients ==
    ASSUME NEW i \in Int, NEW j \in Int, NEW b \in Nat \ {0}, i * b < j * b
    PROVE  i < j
<1>1. j < i => j * b + b <= i * b
    BY Products
<1>2. i * b \in Int /\ j * b \in Int
    BY Products
<1>3. j = i => j * b = i * b
    OBVIOUS
<1>4. ~ (j < i)
    BY <1>1, <1>2
<1>5. j # i
    BY <1>2, <1>3
<1> QED BY <1>4, <1>5

(* The division rounded up, times the divisor, reaches the number.         *)
LEMMA CeilDivReaches ==
    ASSUME NEW a \in Int, NEW b \in Nat \ {0}
    PROVE  CeilDiv(a, b) \in Int /\ a <= CeilDiv(a, b) * b
<1> DEFINE z == a + b - 1
           c == z \div b
<1>1. z \in Int
    OBVIOUS
<1> HIDE DEF z
<1>2. c \in Int /\ z < c * b + b
    BY <1>1, Division
<1>3. CeilDiv(a, b) = c
    BY DEF CeilDiv, z
<1> HIDE DEF c
<1>4. c * b \in Int
    BY <1>2, Products
<1> DEFINE y == c * b
<1>5. y \in Int /\ z < y + b
    BY <1>2, <1>4
<1> HIDE DEF y
<1>6. a <= y
    BY <1>5 DEF z
<1> QED BY <1>2, <1>3, <1>6 DEF y

(* _create_shards_with_range() leaves out no record of the range.          *)
LEMMA RangeCovers ==
    ASSUME NEW a \in Int, NEW b \in Int, NEW r \in Int, a <= r, r < b
    PROVE  \E s \in Range(create_shards_with_range(a, b)) : s[1] <= r /\ r < s[2]
<1> DEFINE S == ShardSize
           m == CeilDiv(b - a, S)
           f == create_shards_with_range(a, b)
           j == (r - a) \div S
           lo == j * S
           hi == (j + 1) * S
<1>1. S \in Nat \ {0}
    BY SizesAre
<1>2. r - a \in Int /\ b - a \in Int /\ r - a >= 0
    OBVIOUS
<1>3. m \in Int /\ b - a <= m * S
    BY <1>1, <1>2, CeilDivReaches
<1>4. f = [i \in 1 .. m |-> <<a + (i - 1) * S, IF a + i * S > b THEN b ELSE a + i * S>>]
    BY DEF create_shards_with_range
<1> HIDE DEF S, m, f
<1>5. j \in Int /\ lo <= r - a /\ r - a < lo + S
    BY <1>1, <1>2, Division
<1> HIDE DEF j
<1>6. lo \in Int /\ hi = lo + S
    BY <1>1, <1>5, Products
<1>7. j * S < m * S
  <2>1. m * S \in Int
      BY <1>1, <1>3, Products
  <2> DEFINE y == m * S
  <2>2. y \in Int /\ b - a <= y
      BY <1>3, <2>1
  <2> HIDE DEF y, lo
  <2>3. lo < y
      BY <1>5, <1>6, <2>2
  <2> QED BY <2>3 DEF y, lo
<1>8. j < m
    BY <1>1, <1>3, <1>5, <1>7, Quotients
<1>9. j >= 0
  <2>1. j < 0 => j * S + S <= 0 * S
      BY <1>1, <1>5, Products
  <2>2. 0 * S = 0
      BY <1>1
  <2>3. j < 0 => lo + S <= 0
      BY <2>1, <2>2
  <2> HIDE DEF lo
  <2> QED BY <1>1, <1>2, <1>5, <1>6, <2>3
<1>10. j + 1 \in 1 .. m /\ (j + 1) - 1 = j
    BY <1>3, <1>5, <1>8, <1>9
<1>11. f[j + 1] = <<a + lo, IF a + hi > b THEN b ELSE a + hi>>
    BY <1>4, <1>10
<1>12. f[j + 1] \in Range(f)
    BY <1>4, <1>10 DEF Range
<1> HIDE DEF lo, hi
<1>13. a + lo <= r /\ r < a + hi
    BY <1>1, <1>5, <1>6
<1> DEFINE t == IF a + hi > b THEN b ELSE a + hi
<1>14. r < t
    BY <1>13
<1> HIDE DEF t
<1>15. f[j + 1] = <<a + lo, t>>
    BY <1>11 DEF t
<1>16. f[j + 1][1] <= r /\ r < f[j + 1][2]
    BY <1>13, <1>14, <1>15
<1> QED BY <1>12, <1>16 DEF f

(* The pass of an epoch that has the record, also with subepochs.          *)
LEMMA EpochCovers ==
    ASSUME NEW e \in 0 .. (NumEpochs - 1), NEW r \in 0 .. (DatasetSize - 1)
    PROVE  \E p \in 0 .. (Passes - 1) : /\ p \div Subepochs = e
                                        /\ \E s \in Shards(p) : s[1] <= r /\ r < s[2]
<1>1. e \in Nat /\ r \in Nat /\ e < NumEpochs /\ r < DatasetSize
    BY SizesAre
<1>2. CASE Subepochs = 1
  <2>1. Passes = NumEpochs /\ e \div 1 = e
      BY <1>1, <1>2, SizesAre DEF Passes
  <2>2. create_shards(e) = create_shards_with_range(0, DatasetSize)
      BY <1>2 DEF create_shards
  <2>3. \E s \in Shards(e) : s[1] <= r /\ r < s[2]
      BY <1>1, <2>2, RangeCovers, SizesAre DEF Shards
  <2> QED BY <1>2, <2>1, <2>3
<1>3. CASE Subepochs # 1
  <2> DEFINE u == Subepochs
             size == MaxShardCount * ShardSize
             k == r \div size
             p == e * u + k
  <2>1. u \in Nat \ {0} /\ size \in Nat \ {0}
      BY SizesAre, SubepochsPositive, ProductPositive
  <2>2. u = CeilDiv(ShardCount, MaxShardCount)
      BY <1>3 DEF Subepochs
  <2>3. DatasetSize <= u * size
    <3> DEFINE n == ShardCount
               S == ShardSize
               M == MaxShardCount
    <3>1. n \in Int /\ DatasetSize <= n * S
        BY SizesAre, CeilDivReaches DEF ShardCount
    <3>2. n <= u * M
        BY <2>2, <3>1, SizesAre, CeilDivReaches
    <3>3. S \in Nat \ {0} /\ M \in Nat \ {0} /\ DatasetSize \in Nat
        BY SizesAre
    <3> HIDE DEF n, S, M, u
    <3>4. u * M \in Int /\ u * (M * S) = (u * M) * S
        BY <2>1, <3>3, ProductOfThree
    <3>5. n < u * M => n * S + S <= (u * M) * S
        BY <3>1, <3>3, <3>4, Products
    <3>6. n * S \in Int /\ (u * M) * S \in Int
        BY <3>1, <3>3, <3>4, Products
    <3>7. n * S <= (u * M) * S
      <4>1. CASE n = u * M
          BY <3>6, <4>1
      <4>2. CASE n < u * M
        <5> DEFINE y == n * S
                   z == (u * M) * S
        <5>1. y \in Int /\ z \in Int /\ y + S <= z
            BY <3>5, <3>6, <4>2
        <5> HIDE DEF y, z
        <5>2. y <= z
            BY <3>3, <5>1
        <5> QED BY <5>2 DEF y, z
      <4> QED BY <3>1, <3>2, <3>4, <4>1, <4>2
    <3> DEFINE y == n * S
               z == (u * M) * S
    <3>8. DatasetSize <= z
      <4>1. y \in Int /\ z \in Int /\ DatasetSize <= y /\ y <= z
          BY <3>1, <3>6, <3>7
      <4> HIDE DEF y, z
      <4> QED BY <3>3, <4>1
    <3> QED BY <3>4, <3>8 DEF S, M
  <2> HIDE DEF u, size
  <2>4. k \in Int /\ k * size <= r /\ r < k * size + size
      BY <1>1, <2>1, Division
  <2> HIDE DEF k
  <2>5. k * size \in Int /\ u * size \in Int
      BY <2>1, <2>4, Products
  <2>6. k * size < u * size
    <3> DEFINE y == k * size
               z == u * size
    <3>1. y \in Int /\ z \in Int /\ y <= r /\ DatasetSize <= z
        BY <2>3, <2>4, <2>5
    <3> HIDE DEF y, z
    <3>2. y < z
        BY <1>1, <3>1, SizesAre
    <3> QED BY <3>2 DEF y, z
  <2>7. k < u
      BY <2>1, <2>4, <2>6, Quotients
  <2>8. k >= 0
    <3>1. k < 0 => k * size + size <= 0 * size
        BY <2>1, <2>4, Products
    <3>2. 0 * size = 0
        BY <2>1
    <3> DEFINE y == k * size
    <3>3. y \in Int /\ r < y + size /\ (k < 0 => y + size <= 0)
        BY <2>4, <2>5, <3>1, <3>2
    <3> HIDE DEF y
    <3> QED BY <1>1, <2>1, <2>4, <3>3
  <2> DEFINE b == e * u
  <2>9. b \in Int /\ p = b + k /\ NumEpochs * u \in Int /\ b + u <= NumEpochs * u
      BY <1>1, <2>1, Products, SizesAre
  <2>10. b >= 0
      BY <1>1, <2>1
  <2>11. Passes = NumEpochs * u
      BY DEF Passes, u
  <2> DEFINE z == NumEpochs * u
  <2>12. p \in 0 .. (Passes - 1)
    <3>1. z \in Int /\ b + u <= z /\ Passes = z
        BY <2>9, <2>11
    <3> HIDE DEF b, z, p
    <3> QED BY <2>1, <2>4, <2>7, <2>8, <2>9, <2>10, <3>1
  <2>13. p \in Int /\ e * u <= p /\ p < e * u + u
    <3> HIDE DEF b, p
    <3>1. p \in Int /\ b <= p /\ p < b + u
        BY <2>1, <2>4, <2>7, <2>8, <2>9
    <3> QED BY <3>1 DEF b
  <2>14. p \div u = e
      BY <1>1, <2>1, <2>13, DivisionIs
  <2>15. p % u = k
    <3>1. p % u = p - (p \div u) * u
        BY <2>1, <2>13, Remainder
    <3>2. p % u = p - b
        BY <2>14, <3>1
    <3> HIDE DEF b, p
    <3> QED BY <2>4, <2>9, <3>2
  <2> HIDE DEF p, b, z
  <2> DEFINE from == k * size
             to == IF from + size > DatasetSize THEN DatasetSize ELSE from + size
  <2>16. create_shards(p) = create_shards_with_range(from, to)
      BY <1>3, <2>15 DEF create_shards, size, u
  <2>17. from \in Int /\ from <= r /\ r < from + size
      BY <2>4, <2>5
  <2> HIDE DEF from
  <2>18. to \in Int /\ r < to
      BY <1>1, <2>1, <2>17, SizesAre
  <2> HIDE DEF to
  <2>19. \E s \in Range(create_shards_with_range(from, to)) : s[1] <= r /\ r < s[2]
      BY <1>1, <2>17, <2>18, RangeCovers
  <2>20. \E s \in Shards(p) : s[1] <= r /\ r < s[2]
      BY <2>16, <2>19 DEF Shards
  <2> QED BY <2>12, <2>14, <2>20 DEF u
<1> QED BY <1>2, <1>3

-----------------------------------------------------------------------------
(* The two reads of completed().                                           *)

Seen == \A p \in 0 .. (Passes - 1) : \A s \in Shards(p) : <<p, s>> \in consumed \cup dropped

(* What the first read saw still holds until the second, unless the call   *)
(* was overtaken; and a TRUE that was not stays right until a restore.     *)
QInv ==
    /\ query = "asked" => epoch_finished /\ todo = <<>> /\ restoring = NotRestoring
    /\ query = "true" /\ (ckpt = NoCkpt \/ ~raced) => Seen

Kept ==
    /\ consumed \subseteq consumed' /\ dropped \subseteq dropped'
    /\ query' \in {"asked", "true"} => query' = query
    /\ query' = "asked" => UNCHANGED <<todo, pass, restoring>>
    /\ query' = "true" /\ (ckpt' = NoCkpt \/ ~raced') => ckpt = NoCkpt \/ ~raced

LEMMA KeptInv == ASSUME QInv, Kept PROVE QInv'
<1>1. ASSUME query' = "asked" PROVE (epoch_finished /\ todo = <<>> /\ restoring = NotRestoring)'
    BY <1>1 DEF QInv, Kept, epoch_finished
<1>2. ASSUME query' = "true", ckpt' = NoCkpt \/ ~raced' PROVE Seen'
  <2>1. Seen
      BY <1>2 DEF QInv, Kept
  <2>2. consumed \subseteq consumed' /\ dropped \subseteq dropped'
      BY DEF Kept
  <2> QED BY <2>1, <2>2 DEF Seen
<1> QED BY <1>1, <1>2 DEF QInv

(* A report counts the task, gives it up or puts it back.                  *)
LEMMA ReportKept ==
    ASSUME NEW id, NEW ok \in BOOLEAN, QInv, report_task_status(id, ok), Overtakes,
           UNCHANGED <<pass, restoring, ckpt>>, raced => raced'
    PROVE  QInv'
<1>1. consumed \subseteq consumed' /\ dropped \subseteq dropped'
    BY DEF report_task_status
<1>2. Kept
    BY <1>1 DEF Kept, Overtakes
<1> QED BY <1>2, KeptInv

LEMMA QNextInv == DInv /\ QInv /\ [Next]_vars => QInv'
<1> SUFFICES ASSUME DInv, QInv, [Next]_vars PROVE QInv'
    OBVIOUS
<1> USE DEF lockFree, datasetVars, workerVars
<1>0. raced \in BOOLEAN
    BY DEF DInv, Types, LockTypes
<1>1. ASSUME NEW w \in Workers, GetTask(w) PROVE QInv'
  <2>1. Kept
      BY <1>0, <1>1 DEF GetTask, Kept, Overtakes
  <2> QED BY <2>1, KeptInv
<1>2. ASSUME NEW w \in Workers, NEW task \in has[w], NEW ok \in BOOLEAN, SendReport(w, task, ok)
      PROVE  QInv'
  <2>1. Kept
      BY <1>2 DEF SendReport, Kept
  <2> QED BY <2>1, KeptInv
<1>3. ASSUME NEW w \in Workers, Die(w) PROVE QInv'
  <2>1. Kept
      BY <1>3 DEF Die, Kept
  <2> QED BY <2>1, KeptInv
<1>4. ASSUME NEW w \in Workers, Recover(w) PROVE QInv'
  <2>1. ASSUME RecoverBegin(w) \/ RecoverScan(w) PROVE QInv'
    <3>1. Kept
        BY <2>1 DEF RecoverBegin, RecoverScan, Kept
    <3> QED BY <3>1, KeptInv
  <2>2. ASSUME NEW id \in Ids, RecoverOne(w, id) PROVE QInv'
      BY <1>0, <2>2, ReportKept DEF RecoverOne
  <2> QED BY <1>4, <2>1, <2>2 DEF Recover
<1>5. ASSUME NEW m \in reports, DeliverReport(m) PROVE QInv'
  <2>1. m.ok \in BOOLEAN
      BY DEF DInv, Types, DataTypes
  <2> QED BY <1>0, <1>5, <2>1, ReportKept DEF DeliverReport
<1>6. ASSUME NEW id \in Ids, TimeoutFound(id) PROVE QInv'
  <2>1. Kept
      BY <1>6 DEF TimeoutFound, Kept
  <2> QED BY <2>1, KeptInv
<1>7. CASE TimeoutReport
    BY <1>0, <1>7, ReportKept DEF TimeoutReport
<1>8. CASE CheckpointBegin \/ CheckpointTodo \/ CheckpointEnd
  <2>1. CheckpointEnd => ckpt = NoCkpt
    <3>1. CheckpointEnd => reading # NotReading
      <4>1. Len(todo) \in Nat
          BY DEF DInv, Types, DataTypes
      <4> QED BY <4>1 DEF CheckpointEnd, NotReading
    <3> QED BY <3>1 DEF DInv, Places
  <2>2. Kept
      BY <1>8, <2>1 DEF CheckpointBegin, CheckpointTodo, CheckpointEnd, Kept
  <2> QED BY <2>2, KeptInv
<1>9. CASE RestoreBegin
    BY <1>9 DEF RestoreBegin, QInv
<1>10. CASE Restore
  <2>1. restoring # NotRestoring
      BY <1>10 DEF Restore, RestoreClear, RestoreOne, RestoreEnd, NotRestoring
  <2>2. Kept
      BY <1>10, <2>1 DEF Restore, RestoreClear, RestoreOne, RestoreEnd, Kept, QInv, Overtakes
  <2> QED BY <2>2, KeptInv
<1>11. CASE CompletedTodo
  <2>1. query' = "asked" => epoch_finished /\ todo = <<>> /\ restoring = NotRestoring
      BY <1>11 DEF CompletedTodo
  <2>2. query' # "true" /\ UNCHANGED <<pass, todo, restoring>>
      BY <1>11 DEF CompletedTodo
  <2> QED BY <2>1, <2>2 DEF QInv, epoch_finished
<1>12. CASE CompletedDoing
  <2>1. UNCHANGED <<datasetVars, lockFree, raced>>
      BY <1>12 DEF CompletedDoing
  <2>2. ASSUME query = "asked", DOMAIN doing = {}, ckpt = NoCkpt \/ ~raced,
               NEW p \in 0 .. (Passes - 1), NEW s \in Shards(p)
        PROVE  <<p, s>> \in consumed \cup dropped
    <3> DEFINE x == <<p, s>>
    <3>1. pass >= Passes /\ todo = <<>> /\ restoring.at = "none" /\ restoring.left = <<>>
        BY <2>2 DEF QInv, epoch_finished, NotRestoring
    <3>2. Live
        BY <2>2, <3>1 DEF DInv, Places
    <3>3. p \in 0 .. (pass - 1)
      <4>1. pass \in Nat
          BY DEF DInv, Types, DataTypes
      <4>2. Passes \in Int
          BY SizesAre, SubepochsPositive, ProductPositive DEF Passes
      <4> QED BY <3>1, <4>1, <4>2
    <3>4. Begun(x, pass)
        BY <3>3 DEF Begun
    <3>5. OneOf(TodoAt(todo, x), DoingAt(doing, x), TodoAt(restoring.left, x),
                x \in consumed, x \in dropped)
        BY <3>2, <3>4 DEF Live, Partition
    <3>6. TodoAt(todo, x) = {} /\ TodoAt(restoring.left, x) = {}
        BY <3>1, EmptyPlaces
    <3>7. DoingAt(doing, x) = {}
        BY <2>2 DEF DoingAt
    <3> QED BY <3>5, <3>6, <3>7 DEF OneOf, Single
  <2>3. query' = "true" => query = "asked" /\ DOMAIN doing = {}
      BY <1>12 DEF CompletedDoing
  <2>4. query' # "asked"
      BY <1>12 DEF CompletedDoing
  <2>5. query' = "true" /\ (ckpt' = NoCkpt \/ ~raced') => Seen
      BY <2>1, <2>2, <2>3 DEF Seen
  <2>6. Seen => Seen'
      BY <2>1 DEF Seen
  <2> QED BY <2>4, <2>5, <2>6 DEF QInv
<1>13. CASE UNCHANGED vars
  <2>1. Kept
      BY <1>13 DEF vars, Kept
  <2> QED BY <2>1, KeptInv
<1> QED BY <1>1, <1>2, <1>3, <1>4, <1>5, <1>6, <1>7, <1>8, <1>9, <1>10, <1>11, <1>12, <1>13 DEF Next

(* A completed() that answered TRUE has been through every record in every *)
(* epoch, counted or given up after the retries, although its reads of     *)
(* todo and doing are two and no lock is held: only a task handed out or   *)
(* put back between them, or an overtaken restore, can make it wrong.      *)
THEOREM RecordsSeen == Spec => []EveryRecordSeen
<1>1. Init => QInv
    BY DEF Init, QInv
<1>2. Spec => []QInv
    BY <1>1, DInvInductive, QNextInv, PTL DEF Spec
<1>3. ASSUME QInv PROVE EveryRecordSeen
  <2> SUFFICES ASSUME ~ raced, query = "true",
                      NEW e \in 0 .. (NumEpochs - 1), NEW r \in 0 .. (DatasetSize - 1)
               PROVE  \E x \in consumed \cup dropped :
                         x[1] \div Subepochs = e /\ x[2][1] <= r /\ r < x[2][2]
      BY DEF EveryRecordSeen
  <2>1. PICK p \in 0 .. (Passes - 1) : /\ p \div Subepochs = e
                                       /\ \E s \in Shards(p) : s[1] <= r /\ r < s[2]
      BY EpochCovers
  <2>2. PICK s \in Shards(p) : s[1] <= r /\ r < s[2]
      BY <2>1
  <2> DEFINE x == <<p, s>>
  <2>3. x \in consumed \cup dropped
      BY <1>3 DEF QInv, Seen
  <2>4. x[1] = p /\ x[2] = s
      OBVIOUS
  <2> HIDE DEF x
  <2> QED BY <2>1, <2>2, <2>3, <2>4
<1> QED BY <1>2, <1>3, PTL
=============================================================================
