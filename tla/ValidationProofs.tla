-------------------------- MODULE ValidationProofs --------------------------
(***************************************************************************)
(* Proofs about split_ring (module TaskSplit, handed out by MCTaskSplit)   *)
(* and about Validation, for every number of ranks, every list of rings,   *)
(* every depth of the broadcast and every number of episodes.              *)
(***************************************************************************)
EXTENDS Validation, MCTaskSplit, FiniteSetTheorems, TLAPS

-----------------------------------------------------------------------------
(* What split_ring() returns, pair by pair.                                *)

(* The tasks, their pairs, and the position of the sender of pair p.       *)
TaskCount(n) == IF n % 2 = 0 THEN 2 ELSE 3
TaskLen(n, t) == IF t = 3 THEN 1 ELSE n \div 2
SenderAt(n, t, p) == IF t = 1 THEN 2 * p - 1 ELSE IF t = 2 THEN 2 * p ELSE n

(* The position after i, around the ring.                                  *)
After(n, i) == (i % n) + 1

(* The position after i on a ring of n, without the modulo.                *)
LEMMA AfterIs ==
    ASSUME NEW n \in Nat \ {0}, NEW i \in 1 .. n
    PROVE  After(n, i) = IF i = n THEN 1 ELSE i + 1
BY DEF After

(* The two halves of a ring's length, even or odd.                         *)
LEMMA Halves ==
    ASSUME NEW n \in Nat, n >= 2
    PROVE  \E h \in Nat \ {0} :
              /\ n = 2 * h \/ n = 2 * h + 1
              /\ n \div 2 = h /\ (n + 1) \div 2 = n - h
              /\ (n - 1) \div 2 = n - h - 1
              /\ (n % 2 = 0 <=> n = 2 * h) /\ (n % 2 = 1 <=> n = 2 * h + 1)
OBVIOUS

(* Functions on 1 .. 2 and 1 .. 3 are tuples.                              *)
LEMMA TwoTuple ==
    ASSUME NEW f, f = [i \in 1 .. 2 |-> f[i]]
    PROVE  f = << f[1], f[2] >>
OBVIOUS

(* A function on 1 .. 3 is a triple.                                       *)
LEMMA ThreeTuple ==
    ASSUME NEW f, f = [i \in 1 .. 3 |-> f[i]]
    PROVE  f = << f[1], f[2], f[3] >>
OBVIOUS

(* zip() of lists of the same length.                                      *)
LEMMA ZipIs ==
    ASSUME NEW m \in Nat, NEW s, NEW r, Len(s) = m, Len(r) = m
    PROVE  Zip(s, r) = [k \in 1 .. m |-> [sender |-> s[k], recver |-> r[k]]]
BY DEF Zip

(* Pair p of task t of a ring g is the edge that leaves position           *)
(* SenderAt(Len(g), t, p).                                                 *)
EdgeOf(g, i) == [sender |-> g[i], recver |-> g[After(Len(g), i)]]
Tasks(g) == [t \in 1 .. TaskCount(Len(g)) |->
                [p \in 1 .. TaskLen(Len(g), t) |-> EdgeOf(g, SenderAt(Len(g), t, p))]]

(* The positions of the senders of all tasks are those of the ring.        *)
LEMMA SenderRange ==
    ASSUME NEW n \in Nat, n >= 2
    PROVE  /\ TaskCount(n) \in {2, 3} /\ n \div 2 \in Nat \ {0}
           /\ \A t \in 1 .. TaskCount(n) : TaskLen(n, t) \in Nat \ {0}
           /\ \A t \in 1 .. TaskCount(n) : \A p \in 1 .. TaskLen(n, t) :
                 SenderAt(n, t, p) \in 1 .. n
           /\ \A t, u \in 1 .. TaskCount(n) :
                 \A p \in 1 .. TaskLen(n, t), q \in 1 .. TaskLen(n, u) :
                    SenderAt(n, t, p) = SenderAt(n, u, q) => t = u /\ p = q
           /\ \A i \in 1 .. n : \E t \in 1 .. TaskCount(n) :
                 \E p \in 1 .. TaskLen(n, t) : SenderAt(n, t, p) = i
<1>1. PICK h \in Nat \ {0} :
              /\ n = 2 * h \/ n = 2 * h + 1
              /\ n \div 2 = h
              /\ (n % 2 = 0 <=> n = 2 * h) /\ (n % 2 = 1 <=> n = 2 * h + 1)
    BY Halves
<1>2. /\ TaskCount(n) = IF n = 2 * h THEN 2 ELSE 3
      /\ \A t : TaskLen(n, t) = IF t = 3 THEN 1 ELSE h
    BY <1>1 DEF TaskCount, TaskLen
<1>3. TaskCount(n) \in {2, 3} /\ n \div 2 \in Nat \ {0}
      /\ \A t \in 1 .. TaskCount(n) : TaskLen(n, t) \in Nat \ {0}
    BY <1>1, <1>2
<1>4. ASSUME NEW t \in 1 .. TaskCount(n), NEW p \in 1 .. TaskLen(n, t)
      PROVE  SenderAt(n, t, p) \in 1 .. n
  <2>1. t \in {1, 2, 3} /\ p \in Nat \ {0} /\ (t # 3 => p <= h)
      BY <1>1, <1>2, <1>3
  <2> QED BY <1>1, <2>1 DEF SenderAt
<1>5. ASSUME NEW t \in 1 .. TaskCount(n), NEW u \in 1 .. TaskCount(n),
             NEW p \in 1 .. TaskLen(n, t), NEW q \in 1 .. TaskLen(n, u),
             SenderAt(n, t, p) = SenderAt(n, u, q)
      PROVE  t = u /\ p = q
  <2>1. /\ t \in {1, 2, 3} /\ p \in Nat \ {0} /\ (t # 3 => p <= h) /\ (t = 3 => p = 1)
        /\ u \in {1, 2, 3} /\ q \in Nat \ {0} /\ (u # 3 => q <= h) /\ (u = 3 => q = 1)
        /\ (t = 3 => n = 2 * h + 1) /\ (u = 3 => n = 2 * h + 1)
      BY <1>1, <1>2, <1>3
  <2> QED BY <1>1, <1>5, <2>1 DEF SenderAt
<1>6. ASSUME NEW i \in 1 .. n
      PROVE  \E t \in 1 .. TaskCount(n) : \E p \in 1 .. TaskLen(n, t) :
                 SenderAt(n, t, p) = i
  <2>1. CASE i = 2 * h + 1
    <3>1. 3 \in 1 .. TaskCount(n) /\ 1 \in 1 .. TaskLen(n, 3) /\ SenderAt(n, 3, 1) = i
        BY <1>1, <1>2, <2>1 DEF SenderAt
    <3> QED BY <3>1
  <2>2. CASE i # 2 * h + 1
    <3>1. PICK p \in 1 .. h : i = 2 * p - 1 \/ i = 2 * p
      <4>1. (i + 1) \div 2 \in 1 .. h
            /\ (i = 2 * ((i + 1) \div 2) - 1 \/ i = 2 * ((i + 1) \div 2))
          BY <1>1, <2>2
      <4> QED BY <4>1
    <3>2. CASE i = 2 * p - 1
      <4>1. 1 \in 1 .. TaskCount(n) /\ p \in 1 .. TaskLen(n, 1) /\ SenderAt(n, 1, p) = i
          BY <1>1, <1>2, <3>1, <3>2 DEF SenderAt
      <4> QED BY <4>1
    <3>3. CASE i = 2 * p
      <4>1. 2 \in 1 .. TaskCount(n) /\ p \in 1 .. TaskLen(n, 2) /\ SenderAt(n, 2, p) = i
          BY <1>1, <1>2, <3>1, <3>3 DEF SenderAt
      <4> QED BY <4>1
    <3> QED BY <3>1, <3>2, <3>3
  <2> QED BY <2>1, <2>2
<1> QED BY <1>3, <1>4, <1>5, <1>6

(* Within a task no position is used twice.                                *)
LEMMA TaskPositions ==
    ASSUME NEW n \in Nat, n >= 2, NEW t \in 1 .. TaskCount(n),
           NEW p \in 1 .. TaskLen(n, t), NEW q \in 1 .. TaskLen(n, t)
    PROVE  /\ After(n, SenderAt(n, t, p)) \in 1 .. n
           /\ SenderAt(n, t, p) # After(n, SenderAt(n, t, q))
           /\ After(n, SenderAt(n, t, p)) = After(n, SenderAt(n, t, q)) => p = q
<1>1. PICK h \in Nat \ {0} :
              /\ n = 2 * h \/ n = 2 * h + 1
              /\ n \div 2 = h
              /\ (n % 2 = 0 <=> n = 2 * h) /\ (n % 2 = 1 <=> n = 2 * h + 1)
    BY Halves
<1>2. /\ t \in {1, 2, 3} /\ (t = 3 => n = 2 * h + 1)
      /\ p \in Nat \ {0} /\ (t # 3 => p <= h) /\ (t = 3 => p = 1)
      /\ q \in Nat \ {0} /\ (t # 3 => q <= h) /\ (t = 3 => q = 1)
    BY <1>1 DEF TaskCount, TaskLen
<1>3. SenderAt(n, t, p) \in 1 .. n /\ SenderAt(n, t, q) \in 1 .. n
    BY SenderRange
<1>4. \A i \in 1 .. n : After(n, i) = IF i = n THEN 1 ELSE i + 1
    BY AfterIs
<1> QED BY <1>1, <1>2, <1>3, <1>4 DEF SenderAt

(* split_ring() for every ring.                                            *)
LEMMA SplitRingIs ==
    ASSUME NEW S, NEW g \in Seq(S), Len(g) >= 2
    PROVE  split_ring(g) = Tasks(g)
<1> DEFINE n == Len(g)
<1>1. n \in Nat /\ n >= 2
    OBVIOUS
<1>2. PICK h \in Nat \ {0} :
              /\ n = 2 * h \/ n = 2 * h + 1
              /\ n \div 2 = h /\ (n + 1) \div 2 = n - h
              /\ (n - 1) \div 2 = n - h - 1
              /\ (n % 2 = 0 <=> n = 2 * h) /\ (n % 2 = 1 <=> n = 2 * h + 1)
    BY <1>1, Halves
<1>3. \A i \in 1 .. n : After(n, i) = IF i = n THEN 1 ELSE i + 1
    BY <1>1, AfterIs
<1> DEFINE T(t) == [p \in 1 .. TaskLen(n, t) |-> EdgeOf(g, SenderAt(n, t, p))]
<1>4. n = 2 * h => Tasks(g) = << T(1), T(2) >>
  <2> SUFFICES ASSUME n = 2 * h PROVE Tasks(g) = << T(1), T(2) >>
      OBVIOUS
  <2>1. TaskCount(n) = 2
      BY <1>2 DEF TaskCount
  <2>2. Tasks(g) = [t \in 1 .. 2 |-> T(t)]
      BY <2>1 DEF Tasks
  <2> HIDE DEF T
  <2>3. Tasks(g) = [t \in 1 .. 2 |-> Tasks(g)[t]] /\ Tasks(g)[1] = T(1) /\ Tasks(g)[2] = T(2)
      BY <2>2
  <2> QED BY <2>3, TwoTuple
<1>5. n = 2 * h + 1 => Tasks(g) = << T(1), T(2), T(3) >>
  <2> SUFFICES ASSUME n = 2 * h + 1 PROVE Tasks(g) = << T(1), T(2), T(3) >>
      OBVIOUS
  <2>1. TaskCount(n) = 3
      BY <1>2 DEF TaskCount
  <2>2. Tasks(g) = [t \in 1 .. 3 |-> T(t)]
      BY <2>1 DEF Tasks
  <2> HIDE DEF T
  <2>3. Tasks(g) = [t \in 1 .. 3 |-> Tasks(g)[t]]
        /\ Tasks(g)[1] = T(1) /\ Tasks(g)[2] = T(2) /\ Tasks(g)[3] = T(3)
      BY <2>2
  <2> QED BY <2>3, ThreeTuple
<1>6. /\ T(1) = [p \in 1 .. h |-> [sender |-> g[2 * p - 1], recver |-> g[2 * p]]]
      /\ T(2) = [p \in 1 .. h |->
                   [sender |-> g[2 * p], recver |-> g[IF 2 * p = n THEN 1 ELSE 2 * p + 1]]]
      /\ T(3) = [p \in 1 .. 1 |-> [sender |-> g[n], recver |-> g[1]]]
  <2>1. \A p \in 1 .. h : /\ 2 * p - 1 \in 1 .. n /\ 2 * p \in 1 .. n
                          /\ 2 * p - 1 # n /\ (2 * p - 1) + 1 = 2 * p
      BY <1>1, <1>2
  <2>2. \A p \in 1 .. h : /\ SenderAt(n, 1, p) = 2 * p - 1 /\ SenderAt(n, 2, p) = 2 * p
                          /\ After(n, 2 * p - 1) = 2 * p
                          /\ After(n, 2 * p) = IF 2 * p = n THEN 1 ELSE 2 * p + 1
      BY <1>3, <2>1 DEF SenderAt
  <2>3. SenderAt(n, 3, 1) = n /\ After(n, n) = 1
      BY <1>1, <1>3 DEF SenderAt
  <2>4. TaskLen(n, 1) = h /\ TaskLen(n, 2) = h /\ TaskLen(n, 3) = 1
      BY <1>2 DEF TaskLen
  <2> QED BY <2>2, <2>3, <2>4, SMTT(30) DEF EdgeOf
<1> HIDE DEF T
<1>7. CASE n = 2
  <2>1. h = 1
      BY <1>2, <1>7
  <2>2. split_ring(g) = << Zip(<<g[1]>>, <<g[2]>>), Zip(<<g[2]>>, <<g[1]>>) >>
      BY <1>7 DEF split_ring
  <2>3. /\ Zip(<<g[1]>>, <<g[2]>>) = [p \in 1 .. 1 |-> [sender |-> g[1], recver |-> g[2]]]
        /\ Zip(<<g[2]>>, <<g[1]>>) = [p \in 1 .. 1 |-> [sender |-> g[2], recver |-> g[1]]]
      BY DEF Zip
  <2>4. /\ T(1) = [p \in 1 .. 1 |-> [sender |-> g[1], recver |-> g[2]]]
        /\ T(2) = [p \in 1 .. 1 |-> [sender |-> g[2], recver |-> g[1]]]
      BY <1>6, <1>7, <2>1
  <2> QED BY <1>4, <1>7, <2>1, <2>2, <2>3, <2>4
<1>8. CASE n # 2 /\ n = 2 * h
  <2> DEFINE a == EverySecond(g, 0, n)
             b == EverySecond(g, 1, n)
             c == EverySecond(g, 2, n - 1)
             d == c \o <<g[1]>>
  <2>1. split_ring(g) = << Zip(a, b), Zip(b, d) >>
      BY <1>2, <1>8 DEF split_ring
  <2>2. /\ (n - 0 + 1) \div 2 = h /\ (n - 1 + 1) \div 2 = h
        /\ (n - 1 - 2 + 1) \div 2 = h - 1 /\ h - 1 \in Nat
      BY <1>2, <1>8
  <2>3. Len(a) = h /\ \A k \in 1 .. h : a[k] = g[2 * k - 1]
    <3>1. a = [k \in 1 .. h |-> g[0 + 2 * (k - 1) + 1]]
        BY <2>2 DEF EverySecond
    <3>2. \A k \in 1 .. h : 0 + 2 * (k - 1) + 1 = 2 * k - 1
        OBVIOUS
    <3> HIDE DEF a
    <3> QED BY <2>2, <3>1, <3>2
  <2>4. Len(b) = h /\ \A k \in 1 .. h : b[k] = g[2 * k]
    <3>1. b = [k \in 1 .. h |-> g[1 + 2 * (k - 1) + 1]]
        BY <2>2 DEF EverySecond
    <3>2. \A k \in 1 .. h : 1 + 2 * (k - 1) + 1 = 2 * k
        OBVIOUS
    <3> HIDE DEF b
    <3> QED BY <2>2, <3>1, <3>2
  <2>5. Len(c) = h - 1 /\ \A k \in 1 .. (h - 1) : c[k] = g[2 * k + 1]
    <3>1. c = [k \in 1 .. (h - 1) |-> g[2 + 2 * (k - 1) + 1]]
        BY <2>2 DEF EverySecond
    <3>2. \A k \in 1 .. (h - 1) : 2 + 2 * (k - 1) + 1 = 2 * k + 1
        OBVIOUS
    <3> HIDE DEF c
    <3> QED BY <2>2, <3>1, <3>2
  <2>6. c \in Seq(S) /\ g[1] \in S
    <3>1. c = [k \in 1 .. (h - 1) |-> g[2 + 2 * (k - 1) + 1]]
        BY <2>2 DEF EverySecond
    <3>2. \A k \in 1 .. (h - 1) : 2 + 2 * (k - 1) + 1 \in 1 .. n
        BY <1>1, <1>8
    <3>3. \A k \in 1 .. (h - 1) : g[2 + 2 * (k - 1) + 1] \in S
        BY <3>2
    <3> QED BY <1>1, <2>2, <3>1, <3>3, SMTT(30)
  <2> HIDE DEF a, b, c
  <2>7. Len(d) = h /\ \A k \in 1 .. h : d[k] = g[IF 2 * k = n THEN 1 ELSE 2 * k + 1]
    <3>1. /\ Len(d) = (h - 1) + 1
          /\ \A k \in 1 .. (h - 1) : d[k] = c[k]
          /\ d[(h - 1) + 1] = g[1]
        BY <2>5, <2>6
    <3>2. \A k \in 1 .. h : k \in 1 .. (h - 1) \/ k = h
        OBVIOUS
    <3>3. \A k \in 1 .. (h - 1) : 2 * k # n
        BY <1>8
    <3>4. (h - 1) + 1 = h
        OBVIOUS
    <3> QED BY <1>8, <2>5, <3>1, <3>2, <3>3, <3>4
  <2> HIDE DEF d
  <2>8. Zip(a, b) = [k \in 1 .. h |-> [sender |-> a[k], recver |-> b[k]]]
        /\ Zip(b, d) = [k \in 1 .. h |-> [sender |-> b[k], recver |-> d[k]]]
      BY <2>3, <2>4, <2>7, ZipIs
  <2>9. Zip(a, b) = T(1)
    <3>1. \A k \in 1 .. h : [sender |-> a[k], recver |-> b[k]]
                              = [sender |-> g[2 * k - 1], recver |-> g[2 * k]]
        BY <2>3, <2>4
    <3>2. T(1) = [k \in 1 .. h |-> [sender |-> g[2 * k - 1], recver |-> g[2 * k]]]
        BY <1>6
    <3> QED BY <2>8, <3>1, <3>2
  <2>10. Zip(b, d) = T(2)
    <3>1. \A k \in 1 .. h : [sender |-> b[k], recver |-> d[k]]
                              = [sender |-> g[2 * k], recver |-> g[IF 2 * k = n THEN 1 ELSE 2 * k + 1]]
        BY <2>4, <2>7
    <3>2. T(2) = [k \in 1 .. h |-> [sender |-> g[2 * k], recver |-> g[IF 2 * k = n THEN 1 ELSE 2 * k + 1]]]
        BY <1>6
    <3> QED BY <2>8, <3>1, <3>2
  <2> QED BY <1>4, <1>8, <2>1, <2>9, <2>10
<1>9. CASE n = 2 * h + 1
  <2> DEFINE a == EverySecond(g, 0, n - 1)
             b == EverySecond(g, 1, n)
             c == EverySecond(g, 2, n)
  <2>1. split_ring(g) = << Zip(a, b), Zip(b, c), Zip(<<g[n]>>, <<g[1]>>) >>
      BY <1>2, <1>9 DEF split_ring
  <2>2. /\ (n - 1 - 0 + 1) \div 2 = h /\ (n - 1 + 1) \div 2 = h
        /\ (n - 2 + 1) \div 2 = h
      BY <1>2, <1>9
  <2>3. Len(a) = h /\ \A k \in 1 .. h : a[k] = g[2 * k - 1]
    <3>1. a = [k \in 1 .. h |-> g[0 + 2 * (k - 1) + 1]]
        BY <2>2 DEF EverySecond
    <3>2. \A k \in 1 .. h : 0 + 2 * (k - 1) + 1 = 2 * k - 1
        OBVIOUS
    <3> HIDE DEF a
    <3> QED BY <2>2, <3>1, <3>2
  <2>4. Len(b) = h /\ \A k \in 1 .. h : b[k] = g[2 * k]
    <3>1. b = [k \in 1 .. h |-> g[1 + 2 * (k - 1) + 1]]
        BY <2>2 DEF EverySecond
    <3>2. \A k \in 1 .. h : 1 + 2 * (k - 1) + 1 = 2 * k
        OBVIOUS
    <3> HIDE DEF b
    <3> QED BY <2>2, <3>1, <3>2
  <2>5. Len(c) = h /\ \A k \in 1 .. h : c[k] = g[2 * k + 1]
    <3>1. c = [k \in 1 .. h |-> g[2 + 2 * (k - 1) + 1]]
        BY <2>2 DEF EverySecond
    <3>2. \A k \in 1 .. h : 2 + 2 * (k - 1) + 1 = 2 * k + 1
        OBVIOUS
    <3> HIDE DEF c
    <3> QED BY <2>2, <3>1, <3>2
  <2>6. Zip(<<g[n]>>, <<g[1]>>) = [p \in 1 .. 1 |-> [sender |-> g[n], recver |-> g[1]]]
      BY DEF Zip
  <2>7. \A k \in 1 .. h : 2 * k # n
      BY <1>9
  <2> HIDE DEF a, b, c
  <2>8. Zip(a, b) = [k \in 1 .. h |-> [sender |-> a[k], recver |-> b[k]]]
        /\ Zip(b, c) = [k \in 1 .. h |-> [sender |-> b[k], recver |-> c[k]]]
      BY <2>3, <2>4, <2>5, ZipIs
  <2>9. Zip(a, b) = T(1)
    <3>1. \A k \in 1 .. h : [sender |-> a[k], recver |-> b[k]]
                              = [sender |-> g[2 * k - 1], recver |-> g[2 * k]]
        BY <2>3, <2>4
    <3>2. T(1) = [k \in 1 .. h |-> [sender |-> g[2 * k - 1], recver |-> g[2 * k]]]
        BY <1>6
    <3> QED BY <2>8, <3>1, <3>2
  <2>10. Zip(b, c) = T(2)
    <3>1. \A k \in 1 .. h : [sender |-> b[k], recver |-> c[k]]
                              = [sender |-> g[2 * k], recver |-> g[IF 2 * k = n THEN 1 ELSE 2 * k + 1]]
        BY <2>4, <2>5, <2>7
    <3>2. T(2) = [k \in 1 .. h |-> [sender |-> g[2 * k], recver |-> g[IF 2 * k = n THEN 1 ELSE 2 * k + 1]]]
        BY <1>6
    <3> QED BY <2>8, <3>1, <3>2
  <2>11. Zip(<<g[n]>>, <<g[1]>>) = T(3)
      BY <1>6, <2>6
  <2> QED BY <1>5, <1>9, <2>1, <2>9, <2>10, <2>11
<1> QED BY <1>2, <1>7, <1>8, <1>9

-----------------------------------------------------------------------------
(* The tasks of a ring, handed out in order.                               *)

OneToOne(s) == \A i, j \in DOMAIN s : s[i] = s[j] => i = j

Image(f, m) == {f[i] : i \in 1 .. m}

(* Two lists of m different ranks each.                                    *)
LEMMA CountTwice ==
    ASSUME NEW m \in Nat, NEW a, NEW b, DOMAIN a = 1 .. m, DOMAIN b = 1 .. m,
           a = [i \in DOMAIN a |-> a[i]], b = [i \in DOMAIN b |-> b[i]],
           OneToOne(a), OneToOne(b), \A i, j \in 1 .. m : a[i] # b[j]
    PROVE  Cardinality(Image(a, m) \cup Image(b, m)) = 2 * m
<1>1. ASSUME NEW f, DOMAIN f = 1 .. m, f = [i \in DOMAIN f |-> f[i]], OneToOne(f)
      PROVE  IsFiniteSet(Image(f, m)) /\ Cardinality(Image(f, m)) = m
  <2> DEFINE F == Image(f, m)
  <2>1. f \in [1 .. m -> F]
      BY <1>1 DEF Image
  <2>2. \A i, j \in 1 .. m : f[i] = f[j] => i = j
      BY <1>1 DEF OneToOne
  <2>3. \A x \in F : \E i \in 1 .. m : f[i] = x
      BY DEF Image
  <2> HIDE DEF F
  <2>4. f \in Bijection(1 .. m, F)
      BY <2>1, <2>2, <2>3 DEF Bijection, Injection, Surjection, IsInjective
  <2>5. ExistsBijection(1 .. m, F)
      BY <2>4 DEF ExistsBijection
  <2>6. IsFiniteSet(1 .. m) /\ Cardinality(1 .. m) = m
      BY FS_Interval
  <2>7. IsFiniteSet(F) /\ Cardinality(F) = m
      BY <2>5, <2>6, FS_Bijection
  <2> QED BY <2>7 DEF F
<1> DEFINE A == Image(a, m)
           B == Image(b, m)
<1>2. IsFiniteSet(A) /\ Cardinality(A) = m /\ IsFiniteSet(B) /\ Cardinality(B) = m
    BY <1>1
<1>3. A \cap B = {}
    BY DEF Image
<1> HIDE DEF A, B
<1>4. Cardinality(A \cup B) = Cardinality(A) + Cardinality(B)
                                - Cardinality(A \cap B)
    BY <1>2, FS_Union
<1>5. Cardinality(A \cap B) = 0
    BY <1>3, FS_EmptySet
<1>6. Cardinality(A \cup B) = 2 * m
    BY <1>2, <1>4, <1>5
<1> QED BY <1>6 DEF A, B

(* A ring with every rank once.                                            *)
Ring(g, S) == g \in Seq(S) /\ Len(g) >= 2 /\ OneToOne(g)

(* T is task t of the ring: its pairs are edges, and no rank is in it      *)
(* twice.                                                                  *)
IsTaskOf(T, t, g, S) ==
    /\ T = [p \in 1 .. TaskLen(Len(g), t) |-> EdgeOf(g, SenderAt(Len(g), t, p))]
    /\ TaskLen(Len(g), t) \in Nat \ {0}
    /\ Len(T) = TaskLen(Len(g), t)
    /\ DOMAIN T = 1 .. TaskLen(Len(g), t)
    /\ \A p \in DOMAIN T :
          /\ T[p] = EdgeOf(g, SenderAt(Len(g), t, p))
          /\ T[p].sender \in S /\ T[p].recver \in S
    /\ \A p, q \in DOMAIN T :
          /\ T[p].sender # T[q].recver
          /\ T[p].sender = T[q].sender => p = q
          /\ T[p].recver = T[q].recver => p = q

(* Every task split_ring() makes of a ring is well formed.                 *)
LEMMA TaskFacts ==
    ASSUME NEW S, NEW g, Ring(g, S), NEW t \in 1 .. TaskCount(Len(g))
    PROVE  IsTaskOf(Tasks(g)[t], t, g, S)
<1> DEFINE n == Len(g)
           T == Tasks(g)[t]
<1>1. n \in Nat /\ n >= 2 /\ g \in Seq(S) /\ DOMAIN g = 1 .. n /\ OneToOne(g)
    BY DEF Ring
<1>2. T = [p \in 1 .. TaskLen(n, t) |-> EdgeOf(g, SenderAt(n, t, p))]
    BY DEF Tasks
<1>3. TaskLen(n, t) \in Nat \ {0}
    BY <1>1, SenderRange
<1> HIDE DEF T
<1>4. Len(T) = TaskLen(n, t) /\ DOMAIN T = 1 .. TaskLen(n, t)
    BY <1>2, <1>3
<1>5. \A p \in DOMAIN T :
         /\ T[p] = EdgeOf(g, SenderAt(n, t, p))
         /\ SenderAt(n, t, p) \in 1 .. n
         /\ After(n, SenderAt(n, t, p)) \in 1 .. n
    BY <1>1, <1>2, <1>4, SenderRange, TaskPositions
<1>6. \A p \in DOMAIN T : /\ T[p].sender = g[SenderAt(n, t, p)]
                          /\ T[p].recver = g[After(n, SenderAt(n, t, p))]
    BY <1>5 DEF EdgeOf
<1>7. \A p \in DOMAIN T : T[p].sender \in S /\ T[p].recver \in S
    BY <1>1, <1>5, <1>6
<1>8. \A p, q \in DOMAIN T :
         /\ SenderAt(n, t, p) # After(n, SenderAt(n, t, q))
         /\ SenderAt(n, t, p) = SenderAt(n, t, q) => p = q
         /\ After(n, SenderAt(n, t, p)) = After(n, SenderAt(n, t, q)) => p = q
  <2> SUFFICES ASSUME NEW p \in 1 .. TaskLen(n, t), NEW q \in 1 .. TaskLen(n, t)
               PROVE  /\ SenderAt(n, t, p) # After(n, SenderAt(n, t, q))
                      /\ SenderAt(n, t, p) = SenderAt(n, t, q) => p = q
                      /\ After(n, SenderAt(n, t, p)) = After(n, SenderAt(n, t, q)) => p = q
      BY <1>4
  <2>1. SenderAt(n, t, p) = SenderAt(n, t, q) => p = q
      BY <1>1, SenderRange, SMTT(30)
  <2>2. /\ SenderAt(n, t, p) # After(n, SenderAt(n, t, q))
        /\ After(n, SenderAt(n, t, p)) = After(n, SenderAt(n, t, q)) => p = q
      BY <1>1, TaskPositions
  <2> QED BY <2>1, <2>2
<1>9. \A p, q \in DOMAIN T :
         /\ T[p].sender # T[q].recver
         /\ T[p].sender = T[q].sender => p = q
         /\ T[p].recver = T[q].recver => p = q
    BY <1>1, <1>5, <1>6, <1>8 DEF OneToOne
<1>10. IsTaskOf(T, t, g, S)
    BY <1>2, <1>3, <1>4, <1>5, <1>7, <1>9 DEF IsTaskOf
<1> QED BY <1>10 DEF T

(* The tasks handed out are the first ones of split_ring().                *)
RingInv ==
    /\ Ring(ring, RankSet)
    /\ \E k \in 0 .. TaskCount(Len(ring)) : tasks = [t \in 1 .. k |-> Tasks(ring)[t]]

(* Before a task is handed out no edge was tested.                         *)
LEMMA RingInitInv == RingInit => RingInv
<1> SUFFICES ASSUME RingInit PROVE RingInv
    OBVIOUS
<1>1. PICK n \in 2 .. MaxRanks : ring \in [1 .. n -> RankSet]
                              /\ \A i, j \in 1 .. n : ring[i] = ring[j] => i = j
    BY DEF RingInit, AllRings
<1>2. ring \in Seq(RankSet) /\ Len(ring) = n /\ DOMAIN ring = 1 .. n
    BY <1>1
<1>3. Ring(ring, RankSet)
    BY <1>1, <1>2 DEF Ring, OneToOne
<1>4. TaskCount(Len(ring)) \in {2, 3}
    BY <1>1, <1>2, SenderRange
<1>5. tasks = [t \in 1 .. 0 |-> Tasks(ring)[t]]
    BY DEF RingInit
<1> QED BY <1>3, <1>4, <1>5 DEF RingInv

(* Handing out one more task keeps the facts about the edges tested.       *)
LEMMA HandOutInv == RingInv /\ [HandOut]_<<ring, tasks>> => RingInv'
<1> SUFFICES ASSUME RingInv, [HandOut]_<<ring, tasks>> PROVE RingInv'
    OBVIOUS
<1>1. CASE UNCHANGED <<ring, tasks>>
    BY <1>1 DEF RingInv
<1>2. CASE HandOut
  <2>1. Ring(ring, RankSet) /\ ring' = ring
      BY <1>2 DEF RingInv, HandOut
  <2>2. PICK k \in 0 .. TaskCount(Len(ring)) : tasks = [t \in 1 .. k |-> Tasks(ring)[t]]
      BY DEF RingInv
  <2>3. split_ring(ring) = Tasks(ring)
      BY <2>1, SplitRingIs DEF Ring
  <2>4. TaskCount(Len(ring)) \in {2, 3}
      BY <2>1, SenderRange DEF Ring
  <2>5. Len(Tasks(ring)) = TaskCount(Len(ring)) /\ Len(tasks) = k /\ k \in Nat
      BY <2>2, <2>4 DEF Tasks
  <2>6. k + 1 \in 0 .. TaskCount(Len(ring)) /\ tasks' = Append(tasks, Tasks(ring)[k + 1])
      BY <1>2, <2>3, <2>4, <2>5 DEF HandOut
  <2>7. Append(tasks, Tasks(ring)[k + 1]) = [t \in 1 .. (k + 1) |-> Tasks(ring)[t]]
      BY <2>2, <2>5
  <2> QED BY <2>1, <2>6, <2>7 DEF RingInv
<1> QED BY <1>1, <1>2

(* An edge of the ring has one sender, hence one place.                    *)
LEMMA TestedOnce ==
    ASSUME NEW S, NEW g, Ring(g, S), NEW e
    PROVE  Cardinality(TestedAt(Tasks(g), e)) = IF e \in RingEdges(g) THEN 1 ELSE 0
<1> DEFINE n == Len(g)
           W == TestedAt(Tasks(g), e)
<1>1. n \in Nat /\ n >= 2 /\ DOMAIN g = 1 .. n /\ OneToOne(g)
    BY DEF Ring
<1>2. RingEdges(g) = {EdgeOf(g, i) : i \in 1 .. n}
    BY DEF RingEdges, EdgeOf, After
<1>3. DOMAIN Tasks(g) = 1 .. TaskCount(n)
    BY DEF Tasks
<1>4. \A w : w \in W <=> \E t \in 1 .. TaskCount(n) : \E p \in 1 .. TaskLen(n, t) :
                            w = << t, p >> /\ EdgeOf(g, SenderAt(n, t, p)) = e
  <2>1. \A w : w \in W <=> \E t \in DOMAIN Tasks(g) : \E p \in DOMAIN Tasks(g)[t] :
                              w = << t, p >> /\ Tasks(g)[t][p] = e
      BY DEF TestedAt
  <2>2. ASSUME NEW t \in 1 .. TaskCount(n)
        PROVE  /\ DOMAIN Tasks(g)[t] = 1 .. TaskLen(n, t)
               /\ \A p \in 1 .. TaskLen(n, t) :
                     Tasks(g)[t][p] = EdgeOf(g, SenderAt(n, t, p))
    <3> DEFINE T == Tasks(g)[t]
    <3>0. IsTaskOf(T, t, g, S)
        BY TaskFacts
    <3> HIDE DEF T
    <3>1. /\ DOMAIN T = 1 .. TaskLen(n, t)
          /\ \A p \in DOMAIN T : T[p] = EdgeOf(g, SenderAt(n, t, p))
        BY <3>0 DEF IsTaskOf
    <3>2. \A p \in 1 .. TaskLen(n, t) : T[p] = EdgeOf(g, SenderAt(n, t, p))
        BY <3>1
    <3> QED BY <3>1, <3>2 DEF T
  <2>3. ASSUME NEW w PROVE w \in W <=>
                 \E t \in 1 .. TaskCount(n) : \E p \in 1 .. TaskLen(n, t) :
                    w = << t, p >> /\ EdgeOf(g, SenderAt(n, t, p)) = e
    <3>1. ASSUME NEW t \in 1 .. TaskCount(n)
          PROVE  (\E p \in DOMAIN Tasks(g)[t] : w = << t, p >> /\ Tasks(g)[t][p] = e)
                 <=> (\E p \in 1 .. TaskLen(n, t) :
                        w = << t, p >> /\ EdgeOf(g, SenderAt(n, t, p)) = e)
        BY <2>2, Zenon
    <3> HIDE DEF W
    <3> QED BY <1>3, <2>1, <3>1, Zenon
  <2> QED BY <2>3
<1> HIDE DEF W
<1>5. CASE e \in RingEdges(g)
  <2>1. PICK i \in 1 .. n : e = EdgeOf(g, i)
      BY <1>2, <1>5
  <2>0. PICK t \in 1 .. TaskCount(n) : \E p \in 1 .. TaskLen(n, t) : SenderAt(n, t, p) = i
      BY <1>1, SenderRange
  <2>2. PICK p \in 1 .. TaskLen(n, t) : SenderAt(n, t, p) = i
      BY <2>0
  <2>3. ASSUME NEW u \in 1 .. TaskCount(n), NEW q \in 1 .. TaskLen(n, u),
               EdgeOf(g, SenderAt(n, u, q)) = e
        PROVE  u = t /\ q = p
    <3>1. g[SenderAt(n, u, q)] = g[i]
        BY <2>1, <2>3 DEF EdgeOf
    <3>2. SenderAt(n, u, q) \in 1 .. n
        BY <1>1, SenderRange
    <3>3. SenderAt(n, u, q) = SenderAt(n, t, p)
        BY <1>1, <2>2, <3>1, <3>2 DEF OneToOne
    <3>4. \A v, w \in 1 .. TaskCount(n) :
             \A x \in 1 .. TaskLen(n, v), y \in 1 .. TaskLen(n, w) :
                SenderAt(n, v, x) = SenderAt(n, w, y) => v = w /\ x = y
        BY <1>1, SenderRange
    <3> QED BY <3>3, <3>4
  <2>4. W = {<< t, p >>}
      BY <1>4, <2>1, <2>2, <2>3
  <2> QED BY <1>5, <2>4, FS_Singleton DEF W
<1>6. CASE e \notin RingEdges(g)
  <2>1. \A t \in 1 .. TaskCount(n) : \A p \in 1 .. TaskLen(n, t) :
            SenderAt(n, t, p) \in 1 .. n
      BY <1>1, SenderRange
  <2>2. W = {}
      BY <1>2, <1>4, <1>6, <2>1
  <2> QED BY <1>6, <2>2, FS_EmptySet DEF W
<1> QED BY <1>5, <1>6

(* split_ring() has every directed edge of every ring tested exactly once, *)
(* and tests no other pair of ranks, whatever the number of ranks.         *)
THEOREM RingTestedOnce == RingSpec => []EdgesTestedOnce
<1>1. RingInv => EdgesTestedOnce
  <2> SUFFICES ASSUME RingInv, Len(tasks) = Len(split_ring(ring)), NEW e
               PROVE  Cardinality(TestedAt(tasks, e)) =
                          IF e \in RingEdges(ring) THEN 1 ELSE 0
      BY DEF EdgesTestedOnce
  <2>1. Ring(ring, RankSet)
      BY DEF RingInv
  <2>2. PICK k \in 0 .. TaskCount(Len(ring)) : tasks = [t \in 1 .. k |-> Tasks(ring)[t]]
      BY DEF RingInv
  <2>3. split_ring(ring) = Tasks(ring)
      BY <2>1, SplitRingIs DEF Ring
  <2>4. TaskCount(Len(ring)) \in {2, 3}
      BY <2>1, SenderRange DEF Ring
  <2>5. Len(Tasks(ring)) = TaskCount(Len(ring)) /\ Len(tasks) = k
      BY <2>2, <2>4 DEF Tasks
  <2>6. tasks = Tasks(ring)
      BY <2>2, <2>3, <2>5 DEF Tasks
  <2> QED BY <2>1, <2>6, TestedOnce
<1> QED BY <1>1, RingInitInv, HandOutInv, PTL DEF RingSpec

(* No task of split_ring() is empty or names a rank twice, so that         *)
(* dispatch_comm_task() writes every key once.                             *)
THEOREM RingRanksDisjoint == RingSpec => []RanksDisjoint
<1>1. RingInv => RanksDisjoint
  <2> SUFFICES ASSUME RingInv, NEW t \in DOMAIN tasks
               PROVE  /\ tasks[t] # << >>
                      /\ Cardinality(UNION {Endpoints(tasks[t][p]) : p \in DOMAIN tasks[t]})
                           = 2 * Len(tasks[t])
      BY DEF RanksDisjoint
  <2> DEFINE T == tasks[t]
             m == Len(T)
             a == [p \in 1 .. m |-> T[p].sender]
             b == [p \in 1 .. m |-> T[p].recver]
  <2>1. Ring(ring, RankSet)
      BY DEF RingInv
  <2>2. PICK k \in 0 .. TaskCount(Len(ring)) : tasks = [u \in 1 .. k |-> Tasks(ring)[u]]
      BY DEF RingInv
  <2>3. TaskCount(Len(ring)) \in {2, 3}
      BY <2>1, SenderRange DEF Ring
  <2>4. t \in 1 .. TaskCount(Len(ring)) /\ T = Tasks(ring)[t]
      BY <2>2, <2>3
  <2> HIDE DEF T
  <2>5. /\ Len(T) \in Nat \ {0} /\ DOMAIN T = 1 .. Len(T)
        /\ \A p, q \in DOMAIN T :
              /\ T[p].sender # T[q].recver
              /\ T[p].sender = T[q].sender => p = q
              /\ T[p].recver = T[q].recver => p = q
    <3>1. IsTaskOf(T, t, ring, RankSet)
        BY <2>1, <2>4, TaskFacts, Zenon
    <3> QED BY <3>1 DEF IsTaskOf
  <2>m. m \in Nat \ {0} /\ m \in Nat /\ DOMAIN T = 1 .. m
      BY <2>5
  <2> HIDE DEF m
  <2>6. T # << >>
      BY <2>5
  <2>7. OneToOne(a) /\ OneToOne(b) /\ \A i, j \in 1 .. m : a[i] # b[j]
      BY <2>5, <2>m DEF OneToOne
  <2>8. DOMAIN a = 1 .. m /\ DOMAIN b = 1 .. m
        /\ a = [i \in DOMAIN a |-> a[i]] /\ b = [i \in DOMAIN b |-> b[i]]
      OBVIOUS
  <2>9. UNION {Endpoints(T[p]) : p \in DOMAIN T}
            = Image(a, m) \cup Image(b, m)
      BY <2>5, <2>m DEF Endpoints, Image
  <2> HIDE DEF a, b
  <2>10. Cardinality(Image(a, m) \cup Image(b, m)) = 2 * m
      BY <2>m, <2>7, <2>8, CountTwice, Zenon
  <2> QED BY <2>6, <2>9, <2>10 DEF T, m
<1> QED BY <1>1, RingInitInv, HandOutInv, PTL DEF RingSpec

-----------------------------------------------------------------------------
(* The inductive invariant of Validation.                                  *)

Busy == {"ack", "p2p", "reply"}
Under == spc \in {"set", "ack", "collect", "delete"}

(* Nobody works on, or has left, anything for r.                           *)
Quiet(r) == ~IsTask(task[r]) /\ rpc[r] \notin Busy /\ result[r] = None

(* Entry i of the task was handed out.                                     *)
Given(i) == spc \in {"ack", "collect", "delete"} \/ (spc = "set" /\ i <= idx)

(* Content c on its way to r, in r's hands, and answered.                  *)
Waiting(r, c) == /\ task[r] = c /\ result[r] = None
                 /\ rpc[r] \notin {"p2p", "reply"}
                 /\ rpc[r] = "ack" => fetched[r] = c
Working(r, c) == /\ task[r] = ACKED /\ result[r] = None
                 /\ rpc[r] \in {"p2p", "reply"} /\ fetched[r] = c
                 /\ rpc[r] = "p2p" => c.role # "comp"
Answered(r, c) == task[r] = ACKED /\ rpc[r] \notin Busy /\ result[r] = c

(* ... and the same with what the server has read of it.                   *)
Job(r, c) ==
    IF results[r] = None
    THEN Waiting(r, c) \/ Working(r, c) \/ Answered(r, c)
    ELSE /\ results[r] = c /\ task[r] = ACKED /\ rpc[r] \notin Busy
         /\ result[r] = IF spc = "delete" /\ cur = r THEN c ELSE None

(* The variables are functions on the ranks.                               *)
Shape ==
    /\ DOMAIN task = Ranks /\ DOMAIN result = Ranks /\ DOMAIN results = Ranks
    /\ DOMAIN rpc = Ranks /\ DOMAIN fetched = Ranks
    /\ task = [r \in Ranks |-> task[r]] /\ result = [r \in Ranks |-> result[r]]
    /\ results = [r \in Ranks |-> results[r]]
    /\ rpc = [r \in Ranks |-> rpc[r]] /\ fetched = [r \in Ranks |-> fetched[r]]

(* Where the server is in the loops over the rings and their tasks.        *)
Position ==
    /\ spc \in {"idle", "profiling", "set", "ack", "collect", "delete"}
    /\ clique \in 0 .. Len(Rings) /\ step \in Nat /\ round \in Nat
    /\ clique = 0 => step = 0
    /\ clique # 0 => Len(Rings[clique]) # 1
                     /\ step \in 1 .. TaskCount(Len(Rings[clique]))

Entry ==
    /\ idx \in Nat
    /\ spc \in {"set", "ack"} => idx < Len(Work) /\ \A r \in Ranks : results[r] = None
    /\ spc = "ack" => \A i \in 1 .. idx : task[Work[i].rank] = ACKED
    /\ spc \in {"collect", "delete"} => \A i \in DOMAIN Work : task[Work[i].rank] = ACKED
    /\ spc = "delete" => cur \in Ranks /\ results[cur] # None

Jobs ==
    /\ ~Under => \A r \in Ranks : Quiet(r)
    /\ Under => \A i \in DOMAIN Work : Given(i) => Job(Work[i].rank, Work[i].content)
    /\ Under => \A r \in Ranks :
                   (\A i \in DOMAIN Work : Given(i) => Work[i].rank # r)
                      => Quiet(r) /\ results[r] = None

VInv == Shape /\ Position /\ Entry /\ Jobs /\ ResultsBelongToTask

(* What the server hands out: every rank once, and the two ends of a       *)
(* send/recv with each other's rank.                                       *)
Partners(v, w) ==
    /\ w.rank = v.content.peer /\ w.content.peer = v.rank
    /\ w.content.comm = v.content.comm
    /\ \/ v.content.role = "send" /\ w.content.role = "recv"
       \/ v.content.role = "recv" /\ w.content.role = "send"

IsWork(W) ==
    /\ Len(W) \in Nat \ {0} /\ DOMAIN W = 1 .. Len(W)
    /\ \A i \in DOMAIN W : /\ W[i].rank \in Ranks
                           /\ W[i].content.role \in {"comp", "send", "recv"}
                           /\ W[i] = [rank |-> W[i].rank, content |-> W[i].content]
    /\ \A i, j \in DOMAIN W : W[i].rank = W[j].rank => i = j
    /\ \A i \in DOMAIN W : W[i].content.role # "comp" =>
                              \E j \in DOMAIN W : Partners(W[i], W[j])

(* The other index of a pair of ranks in a task's list.                    *)
LEMMA PairIndex ==
    ASSUME NEW m \in Nat \ {0}, NEW k \in 1 .. 2 * m
    PROVE  /\ (k + 1) \div 2 \in 1 .. m
           /\ k % 2 = 1 => /\ k + 1 \in 1 .. 2 * m /\ (k + 1) % 2 # 1
                           /\ (k + 1 + 1) \div 2 = (k + 1) \div 2
           /\ k % 2 # 1 => /\ k - 1 \in 1 .. 2 * m /\ (k - 1) % 2 = 1
                           /\ (k - 1 + 1) \div 2 = (k + 1) \div 2
           /\ \A l \in 1 .. 2 * m :
                 (k + 1) \div 2 = (l + 1) \div 2 /\ (k % 2 = 1 <=> l % 2 = 1) => k = l
OBVIOUS

(* What the server sends out for a task is well formed: everyone has one   *)
(* partner, and that partner has them.                                     *)
LEMMA PairWorkIs ==
    ASSUME NEW T, NEW t, NEW g, IsTaskOf(T, t, g, Ranks)
    PROVE  IsWork(PairWork(T))
<1> DEFINE W == PairWork(T)
           m == Len(T)
           P(k) == T[(k + 1) \div 2]
<1>1. /\ m \in Nat \ {0} /\ DOMAIN T = 1 .. m
      /\ \A p \in DOMAIN T : T[p].sender \in Ranks /\ T[p].recver \in Ranks
      /\ \A p, q \in DOMAIN T :
            /\ T[p].sender # T[q].recver
            /\ T[p].sender = T[q].sender => p = q
            /\ T[p].recver = T[q].recver => p = q
    BY DEF IsTaskOf
<1>2. W = [k \in 1 .. 2 * m |->
             IF k % 2 = 1
             THEN [rank |-> P(k).sender,
                   content |-> [role |-> "send", peer |-> P(k).recver,
                                comm |-> clique, round |-> round]]
             ELSE [rank |-> P(k).recver,
                   content |-> [role |-> "recv", peer |-> P(k).sender,
                                comm |-> clique, round |-> round]]]
    BY DEF PairWork
<1>3. 2 * m \in Nat \ {0}
    BY <1>1
<1> HIDE DEF W, m
<1>4. Len(W) = 2 * m /\ DOMAIN W = 1 .. 2 * m
    BY <1>2, <1>3
<1>5. \A k \in 1 .. 2 * m :
         /\ k % 2 = 1 => W[k] = [rank |-> P(k).sender,
                                 content |-> [role |-> "send", peer |-> P(k).recver,
                                              comm |-> clique, round |-> round]]
         /\ k % 2 # 1 => W[k] = [rank |-> P(k).recver,
                                 content |-> [role |-> "recv", peer |-> P(k).sender,
                                              comm |-> clique, round |-> round]]
    BY <1>2
<1>6. \A k \in 1 .. 2 * m : (k + 1) \div 2 \in DOMAIN T
    BY <1>1, PairIndex
<1>7. ASSUME NEW k \in DOMAIN W
      PROVE  /\ W[k].rank \in Ranks
             /\ W[k].content.role \in {"comp", "send", "recv"}
             /\ W[k] = [rank |-> W[k].rank, content |-> W[k].content]
  <2>1. /\ W[k] = [rank |-> W[k].rank, content |-> W[k].content]
        /\ W[k].content.role \in {"send", "recv"}
        /\ W[k].rank \in {P(k).sender, P(k).recver}
    <3>1. CASE k % 2 = 1
      <4>1. W[k] = [rank |-> P(k).sender,
                    content |-> [role |-> "send", peer |-> P(k).recver,
                                 comm |-> clique, round |-> round]]
          BY <1>4, <1>5, <3>1
      <4> QED BY <4>1
    <3>2. CASE k % 2 # 1
      <4>1. W[k] = [rank |-> P(k).recver,
                    content |-> [role |-> "recv", peer |-> P(k).sender,
                                 comm |-> clique, round |-> round]]
          BY <1>4, <1>5, <3>2
      <4> QED BY <4>1
    <3> QED BY <3>1, <3>2
  <2>2. P(k).sender \in Ranks /\ P(k).recver \in Ranks
      BY <1>1, <1>4, <1>6
  <2> QED BY <2>1, <2>2
<1>8. ASSUME NEW k \in DOMAIN W, NEW l \in DOMAIN W, W[k].rank = W[l].rank
      PROVE  k = l
  <2>1. /\ W[k].rank = IF k % 2 = 1 THEN P(k).sender ELSE P(k).recver
        /\ W[l].rank = IF l % 2 = 1 THEN P(l).sender ELSE P(l).recver
      BY <1>4, <1>5
  <2>2. (k % 2 = 1 <=> l % 2 = 1) /\ (k + 1) \div 2 = (l + 1) \div 2
      BY <1>1, <1>4, <1>6, <1>8, <2>1
  <2> QED BY <1>1, <1>4, <2>2, PairIndex
<1>9. ASSUME NEW k \in DOMAIN W
      PROVE  \E l \in DOMAIN W : Partners(W[k], W[l])
  <2>1. CASE k % 2 = 1
    <3>1. k + 1 \in 1 .. 2 * m /\ (k + 1) % 2 # 1
          /\ (k + 1 + 1) \div 2 = (k + 1) \div 2
        BY <1>1, <1>4, <2>1, PairIndex DEF m
    <3>3. P(k + 1) = P(k)
        BY <3>1
    <3>2. Partners(W[k], W[k + 1])
      <4>1. W[k] = [rank |-> P(k).sender,
                      content |-> [role |-> "send", peer |-> P(k).recver,
                                   comm |-> clique, round |-> round]]
          BY <1>4, <1>5, <2>1
      <4>2. W[k + 1] = [rank |-> P(k).recver,
                      content |-> [role |-> "recv", peer |-> P(k).sender,
                                   comm |-> clique, round |-> round]]
        <5> HIDE DEF P
        <5> QED BY <1>5, <3>1, <3>3
      <4> HIDE DEF P
      <4> QED BY <4>1, <4>2 DEF Partners
    <3> QED BY <1>4, <3>1, <3>2
  <2>2. CASE k % 2 # 1
    <3>1. k - 1 \in 1 .. 2 * m /\ (k - 1) % 2 = 1
          /\ (k - 1 + 1) \div 2 = (k + 1) \div 2
        BY <1>1, <1>4, <2>2, PairIndex DEF m
    <3>3. P(k - 1) = P(k)
        BY <3>1
    <3>2. Partners(W[k], W[k - 1])
      <4>1. W[k] = [rank |-> P(k).recver,
                      content |-> [role |-> "recv", peer |-> P(k).sender,
                                   comm |-> clique, round |-> round]]
          BY <1>4, <1>5, <2>2
      <4>2. W[k - 1] = [rank |-> P(k).sender,
                      content |-> [role |-> "send", peer |-> P(k).recver,
                                   comm |-> clique, round |-> round]]
        <5> HIDE DEF P
        <5> QED BY <1>5, <3>1, <3>3
      <4> HIDE DEF P
      <4> QED BY <4>1, <4>2 DEF Partners
    <3> QED BY <1>4, <3>1, <3>2
  <2> QED BY <2>1, <2>2
<1>10. IsWork(W)
    BY <1>3, <1>4, <1>7, <1>8, <1>9 DEF IsWork
<1> QED BY <1>10 DEF W

(* The work of the server's present task is well formed.                   *)
LEMMA WorkFacts == Position => IsWork(Work)
<1> SUFFICES ASSUME Position PROVE IsWork(Work)
    OBVIOUS
<1>1. CASE clique = 0
  <2> DEFINE W == Work
  <2>1. W = [i \in 1 .. WorldSize |->
               [rank |-> i - 1, content |-> [role |-> "comp", round |-> round]]]
      BY <1>1 DEF Work, ComputationWork
  <2>2. WorldSize \in Nat \ {0}
      BY ValidationAssumption
  <2> HIDE DEF W
  <2>3. Len(W) = WorldSize /\ DOMAIN W = 1 .. WorldSize
      BY <2>1, <2>2
  <2>4. \A i \in DOMAIN W : /\ W[i].rank = i - 1 /\ W[i].content.role = "comp"
                            /\ W[i] = [rank |-> W[i].rank, content |-> W[i].content]
      BY <2>1, <2>3
  <2>5. IsWork(W)
      BY <2>2, <2>3, <2>4 DEF IsWork, Ranks
  <2> QED BY <2>5 DEF W
<1>2. CASE clique # 0
  <2> DEFINE g == Rings[clique]
  <2>1. clique \in DOMAIN Rings /\ step \in 1 .. TaskCount(Len(g)) /\ Len(g) # 1
      BY <1>2, ValidationAssumption DEF Position
  <2>2. g \in Seq(Ranks) /\ g # << >> /\ \A i, j \in DOMAIN g : g[i] = g[j] => i = j
      BY <2>1, ValidationAssumption, RingAssumption DEF Ranks
  <2> HIDE DEF g
  <2>3. Ring(g, Ranks)
    <3>1. Len(g) \in Nat /\ Len(g) # 0
        BY <2>2
    <3>2. Len(g) >= 2
      <4>1. \A n \in Nat : n # 0 /\ n # 1 => n >= 2
          OBVIOUS
      <4> QED BY <2>1, <3>1, <4>1, Zenon
    <3> QED BY <2>2, <3>2 DEF Ring, OneToOne
  <2>4. split_ring(g) = Tasks(g)
      BY <2>3, SplitRingIs DEF Ring
  <2>5. IsTaskOf(Tasks(g)[step], step, g, Ranks)
      BY <2>1, <2>3, TaskFacts
  <2>6. Work = PairWork(Tasks(g)[step])
      BY <1>2, <2>4 DEF Work, g
  <2> QED BY <2>5, <2>6, PairWorkIs
<1> QED BY <1>1, <1>2

(* The same after a step.                                                  *)
LEMMA WorkFactsNext == Position' => IsWork(Work)'
BY WorkFacts, PTL

(* The rings have two or three tasks each.                                 *)
LEMMA TaskCountIs ==
    ASSUME NEW c \in DOMAIN Rings, Len(Rings[c]) # 1
    PROVE  /\ Len(split_ring(Rings[c])) = TaskCount(Len(Rings[c]))
           /\ TaskCount(Len(Rings[c])) \in {2, 3}
<1> DEFINE g == Rings[c]
<1>1. g \in Seq(Ranks) /\ g # << >>
    BY ValidationAssumption, RingAssumption DEF Ranks
<1> HIDE DEF g
<1>2. Len(g) \in Nat /\ Len(g) # 0 /\ Len(g) # 1
    BY <1>1 DEF g
<1>3. Len(g) >= 2
  <2>1. \A n \in Nat : n # 0 /\ n # 1 => n >= 2
      OBVIOUS
  <2> QED BY <1>2, <2>1, Zenon
<1>4. split_ring(g) = Tasks(g)
    BY <1>1, <1>3, SplitRingIs
<1>5. TaskCount(Len(g)) \in {2, 3}
    BY <1>2, <1>3, SenderRange
<1>6. Len(Tasks(g)) = TaskCount(Len(g))
    BY <1>5 DEF Tasks
<1> QED BY <1>4, <1>5, <1>6 DEF g

(* The invariant holds before the first episode.                           *)
LEMMA VInitInv == Init => VInv
<1> SUFFICES ASSUME Init PROVE VInv
    OBVIOUS
<1>1. Shape /\ Position
    BY ValidationAssumption DEF Init, Shape, Position
<1>2. Entry
    BY DEF Init, Entry
<1>3. Jobs
    BY DEF Init, Jobs, Under, Quiet, Busy, IsTask
<1>4. ResultsBelongToTask
    BY DEF Init, ResultsBelongToTask
<1> QED BY <1>1, <1>2, <1>3, <1>4 DEF VInv

(* A task begins when all ranks are quiet.                                 *)
LEMMA BeginInv ==
    ASSUME Shape, \A r \in Ranks : Quiet(r),
           UNCHANGED <<task, result, rpc, fetched>>,
           NEW c, NEW s, BeginTask(c, s), Position'
    PROVE  VInv'
<1> DEFINE W == Work'
<1>1. IsWork(W)
    BY WorkFactsNext DEF IsWork, Partners, Ranks
<1>2. spc' = "set" /\ idx' = 0 /\ results' = [r \in Ranks |-> None]
    BY DEF BeginTask
<1> HIDE DEF W
<1>3. Shape'
    BY <1>2 DEF Shape
<1>4. Entry'
    BY <1>1, <1>2 DEF Entry, IsWork, W
<1>5. \A r \in Ranks : Quiet(r)'
    BY DEF Quiet
<1>6. ASSUME NEW i \in DOMAIN W
      PROVE  ~ Given(i)'
    BY <1>1, <1>2 DEF Given, IsWork
<1>7. Jobs'
    BY <1>2, <1>5, <1>6 DEF Jobs, W, Under
<1>8. ResultsBelongToTask'
    BY <1>2 DEF ResultsBelongToTask
<1> QED BY <1>3, <1>4, <1>7, <1>8 DEF VInv

(* Once every result is collected, no rank has work left.                  *)
LEMMA AllCollected ==
    ASSUME VInv, spc = "collect", Collected
    PROVE  \A r \in Ranks : Quiet(r)
<1> DEFINE W == Work
<1> SUFFICES ASSUME NEW r \in Ranks PROVE Quiet(r)
    OBVIOUS
<1>1. IsWork(W)
    BY WorkFacts DEF VInv
<1>2. \A i \in DOMAIN W : results[W[i].rank] # None
    BY DEF Collected, Involved
<1>3. /\ \A i \in DOMAIN W : Given(i) => Job(W[i].rank, W[i].content)
      /\ (\A i \in DOMAIN W : Given(i) => W[i].rank # r) => Quiet(r)
    BY DEF VInv, Jobs, Under
<1> HIDE DEF W
<1>4. ASSUME NEW i \in DOMAIN W, Given(i), W[i].rank = r PROVE Quiet(r)
    BY <1>2, <1>3, <1>4 DEF Job, Quiet, IsTask
<1> QED BY <1>3, <1>4

(* The server switches the job to profile mode.                            *)
LEMMA SetProfilingInv == VInv /\ SetProfiling => VInv'
<1> SUFFICES ASSUME VInv, SetProfiling PROVE VInv'
    OBVIOUS
<1>1. Work' = Work
    BY DEF SetProfiling, Work, ComputationWork, PairWork
<1>2. Shape' /\ Position'
    BY DEF SetProfiling, VInv, Shape, Position, rankVars
<1>3. Entry'
    BY <1>1 DEF SetProfiling, VInv, Entry
<1>4. Jobs'
    BY <1>1 DEF SetProfiling, VInv, Jobs, Under, Quiet, rankVars
<1>5. ResultsBelongToTask'
    BY <1>1 DEF SetProfiling, VInv, ResultsBelongToTask
<1> QED BY <1>2, <1>3, <1>4, <1>5 DEF VInv

(* The server pauses the job.                                              *)
LEMMA PauseTrainingInv == VInv /\ PauseTraining => VInv'
<1> SUFFICES ASSUME VInv, PauseTraining PROVE VInv'
    OBVIOUS
<1>1. Shape /\ \A r \in Ranks : Quiet(r)
    BY DEF PauseTraining, VInv, Jobs, Under
<1>2. UNCHANGED <<task, result, rpc, fetched>> /\ BeginTask(0, 0)
    BY DEF PauseTraining, rankVars
<1>3. Position'
    BY <1>2, ValidationAssumption DEF BeginTask, VInv, Position
<1> QED BY <1>1, <1>2, <1>3, BeginInv

(* The server goes on to the next task, or to the end of the episode.      *)
LEMMA NextTaskInv == VInv /\ NextTask => VInv'
<1> SUFFICES ASSUME VInv, NextTask PROVE VInv'
    OBVIOUS
<1>1. Shape /\ \A r \in Ranks : Quiet(r)
    BY AllCollected DEF NextTask, VInv
<1>2. UNCHANGED <<task, result, rpc, fetched>>
    BY DEF NextTask, rankVars, redisVars
<1>3. CASE LastStep
  <2>1. PICK c \in Ahead : BeginTask(c, 1)
      BY <1>3 DEF NextTask
  <2>2. c \in DOMAIN Rings /\ Len(Rings[c]) # 1 /\ c \in 1 .. Len(Rings)
      BY ValidationAssumption DEF Ahead
  <2>3. TaskCount(Len(Rings[c])) \in {2, 3}
      BY <2>2, TaskCountIs
  <2>4. Position'
    <3>1. clique' = c /\ step' = 1 /\ round' = round + 1 /\ spc' = "set"
        BY <2>1 DEF BeginTask
    <3>2. round \in Nat
        BY DEF VInv, Position
    <3>3. 1 \in 1 .. TaskCount(Len(Rings[c])) /\ c \in 0 .. Len(Rings) /\ c # 0
        BY <2>2, <2>3
    <3> QED BY <2>2, <3>1, <3>2, <3>3 DEF Position
  <2> QED BY <1>1, <1>2, <2>1, <2>4, BeginInv
<1>4. CASE ~LastStep
  <2>1. BeginTask(clique, step + 1)
      BY <1>4 DEF NextTask
  <2>2. /\ clique \in 0 .. Len(Rings) /\ clique # 0 /\ Len(Rings[clique]) # 1
        /\ step \in 1 .. TaskCount(Len(Rings[clique])) /\ round \in Nat
        /\ step # Len(split_ring(Rings[clique]))
      BY <1>4 DEF LastStep, VInv, Position
  <2>3. clique \in DOMAIN Rings
      BY <2>2, ValidationAssumption
  <2>4. /\ Len(split_ring(Rings[clique])) = TaskCount(Len(Rings[clique]))
        /\ TaskCount(Len(Rings[clique])) \in {2, 3}
      BY <2>2, <2>3, TaskCountIs
  <2>5. step + 1 \in 1 .. TaskCount(Len(Rings[clique])) /\ step + 1 \in Nat
      BY <2>2, <2>4
  <2>6. Position'
    <3>1. clique' = clique /\ step' = step + 1 /\ round' = round + 1 /\ spc' = "set"
        BY <2>1 DEF BeginTask
    <3> QED BY <2>2, <2>5, <3>1 DEF Position
  <2> QED BY <1>1, <1>2, <2>1, <2>6, BeginInv
<1> QED BY <1>3, <1>4

(* The server resumes the job.                                             *)
LEMMA SetMonitoringInv == VInv /\ SetMonitoring => VInv'
<1> SUFFICES ASSUME VInv, SetMonitoring PROVE VInv'
    OBVIOUS
<1>1. Work' = Work
    BY DEF SetMonitoring, Work, ComputationWork, PairWork
<1>2. Shape' /\ Position'
    BY DEF SetMonitoring, VInv, Shape, Position, rankVars
<1>3. Entry'
    BY <1>1 DEF SetMonitoring, VInv, Entry
<1>4. \A r \in Ranks : Quiet(r)
    BY AllCollected DEF SetMonitoring
<1>5. Jobs'
    BY <1>1, <1>4 DEF SetMonitoring, Jobs, Under, Quiet, rankVars
<1>6. ResultsBelongToTask'
    BY <1>1 DEF SetMonitoring, VInv, ResultsBelongToTask
<1> QED BY <1>2, <1>3, <1>5, <1>6 DEF VInv

(* The server writes the work of one rank to the store.                    *)
LEMMA SetTaskInv == VInv /\ SetTask => VInv'
<1> SUFFICES ASSUME VInv, SetTask PROVE VInv'
    OBVIOUS
<1> DEFINE W == Work
           z == W[idx + 1].rank
           c == W[idx + 1].content
<1>1. Work' = Work
    BY DEF SetTask, Work, ComputationWork, PairWork
<1>2. IsWork(W)
    BY WorkFacts DEF VInv
<1>3. /\ spc = "set" /\ idx \in Nat /\ idx < Len(W) /\ task' = [task EXCEPT ![z] = c]
      /\ UNCHANGED <<control, result, episode, clique, step, results, cur, round,
                     rpc, state, device, inbox, fetched>>
      /\ \/ idx + 1 = Len(W) /\ spc' = "ack" /\ idx' = 0
         \/ idx + 1 # Len(W) /\ spc' = "set" /\ idx' = idx + 1
    BY DEF SetTask, VInv, Entry, rankVars
<1> HIDE DEF W
<1>4. idx + 1 \in DOMAIN W /\ z \in Ranks
      /\ c.role \in {"comp", "send", "recv"}
      /\ \A i \in DOMAIN W : i \in Nat /\ (W[i].rank = z => i = idx + 1)
      /\ DOMAIN W = 1 .. Len(W) /\ Len(W) \in Nat
  <2>1. DOMAIN W = 1 .. Len(W) /\ Len(W) \in Nat
      BY <1>2 DEF IsWork
  <2>2. \A n, m \in Nat : m < n => m + 1 \in 1 .. n
      OBVIOUS
  <2>3. idx + 1 \in DOMAIN W
      BY <1>3, <2>1, <2>2, Zenon
  <2>4. \A i \in DOMAIN W : i \in Nat
      BY <2>1
  <2> QED BY <1>2, <2>1, <2>3, <2>4 DEF IsWork
<1>5. Shape' /\ Position'
    BY <1>3 DEF VInv, Shape, Position
<1>6. \A r \in Ranks : task'[r] = IF r = z THEN c ELSE task[r]
    BY <1>3 DEF VInv, Shape
<1>7. \A i \in DOMAIN W : Given(i) <=> i <= idx
    BY <1>3 DEF Given
<1>8. \A i \in DOMAIN W : Given(i)' <=> (i <= idx \/ i = idx + 1)
    BY <1>3, <1>4 DEF Given
<1> HIDE DEF z, c
<1>9. Quiet(z) /\ results[z] = None
  <2>1. \A i \in DOMAIN W : Given(i) => W[i].rank # z
      BY <1>3, <1>4, <1>7
  <2> QED BY <1>3, <1>4, <2>1 DEF VInv, Jobs, Under, W
<1>10. Entry'
  <2>1. Len(Work) \in Nat \ {0} /\ DOMAIN Work = 1 .. Len(Work)
      BY <1>2 DEF IsWork, W
  <2>2. \A n \in Nat \ {0}, m \in Nat :
           0 < n /\ m + 1 \in Nat /\ (m < n /\ m + 1 # n => m + 1 < n) /\ 1 .. 0 = {}
      OBVIOUS
  <2>3. /\ idx' \in Nat /\ idx' < Len(Work) /\ spc' \in {"set", "ack"}
        /\ spc' = "ack" => idx' = 0
    <3>1. CASE idx + 1 = Len(W)
      <4>1. Len(W) \in Nat \ {0} /\ spc' = "ack" /\ idx' = 0
          BY <1>3, <2>1, <3>1 DEF W
      <4>2. 0 < Len(W) /\ 0 \in Nat
          BY <2>2, <4>1
      <4> QED BY <4>1, <4>2 DEF W
    <3>2. CASE idx + 1 # Len(W)
      <4>1. Len(W) \in Nat \ {0} /\ idx \in Nat /\ idx < Len(W)
            /\ spc' = "set" /\ idx' = idx + 1
          BY <1>3, <2>1, <3>2 DEF W
      <4>2. idx + 1 < Len(W) /\ idx + 1 \in Nat
          BY <2>2, <3>2, <4>1, Zenon
      <4> QED BY <4>1, <4>2 DEF W
    <3> QED BY <3>1, <3>2
  <2>4. \A r \in Ranks : results'[r] = None
      BY <1>3 DEF VInv, Entry
  <2> QED BY <1>1, <2>2, <2>3, <2>4 DEF Entry
<1>11. ASSUME NEW i \in DOMAIN W, Given(i)' PROVE Job(W[i].rank, W[i].content)'
  <2>1. W' = W
      BY <1>1 DEF W
  <2> SUFFICES ASSUME NEW r, NEW d, r = W[i].rank, d = W[i].content
               PROVE  Job(r, d)'
      BY <2>1
  <2>2. CASE i = idx + 1
    <3>1. r = z /\ d = c
        BY <2>2 DEF z, c
    <3> QED BY <1>3, <1>4, <1>6, <1>9, <3>1 DEF Job, Waiting, Quiet, Busy
  <2>3. CASE i # idx + 1
    <3>1. Given(i) /\ r # z /\ r \in Ranks
        BY <1>2, <1>4, <1>7, <1>8, <1>11, <2>3 DEF IsWork
    <3>2. Job(r, d)
        BY <1>3, <3>1 DEF VInv, Jobs, Under, W
    <3> QED BY <1>3, <1>6, <3>1, <3>2 DEF Job, Waiting, Working, Answered
  <2> QED BY <2>2, <2>3
<1>12. ASSUME NEW r \in Ranks, \A i \in DOMAIN W : Given(i)' => W[i].rank # r
       PROVE  Quiet(r)' /\ results'[r] = None
  <2>1. r # z
      BY <1>4, <1>8, <1>12 DEF z
  <2>2. \A i \in DOMAIN W : Given(i) => W[i].rank # r
      BY <1>7, <1>8, <1>12
  <2>3. Quiet(r) /\ results[r] = None
      BY <1>3, <2>2 DEF VInv, Jobs, Under, W
  <2> QED BY <1>3, <1>6, <2>1, <2>3 DEF Quiet
<1>13. Jobs'
    BY <1>1, <1>3, <1>11, <1>12 DEF Jobs, Under, W
<1>14. ResultsBelongToTask'
    BY <1>1, <1>3 DEF VInv, ResultsBelongToTask
<1> QED BY <1>5, <1>10, <1>13, <1>14 DEF VInv

(* The server sees one acknowledgement.                                    *)
LEMMA AwaitAckInv == VInv /\ AwaitAck => VInv'
<1> SUFFICES ASSUME VInv, AwaitAck PROVE VInv'
    OBVIOUS
<1> DEFINE W == Work
<1>1. Work' = Work
    BY DEF AwaitAck, Work, ComputationWork, PairWork
<1>2. IsWork(W)
    BY WorkFacts DEF VInv
<1>3. /\ spc = "ack" /\ idx \in Nat /\ idx < Len(W) /\ task[W[idx + 1].rank] = ACKED
      /\ UNCHANGED <<control, task, result, episode, clique, step, results, cur, round,
                     rpc, state, device, inbox, fetched>>
      /\ \/ idx + 1 = Len(W) /\ spc' = "collect" /\ idx' = 0
         \/ idx + 1 # Len(W) /\ spc' = "ack" /\ idx' = idx + 1
      /\ \A i \in 1 .. idx : task[W[i].rank] = ACKED
    BY DEF AwaitAck, VInv, Entry, rankVars, redisVars
<1> HIDE DEF W
<1>4. Shape' /\ Position'
    BY <1>3 DEF VInv, Shape, Position
<1>5. \A i \in 1 .. (idx + 1) : task[W[i].rank] = ACKED
    BY <1>3
<1>6. W' = W
    BY <1>1 DEF W
<1>7. Entry'
  <2>1. CASE idx + 1 = Len(W)
    <3>1. \A i \in DOMAIN W : task[W[i].rank] = ACKED
        BY <1>2, <1>5, <2>1 DEF IsWork
    <3> QED BY <1>3, <1>6, <2>1, <3>1 DEF Entry, W
  <2>2. CASE idx + 1 # Len(W)
    <3>1. idx + 1 < Len(W) /\ \A r \in Ranks : results[r] = None
      <4>1. Len(W) \in Nat
          BY <1>2 DEF IsWork
      <4> QED BY <1>3, <2>2, <4>1 DEF VInv, Entry
    <3> QED BY <1>3, <1>5, <1>6, <2>2, <3>1 DEF Entry, W
  <2> QED BY <2>1, <2>2
<1>8. \A i : Given(i)' = Given(i)
    BY <1>3 DEF Given
<1>9. Jobs'
    BY <1>1, <1>3, <1>8 DEF VInv, Jobs, Under, Quiet, Job, Waiting, Working, Answered
<1>10. ResultsBelongToTask'
    BY <1>1, <1>3 DEF VInv, ResultsBelongToTask
<1> QED BY <1>4, <1>7, <1>9, <1>10 DEF VInv

(* The server reads one result.                                            *)
LEMMA CollectGetInv == ASSUME VInv, NEW z \in Ranks, CollectGet(z) PROVE VInv'
<1> DEFINE W == Work
<1>1. Work' = Work
    BY DEF CollectGet, Work, ComputationWork, PairWork
<1>2. IsWork(W)
    BY WorkFacts DEF VInv
<1>3. /\ spc = "collect" /\ result[z] # None /\ spc' = "delete" /\ cur' = z
      /\ results' = [results EXCEPT ![z] = result[z]]
      /\ UNCHANGED <<control, task, result, episode, clique, step, idx, round,
                     rpc, state, device, inbox, fetched>>
    BY DEF CollectGet, rankVars, redisVars
<1>4. PICK k \in DOMAIN W : W[k].rank = z
    BY DEF CollectGet, Involved
<1>5. \A i \in DOMAIN W : Job(W[i].rank, W[i].content)
    BY <1>3 DEF VInv, Jobs, Under, Given
<1>6. \A i \in DOMAIN W : Given(i) /\ Given(i)'
    BY <1>3 DEF Given
<1>7. W' = W
    BY <1>1
<1>8. \A r \in Ranks : results'[r] = IF r = z THEN result[z] ELSE results[r]
    BY <1>3 DEF VInv, Shape
<1>9. \A i \in DOMAIN W : /\ W[i].rank = z => i = k
                          /\ W[i].rank \in Ranks
                          /\ W[i].content.role \in {"comp", "send", "recv"}
                          /\ W[i] = [rank |-> W[i].rank, content |-> W[i].content]
    BY <1>2, <1>4 DEF IsWork
<1> HIDE DEF W
<1>10. results[z] = None /\ Answered(z, W[k].content) /\ W[k].content # None
  <2>1. Job(z, W[k].content)
      BY <1>4, <1>5
  <2>2. W[k].content # None
      BY <1>9 DEF None
  <2> QED BY <1>3, <2>1, <2>2 DEF Job, Waiting, Working, Answered
<1>11. Shape' /\ Position'
    BY <1>3 DEF VInv, Shape, Position
<1>12. Entry'
    BY <1>1, <1>3, <1>8 DEF VInv, Entry
<1>13. ASSUME NEW i \in DOMAIN W PROVE Job(W[i].rank, W[i].content)'
  <2> SUFFICES ASSUME NEW r, NEW d, r = W[i].rank, d = W[i].content
               PROVE  Job(r, d)'
      BY <1>7
  <2>1. CASE r = z
    <3>1. d = W[k].content
        BY <1>9, <2>1
    <3> QED BY <1>3, <1>8, <1>10, <2>1, <3>1 DEF Job, Answered
  <2>2. CASE r # z
    <3>1. Job(r, d) /\ r \in Ranks
        BY <1>5, <1>9
    <3> QED BY <1>3, <1>8, <2>2, <3>1 DEF Job, Waiting, Working, Answered
  <2> QED BY <2>1, <2>2
<1>14. ASSUME NEW r \in Ranks, \A i \in DOMAIN W : Given(i)' => W[i].rank # r
       PROVE  Quiet(r)' /\ results'[r] = None
  <2>1. r # z /\ \A i \in DOMAIN W : Given(i) => W[i].rank # r
      BY <1>4, <1>6, <1>14
  <2>2. Quiet(r) /\ results[r] = None
      BY <1>3, <2>1 DEF VInv, Jobs, Under, W
  <2> QED BY <1>3, <1>8, <2>1, <2>2 DEF Quiet
<1>15. Jobs'
    BY <1>1, <1>3, <1>13, <1>14 DEF Jobs, Under, W
<1>16. ResultsBelongToTask'
  <2> SUFFICES ASSUME NEW r \in Ranks, results'[r] # None
               PROVE  \E i \in DOMAIN W : W[i] = [rank |-> r, content |-> results'[r]]
      BY <1>7 DEF ResultsBelongToTask, W
  <2>1. CASE r = z
    <3>1. W[k] = [rank |-> r, content |-> results'[r]]
        BY <1>4, <1>8, <1>9, <1>10, <2>1 DEF Answered
    <3> QED BY <3>1
  <2>2. CASE r # z
      BY <1>8, <2>2 DEF VInv, ResultsBelongToTask, W
  <2> QED BY <2>1, <2>2
<1> QED BY <1>11, <1>12, <1>15, <1>16 DEF VInv

(* The server deletes the result it read.                                  *)
LEMMA CollectDeleteInv == VInv /\ CollectDelete => VInv'
<1> SUFFICES ASSUME VInv, CollectDelete PROVE VInv'
    OBVIOUS
<1> DEFINE W == Work
<1>1. Work' = Work
    BY DEF CollectDelete, Work, ComputationWork, PairWork
<1>2. IsWork(W)
    BY WorkFacts DEF VInv
<1>3. /\ spc = "delete" /\ spc' = "collect" /\ result' = [result EXCEPT ![cur] = None]
      /\ UNCHANGED <<control, task, episode, clique, step, idx, results, cur, round,
                     rpc, state, device, inbox, fetched>>
      /\ cur \in Ranks /\ results[cur] # None
    BY DEF CollectDelete, rankVars, VInv, Entry
<1>4. \A i \in DOMAIN W : Job(W[i].rank, W[i].content) /\ Given(i) /\ Given(i)'
    BY <1>3 DEF VInv, Jobs, Under, Given
<1>5. W' = W
    BY <1>1
<1> HIDE DEF W
<1>6. \A r \in Ranks : result'[r] = IF r = cur THEN None ELSE result[r]
    BY <1>3 DEF VInv, Shape
<1>7. Shape' /\ Position'
    BY <1>3 DEF VInv, Shape, Position
<1>8. Entry'
    BY <1>1, <1>3 DEF VInv, Entry
<1>9. ASSUME NEW i \in DOMAIN W PROVE Job(W[i].rank, W[i].content)'
  <2> SUFFICES ASSUME NEW r, NEW d, r = W[i].rank, d = W[i].content
               PROVE  Job(r, d)'
      BY <1>5
  <2>1. Job(r, d) /\ r \in Ranks
      BY <1>2, <1>4 DEF IsWork
  <2> QED BY <1>3, <1>6, <2>1 DEF Job, Waiting, Working, Answered
<1>10. ASSUME NEW r \in Ranks, \A i \in DOMAIN W : Given(i)' => W[i].rank # r
       PROVE  Quiet(r)' /\ results'[r] = None
  <2>1. Quiet(r) /\ results[r] = None
      BY <1>3, <1>4, <1>10 DEF VInv, Jobs, Under, W
  <2> QED BY <1>3, <1>6, <2>1 DEF Quiet
<1>11. Jobs'
    BY <1>1, <1>3, <1>9, <1>10 DEF Jobs, Under, W
<1>12. ResultsBelongToTask'
    BY <1>1, <1>3 DEF VInv, ResultsBelongToTask
<1> QED BY <1>7, <1>8, <1>11, <1>12 DEF VInv

-----------------------------------------------------------------------------
(* A step of ranks keeps a quiet rank quiet and a job a job.               *)
Tests == {"comp", "send", "recv"}

(* A step of ranks keeps the invariant if no acknowledgement is lost, a    *)
(* quiet rank stays quiet and a test in progress keeps its job.            *)
LEMMA RankInv ==
    ASSUME VInv, UNCHANGED serverVars, Shape',
           \A r \in Ranks : task[r] = ACKED => task'[r] = ACKED,
           \A r \in Ranks : Quiet(r) => Quiet(r)',
           \A r \in Ranks : \A d : d.role \in Tests /\ Job(r, d) => Job(r, d)'
    PROVE  VInv'
<1> DEFINE W == Work
<1>1. Work' = Work /\ W' = W
    BY DEF serverVars, Work, ComputationWork, PairWork
<1>2. IsWork(W)
    BY WorkFacts DEF VInv
<1>3. \A i \in DOMAIN W : W[i].rank \in Ranks /\ W[i].content.role \in Tests
    BY <1>2 DEF IsWork, Tests
<1>4. Position'
    BY DEF serverVars, VInv, Position
<1> HIDE DEF W
<1>5. Entry'
  <2>1. UNCHANGED <<spc, idx, results, cur>>
      BY DEF serverVars
  <2>2. \A i \in DOMAIN W : task[W[i].rank] = ACKED => task'[W[i].rank] = ACKED
      BY <1>3
  <2>3. ASSUME spc = "ack" PROVE \A i \in 1 .. idx : task'[W[i].rank] = ACKED
    <3>1. idx \in Nat /\ idx < Len(W) /\ \A i \in 1 .. idx : task[W[i].rank] = ACKED
        BY <2>3 DEF VInv, Entry, W
    <3>2. \A i \in 1 .. idx : i \in DOMAIN W
      <4>1. Len(W) \in Nat /\ DOMAIN W = 1 .. Len(W)
          BY <1>2 DEF IsWork
      <4> QED BY <3>1, <4>1
    <3> QED BY <2>2, <3>1, <3>2
  <2>4. ASSUME spc \in {"collect", "delete"}
        PROVE  \A i \in DOMAIN W : task'[W[i].rank] = ACKED
      BY <2>2, <2>4 DEF VInv, Entry, W
  <2> QED BY <1>1, <2>1, <2>3, <2>4 DEF VInv, Entry, W
<1>6. \A i : Given(i)' = Given(i)
    BY DEF serverVars, Given
<1>7. ASSUME NEW i \in DOMAIN W, Given(i), Under PROVE Job(W[i].rank, W[i].content)'
  <2> SUFFICES ASSUME NEW r, NEW d, r = W[i].rank, d = W[i].content
               PROVE  Job(r, d)'
      BY <1>1
  <2>1. Job(r, d)
      BY <1>7 DEF VInv, Jobs, W
  <2> QED BY <1>3, <2>1
<1>8. ASSUME NEW r \in Ranks, Under, \A i \in DOMAIN W : Given(i) => W[i].rank # r
      PROVE  Quiet(r)' /\ results'[r] = None
  <2>1. Quiet(r) /\ results[r] = None
      BY <1>8 DEF VInv, Jobs, W
  <2> QED BY <2>1 DEF serverVars
<1>9. Under' = Under
    BY DEF serverVars, Under
<1>10. ~Under => \A r \in Ranks : Quiet(r)'
    BY DEF VInv, Jobs
<1>11. Jobs'
    BY <1>1, <1>6, <1>7, <1>8, <1>9, <1>10 DEF Jobs, W
<1>12. ResultsBelongToTask'
    BY <1>1 DEF serverVars, VInv, ResultsBelongToTask
<1> QED BY <1>4, <1>5, <1>11, <1>12 DEF VInv

(* A step that goes from one place outside a test to another.              *)
LEMMA IdleStep ==
    ASSUME VInv, NEW z \in Ranks, NEW l, RankGoto(z, l), Shape',
           UNCHANGED <<task, result, spc, episode, clique, step, idx, results, cur, round>>,
           rpc[z] \notin Busy, l \notin Busy,
           \A r \in Ranks : r # z => fetched'[r] = fetched[r]
    PROVE  VInv'
<1>1. \A r \in Ranks : rpc'[r] = IF r = z THEN l ELSE rpc[r]
    BY DEF RankGoto, VInv, Shape
<1>2. \A r \in Ranks : Quiet(r) => Quiet(r)'
    BY <1>1 DEF Quiet, Busy
<1>3. ASSUME NEW r \in Ranks, NEW d, Job(r, d) PROVE Job(r, d)'
  <2>1. Waiting(r, d) => Waiting(r, d)'
      BY <1>1 DEF Waiting, Busy
  <2>2. Working(r, d) => Working(r, d)'
      BY <1>1 DEF Working, Busy
  <2>3. Answered(r, d) => Answered(r, d)'
      BY <1>1 DEF Answered
  <2>4. rpc[r] \notin Busy => rpc'[r] \notin Busy
      BY <1>1
  <2> QED BY <1>3, <2>1, <2>2, <2>3, <2>4 DEF Job
<1>4. UNCHANGED serverVars
    BY DEF serverVars
<1> QED BY <1>2, <1>3, <1>4, RankInv

(* A step of z alone, inside a test: only z's job is to be looked at.      *)
LEMMA TestStep ==
    ASSUME VInv, NEW z \in Ranks, NEW l, RankGoto(z, l), Shape', ~Quiet(z),
           UNCHANGED <<spc, episode, clique, step, idx, results, cur, round>>,
           task[z] = ACKED => task'[z] = ACKED,
           \A r \in Ranks : r # z => /\ fetched'[r] = fetched[r]
                                     /\ task'[r] = task[r] /\ result'[r] = result[r],
           \A d : d.role \in Tests /\ Job(z, d) => Job(z, d)'
    PROVE  VInv'
<1>1. \A r \in Ranks : r # z => rpc'[r] = rpc[r]
    BY DEF RankGoto, VInv, Shape
<1>2. \A r \in Ranks : Quiet(r) => Quiet(r)'
    BY <1>1 DEF Quiet
<1>3. ASSUME NEW r \in Ranks, NEW d, d.role \in Tests, Job(r, d) PROVE Job(r, d)'
  <2>1. CASE r # z
      BY <1>1, <1>3, <2>1 DEF Job, Waiting, Working, Answered
  <2> QED BY <1>3, <2>1
<1>4. UNCHANGED serverVars
    BY DEF serverVars
<1>5. \A r \in Ranks : task[r] = ACKED => task'[r] = ACKED
    OBVIOUS
<1> QED BY <1>2, <1>3, <1>4, <1>5, RankInv

(* A step of one rank.                                                     *)
LEMMA RankStepInv == ASSUME VInv, NEW z \in Ranks, RankStep(z) PROVE VInv'
<1>0. Shape
    BY DEF VInv
<1> DEFINE Same == UNCHANGED <<spc, episode, clique, step, idx, results, cur, round>>
<1>1. CASE CheckSignal(z)
  <2>1. Shape'
      BY <1>0, <1>1 DEF CheckSignal, RankGoto, Shape, redisVars, serverVars
  <2> QED BY <1>1, <2>1, IdleStep DEF CheckSignal, redisVars, serverVars, Busy
<1>2. ASSUME NEW v \in Values, SyncState(z, v) PROVE VInv'
  <2> DEFINE l == IF v = STATE_VALIDATE THEN "fetch" ELSE "train"
  <2>1. Shape'
      BY <1>0, <1>2 DEF SyncState, RankGoto, Shape, redisVars, serverVars
  <2>2. RankGoto(z, l) /\ l \notin Busy /\ rpc[z] \notin Busy
      BY <1>2 DEF SyncState, Busy
  <2> HIDE DEF l
  <2> QED BY <1>2, <2>1, <2>2, IdleStep DEF SyncState, redisVars, serverVars
<1>3. ASSUME NEW v \in Values, SyncPause(z, v) PROVE VInv'
  <2> DEFINE l == IF v = 0 THEN "train" ELSE "fetch"
  <2>1. Shape'
      BY <1>0, <1>3 DEF SyncPause, RankGoto, Shape, redisVars, serverVars
  <2>2. RankGoto(z, l) /\ l \notin Busy /\ rpc[z] \notin Busy
      BY <1>3 DEF SyncPause, Busy
  <2> HIDE DEF l
  <2> QED BY <1>3, <2>1, <2>2, IdleStep DEF SyncPause, redisVars, serverVars
<1>4. CASE PollPause(z)
  <2>1. Shape'
      BY <1>0, <1>4 DEF PollPause, RankGoto, Shape, redisVars, serverVars
  <2> QED BY <1>4, <2>1, IdleStep DEF PollPause, redisVars, serverVars, Busy
<1>5. CASE FetchTask(z)
  <2>1. Shape'
      BY <1>0, <1>5 DEF FetchTask, RankGoto, Shape, redisVars, serverVars
  <2>2. /\ Same /\ UNCHANGED <<task, result>> /\ rpc[z] = "fetch"
        /\ \A r \in Ranks : fetched'[r] = IF r = z THEN task[z] ELSE fetched[r]
      BY <1>0, <1>5 DEF FetchTask, redisVars, serverVars, Shape
  <2>3. CASE task[z] \in {None, ACKED}
    <3>1. RankGoto(z, "poll")
        BY <1>5, <2>3 DEF FetchTask
    <3> QED BY <2>1, <2>2, <3>1, IdleStep DEF Busy
  <2>4. CASE task[z] \notin {None, ACKED}
    <3>1. RankGoto(z, "ack")
        BY <1>5, <2>4 DEF FetchTask
    <3>2. rpc'[z] = "ack"
        BY <1>0, <3>1 DEF RankGoto, Shape
    <3>3. ASSUME NEW d, Job(z, d) PROVE Job(z, d)'
      <4>1. results[z] = None /\ Waiting(z, d)
          BY <2>4, <3>3 DEF Job, Working, Answered
      <4>2. Waiting(z, d)'
          BY <2>2, <3>2, <4>1 DEF Waiting
      <4> QED BY <2>2, <4>1, <4>2 DEF Job
    <3>4. ~Quiet(z)
        BY <2>4 DEF Quiet, IsTask
    <3> QED BY <2>1, <2>2, <3>1, <3>3, <3>4, TestStep
  <2> QED BY <2>3, <2>4
<1>6. CASE AckTask(z)
  <2> DEFINE l == IF fetched[z].role = "comp" THEN "reply" ELSE "p2p"
  <2>1. Shape'
      BY <1>0, <1>6 DEF AckTask, RankGoto, Shape, serverVars
  <2>2. /\ Same /\ UNCHANGED <<result, fetched>> /\ rpc[z] = "ack" /\ RankGoto(z, l)
        /\ \A r \in Ranks : task'[r] = IF r = z THEN ACKED ELSE task[r]
        /\ rpc'[z] = l
      BY <1>0, <1>6 DEF AckTask, RankGoto, serverVars, Shape
  <2>3. ASSUME NEW d, Job(z, d) PROVE Job(z, d)'
    <3>1. results[z] = None /\ Waiting(z, d)
        BY <2>2, <2>3 DEF Job, Working, Answered, Busy
    <3>2. Working(z, d)'
        BY <2>2, <3>1 DEF Waiting, Working
    <3> QED BY <2>2, <3>1, <3>2 DEF Job
  <2>4. ~Quiet(z)
      BY <2>2 DEF Quiet, Busy
  <2> HIDE DEF l
  <2> QED BY <2>1, <2>2, <2>3, <2>4, TestStep
<1>7. CASE ReplyResult(z)
  <2>1. Shape'
      BY <1>0, <1>7 DEF ReplyResult, RankGoto, Shape, serverVars
  <2>2. /\ Same /\ UNCHANGED <<task, fetched>> /\ rpc[z] = "reply" /\ RankGoto(z, "poll")
        /\ \A r \in Ranks : result'[r] = IF r = z THEN fetched[z] ELSE result[r]
        /\ rpc'[z] = "poll"
      BY <1>0, <1>7 DEF ReplyResult, RankGoto, serverVars, Shape
  <2>3. ASSUME NEW d, Job(z, d) PROVE Job(z, d)'
    <3>1. results[z] = None /\ Working(z, d)
        BY <2>2, <2>3 DEF Job, Waiting, Answered, Busy
    <3>2. Answered(z, d)'
        BY <2>2, <3>1 DEF Answered, Working, Busy
    <3> QED BY <2>2, <3>1, <3>2 DEF Job
  <2>4. ~Quiet(z)
      BY <2>2 DEF Quiet, Busy
  <2> QED BY <2>1, <2>2, <2>3, <2>4, TestStep
<1> QED BY <1>1, <1>2, <1>3, <1>4, <1>5, <1>6, <1>7 DEF RankStep

(* The two ranks of a pair exchange their data.                            *)
LEMMA SendRecvInv ==
    ASSUME VInv, NEW s \in Ranks, NEW y \in Ranks, SendRecv(s, y) PROVE VInv'
<1>1. /\ UNCHANGED <<task, result, fetched, serverVars>>
      /\ rpc[s] = "p2p" /\ rpc[y] = "p2p"
      /\ \A r \in Ranks : rpc'[r] = IF r = s \/ r = y THEN "reply" ELSE rpc[r]
      /\ Shape'
    BY DEF SendRecv, redisVars, serverVars, VInv, Shape
<1>2. \A r \in Ranks : Quiet(r) => Quiet(r)'
    BY <1>1 DEF Quiet, Busy
<1>3. ASSUME NEW r \in Ranks, NEW d, Job(r, d) PROVE Job(r, d)'
  <2>1. UNCHANGED <<spc, results, cur>>
      BY <1>1 DEF serverVars
  <2>2. Waiting(r, d) => Waiting(r, d)'
      BY <1>1 DEF Waiting
  <2>3. Working(r, d) => Working(r, d)'
      BY <1>1 DEF Working
  <2>4. Answered(r, d) => Answered(r, d)'
      BY <1>1 DEF Answered, Busy
  <2>5. rpc[r] \notin Busy => rpc'[r] \notin Busy
      BY <1>1 DEF Busy
  <2> QED BY <1>1, <1>3, <2>1, <2>2, <2>3, <2>4, <2>5 DEF Job
<1>4. \A r \in Ranks : task[r] = ACKED => task'[r] = ACKED
    BY <1>1
<1> QED BY <1>1, <1>2, <1>3, <1>4, RankInv

(* The job of every rank is where the server believes it to be: the        *)
(* invariant from which the properties of an episode follow.               *)
THEOREM VInvInductive == Spec => []VInv
<1>1. VInv /\ [Next]_vars => VInv'
  <2> SUFFICES ASSUME VInv, [Next]_vars PROVE VInv'
      OBVIOUS
  <2>1. CASE Server
      BY <2>1, SetProfilingInv, PauseTrainingInv, SetTaskInv, AwaitAckInv, CollectGetInv,
         CollectDeleteInv, NextTaskInv, SetMonitoringInv DEF Server
  <2>2. CASE \E r \in Ranks : RankStep(r)
      BY <2>2, RankStepInv
  <2>3. CASE \E s, r \in Ranks : SendRecv(s, r)
      BY <2>3, SendRecvInv
  <2>4. CASE UNCHANGED vars
    <3>1. UNCHANGED serverVars /\ UNCHANGED <<task, result, rpc, fetched>>
        BY <2>4 DEF vars, redisVars, rankVars, serverVars
    <3>2. Shape'
        BY <3>1 DEF VInv, Shape, serverVars
    <3>3. /\ \A r \in Ranks : task[r] = ACKED => task'[r] = ACKED
          /\ \A r \in Ranks : Quiet(r) => Quiet(r)'
          /\ \A r \in Ranks : \A d : d.role \in Tests /\ Job(r, d) => Job(r, d)'
        BY <3>1 DEF serverVars, Quiet, Job, Waiting, Working, Answered
    <3> QED BY <3>1, <3>2, <3>3, RankInv
  <2> QED BY <2>1, <2>2, <2>3, <2>4 DEF Next
<1> QED BY <1>1, VInitInv, PTL DEF Spec

(* collect_comm_task_results() and validate_computation(): what the server *)
(* files under a rank is the result of the task it gave that rank in this  *)
(* round.                                                                  *)
THEOREM ResultsRight == Spec => []ResultsBelongToTask
<1>1. VInv => ResultsBelongToTask
    BY DEF VInv
<1> QED BY <1>1, VInvInductive, PTL

(* Where the job of a rank that is inside a test stands.                   *)
LEMMA InTest ==
    ASSUME VInv, NEW r \in Ranks, ~Quiet(r)
    PROVE  /\ Under
           /\ \E i \in DOMAIN Work : Work[i].rank = r /\ Job(r, Work[i].content)
<1>1. Under
    BY DEF VInv, Jobs
<1>2. PICK i \in DOMAIN Work : Given(i) /\ Work[i].rank = r
    BY <1>1 DEF VInv, Jobs
<1> QED BY <1>1, <1>2 DEF VInv, Jobs

(* fetech_and_exec_task(): the TASK_ACKED of a rank never erases a task it *)
(* has not read.                                                           *)
THEOREM AckSafe == Spec => []AckErasesNothing
<1>1. VInv => AckErasesNothing
  <2> SUFFICES ASSUME VInv, NEW r \in Ranks, rpc[r] = "ack" PROVE task[r] = fetched[r]
      BY DEF AckErasesNothing
  <2>1. PICK i \in DOMAIN Work : Job(r, Work[i].content)
      BY InTest DEF Quiet, Busy
  <2> QED BY <2>1 DEF Job, Waiting, Working, Answered, Busy
<1> QED BY <1>1, VInvInductive, PTL

(* set_monitoring() comes when no task, no result and no rank in a test is *)
(* left.                                                                   *)
THEOREM ResumeClean == Spec => []NothingLeftAtResume
<1>1. VInv => NothingLeftAtResume
    BY DEF VInv, Jobs, Under, Quiet, Busy, NothingLeftAtResume
<1> QED BY <1>1, VInvInductive, PTL

(* p2p_profile_task(): two ranks of a pair that are both in a send/recv    *)
(* are in the same one.                                                    *)
THEOREM PairsRight == Spec => []PairsMatch
<1>1. VInv => PairsMatch
  <2> SUFFICES ASSUME VInv, NEW s \in Ranks, NEW r \in Ranks,
                      rpc[s] = "p2p", rpc[r] = "p2p", fetched[s].peer = r
               PROVE  Matches(s, r) \/ Matches(r, s)
      BY DEF PairsMatch
  <2>1. PICK i \in DOMAIN Work : Work[i].rank = s /\ Job(s, Work[i].content)
      BY InTest DEF Quiet, Busy
  <2>2. PICK j \in DOMAIN Work : Work[j].rank = r /\ Job(r, Work[j].content)
      BY InTest DEF Quiet, Busy
  <2>3. /\ fetched[s] = Work[i].content /\ fetched[r] = Work[j].content
        /\ Work[i].content.role # "comp"
      BY <2>1, <2>2 DEF Job, Waiting, Working, Answered, Busy
  <2>4. IsWork(Work)
      BY WorkFacts DEF VInv
  <2> DEFINE W == Work
  <2> HIDE DEF W
  <2>5. PICK k \in DOMAIN W : Partners(W[i], W[k])
      BY <2>3, <2>4 DEF IsWork, W
  <2>6. k = j
      BY <2>1, <2>2, <2>3, <2>4, <2>5 DEF IsWork, Partners, W
  <2> QED BY <2>1, <2>2, <2>3, <2>5, <2>6 DEF Partners, Matches, W
<1> QED BY <1>1, VInvInductive, PTL

(* dispatch_comm_task() never overwrites a task that its rank has not      *)
(* taken.                                                                  *)
THEOREM TasksTaken == Spec => NoTaskOverwritten
<1>1. VInv /\ [Next]_vars =>
         [\A r \in Ranks : IsTask(task[r]) /\ task'[r] # task[r] => task'[r] = ACKED]_vars
  <2> SUFFICES ASSUME VInv, Next, NEW r \in Ranks, IsTask(task[r]), task'[r] # task[r]
               PROVE  task'[r] = ACKED
      BY DEF vars
  <2>1. CASE SetTask
    <3>1. spc = "set" /\ idx < Len(Work) /\ idx \in Nat
          /\ task' = [task EXCEPT ![Work[idx + 1].rank] = Work[idx + 1].content]
        BY <2>1 DEF SetTask, VInv, Entry
    <3>2. r = Work[idx + 1].rank
        BY <3>1 DEF VInv, Shape
    <3>3. PICK i \in DOMAIN Work : Given(i) /\ Work[i].rank = r
        BY <3>1 DEF VInv, Jobs, Under, Quiet
    <3>4. IsWork(Work)
        BY WorkFacts DEF VInv
    <3> DEFINE W == Work
    <3> HIDE DEF W
    <3>5. Len(W) \in Nat /\ DOMAIN W = 1 .. Len(W)
        BY <3>4 DEF IsWork, W
    <3>6. idx + 1 \in DOMAIN W /\ i \in Nat /\ i # idx + 1
        BY <3>1, <3>3, <3>5 DEF Given, W
    <3> QED BY <3>2, <3>3, <3>4, <3>6 DEF IsWork, W
  <2>2. CASE \E z \in Ranks : AckTask(z)
      BY <2>2 DEF AckTask, VInv, Shape
  <2>3. CASE ~SetTask /\ ~ \E z \in Ranks : AckTask(z)
    <3>1. UNCHANGED task
        BY <2>3 DEF Next, Server, RankStep, SetProfiling, PauseTraining, AwaitAck, CollectGet,
             CollectDelete, NextTask, SetMonitoring, CheckSignal, SyncState, SyncPause,
             FetchTask, ReplyResult, PollPause, SendRecv, redisVars
    <3> QED BY <3>1
  <2> QED BY <2>1, <2>2, <2>3
<1> QED BY <1>1, VInvInductive, PTL DEF Spec, NoTaskOverwritten
=============================================================================
