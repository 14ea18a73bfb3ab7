--------------------------- MODULE NcclProbeProofs ---------------------------
(***************************************************************************)
(* Proofs about NcclProbe, for every set of communicators, any number of   *)
(* calls and any depth of groups: the invariants of its records, and that  *)
(* it implements CallLog.                                                  *)
(***************************************************************************)
EXTENDS NcclProbe, Integers, NaturalsInduction, WellFoundedInduction,
        SequenceTheorems, TLAPS

-----------------------------------------------------------------------------
(* The calls of records.                                                   *)

Rec == [op : Ops, calls : Seq(Nat), comm : Comms \cup {NoComm},
        sizeOf : Comms \cup {NoComm}, dur : SUBSET (Nat \X Nat), from : Nat]

(* A list of records, and the calls of each.                               *)
LEMMA RecCalls ==
    ASSUME NEW q \in Seq(Rec)
    PROVE  /\ Len(q) \in Nat /\ DOMAIN q = 1 .. Len(q)
           /\ \A i \in 1 .. Len(q) : q[i] \in Rec /\ q[i].calls \in Seq(Nat)
<1>1. Len(q) \in Nat /\ DOMAIN q = 1 .. Len(q) /\ \A i \in 1 .. Len(q) : q[i] \in Rec
    OBVIOUS
<1> QED BY <1>1 DEF Rec

(* A set of natural numbers that is not empty has a least element.         *)
LEMMA LeastElement ==
    ASSUME NEW S \in SUBSET Nat, S # {}
    PROVE  \E x \in S : \A y \in S : x <= y
<1> DEFINE R == {ss \in Nat \X Nat : ss[1] < ss[2]}
<1>1. IsWellFoundedOn(R, Nat)
    BY NatLessThanWellFounded, Zenon DEF OpToRel
<1> HIDE DEF R
<1>2. PICK x \in S : \A y \in S : ~(<<y, x>> \in R)
    BY <1>1, WFMin
<1>3. ASSUME NEW y \in S PROVE x <= y
  <2>1. x \in Nat /\ y \in Nat
      OBVIOUS
  <2>2. <<y, x>> \in R <=> y < x
    <3> DEFINE p == <<y, x>>
    <3>1. p \in Nat \X Nat /\ p[1] = y /\ p[2] = x
        BY <2>1
    <3>2. p \in R <=> p[1] < p[2]
        BY <3>1, Zenon DEF R
    <3> QED BY <3>1, <3>2
  <2> QED BY <1>2, <2>1, <2>2
<1> QED BY <1>3

(* Induction up to n, as the least exception.                              *)
LEMMA NoException ==
    ASSUME NEW n \in Nat, NEW Good \in SUBSET (0 .. n), 0 \in Good,
           \A i \in 1 .. n : i - 1 \in Good => i \in Good
    PROVE  \A i \in 0 .. n : i \in Good
<1> DEFINE Bad == {i \in 0 .. n : i \notin Good}
<1> SUFFICES ASSUME Bad # {} PROVE FALSE
    OBVIOUS
<1>1. Bad \in SUBSET Nat
    OBVIOUS
<1> HIDE DEF Bad
<1>2. PICK i \in Bad : \A k \in Bad : i <= k
    BY <1>1, LeastElement
<1>3. i \in 0 .. n /\ i \notin Good
    BY <1>2 DEF Bad
<1>4. i # 0 /\ i \in 1 .. n /\ i - 1 \in 0 .. n /\ ~ (i <= i - 1)
    BY <1>3
<1>5. i - 1 \notin Bad
    BY <1>2, <1>4
<1>6. i - 1 \in Good
    BY <1>4, <1>5 DEF Bad
<1> QED BY <1>3, <1>4, <1>6

(* The function CallsOf is made of, up to record n.                        *)
Unrolled(f, q, n) ==
    f = [i \in 0 .. n |-> IF i = 0 THEN <<>> ELSE f[i - 1] \o q[i].calls]

(* Its values, one after the other.                                        *)
LEMMA UnrolledIs ==
    ASSUME NEW q, NEW n \in Nat, NEW f, Unrolled(f, q, n)
    PROVE  /\ DOMAIN f = 0 .. n /\ f[0] = <<>>
           /\ \A i \in 1 .. n : f[i] = f[i - 1] \o q[i].calls
<1>1. f = [i \in 0 .. n |-> IF i = 0 THEN <<>> ELSE f[i - 1] \o q[i].calls]
    BY DEF Unrolled
<1>2. DOMAIN f = 0 .. n
    BY <1>1
<1>3. \A i \in 0 .. n : f[i] = IF i = 0 THEN <<>> ELSE f[i - 1] \o q[i].calls
    BY <1>1
<1>4. 0 \in 0 .. n /\ \A i \in 1 .. n : i \in 0 .. n /\ i # 0
    OBVIOUS
<1> QED BY <1>2, <1>3, <1>4

(* The recursive function CallsOf chooses exists for every list.           *)
LEMMA UnrolledExists ==
    ASSUME NEW q \in Seq(Rec)
    PROVE  \E f : Unrolled(f, q, Len(q))
<1> DEFINE N == Len(q)
           Good == {n \in 0 .. N : \E f : Unrolled(f, q, n)}
<1>1. N \in Nat
    BY RecCalls
<1> HIDE DEF N
<1>2. 0 \in Good
  <2> DEFINE f == [i \in 0 .. 0 |-> <<>>]
  <2>1. f = [i \in 0 .. 0 |-> IF i = 0 THEN <<>> ELSE f[i - 1] \o q[i].calls]
      OBVIOUS
  <2>2. Unrolled(f, q, 0)
      BY <2>1 DEF Unrolled
  <2> QED BY <1>1, <2>2
<1>3. ASSUME NEW n \in 1 .. N, n - 1 \in Good PROVE n \in Good
  <2>1. PICK f : Unrolled(f, q, n - 1)
      BY <1>3
  <2>2. n - 1 \in Nat /\ n \in 0 .. N /\ n \in Nat \ {0}
      BY <1>1
  <2>3. /\ DOMAIN f = 0 .. (n - 1) /\ f[0] = <<>>
        /\ \A i \in 1 .. (n - 1) : f[i] = f[i - 1] \o q[i].calls
    <3> DEFINE k == n - 1
    <3>1. k \in Nat /\ Unrolled(f, q, k)
        BY <2>1, <2>2
    <3> HIDE DEF k
    <3>2. /\ DOMAIN f = 0 .. k /\ f[0] = <<>>
          /\ \A i \in 1 .. k : f[i] = f[i - 1] \o q[i].calls
        BY <3>1, UnrolledIs
    <3> QED BY <3>2 DEF k
  <2> DEFINE g == [i \in 0 .. n |-> IF i = n THEN f[n - 1] \o q[n].calls ELSE f[i]]
  <2>4. /\ DOMAIN g = 0 .. n /\ g = [i \in 0 .. n |-> g[i]]
        /\ \A i \in 0 .. n : g[i] = IF i = n THEN f[n - 1] \o q[n].calls ELSE f[i]
      OBVIOUS
  <2> HIDE DEF g
  <2>5. \A i \in 0 .. n : i = 0 \/ i = n \/ (i \in 1 .. (n - 1))
      BY <2>2
  <2>6. \A i \in 1 .. n : i - 1 \in 0 .. n /\ i - 1 # n
      BY <2>2
  <2>7. 0 \in 0 .. n /\ 0 # n /\ \A i \in 1 .. (n - 1) : i \in 1 .. n /\ i \in 0 .. n /\ i # n /\ i # 0
      BY <2>2
  <2>8. g[0] = <<>>
      BY <2>3, <2>4, <2>7
  <2>9. n \in 1 .. n /\ n \in 0 .. n
      BY <2>2
  <2>10. g[n] = g[n - 1] \o q[n].calls
      BY <2>4, <2>6, <2>9
  <2>11. \A i \in 1 .. (n - 1) : g[i] = g[i - 1] \o q[i].calls
      BY <2>3, <2>4, <2>6, <2>7
  <2>12. \A i \in 0 .. n : g[i] = IF i = 0 THEN <<>> ELSE g[i - 1] \o q[i].calls
      BY <2>5, <2>7, <2>8, <2>10, <2>11, <2>2
  <2>13. Unrolled(g, q, n)
      BY <2>4, <2>12 DEF Unrolled
  <2> QED BY <2>2, <2>13
<1>4. Good \in SUBSET (0 .. N)
    OBVIOUS
<1> HIDE DEF Good
<1>5. N \in Good
    BY <1>1, <1>2, <1>3, <1>4, NoException, SMTT(30)
<1> QED BY <1>5 DEF Good, N

(* Two lists that begin with the same calls.                               *)
SameCalls(q, s, n) == \A i \in 1 .. n : q[i].calls = s[i].calls

(* Where two lists begin with the same calls, so do their functions.       *)
LEMMA UnrolledSame ==
    ASSUME NEW q, NEW s, NEW m \in Nat, NEW n \in 0 .. m, SameCalls(q, s, n),
           NEW f, Unrolled(f, q, n), NEW g, Unrolled(g, s, m)
    PROVE  \A i \in 0 .. n : f[i] = g[i]
<1> DEFINE Good == {i \in 0 .. n : f[i] = g[i]}
<1>a. n \in Nat
    OBVIOUS
<1>1. f[0] = <<>> /\ \A i \in 1 .. n : f[i] = f[i - 1] \o q[i].calls
    BY <1>a, UnrolledIs
<1>2. g[0] = <<>> /\ \A i \in 1 .. m : g[i] = g[i - 1] \o s[i].calls
    BY UnrolledIs
<1>3. 0 \in Good
    BY <1>1, <1>2
<1>4. \A i \in 1 .. n : i \in 1 .. m /\ i \in 0 .. n /\ i - 1 \in 0 .. n
    OBVIOUS
<1>5. ASSUME NEW i \in 1 .. n, i - 1 \in Good PROVE i \in Good
  <2>1. f[i] = f[i - 1] \o q[i].calls /\ g[i] = g[i - 1] \o s[i].calls /\ f[i - 1] = g[i - 1]
      BY <1>1, <1>2, <1>4, <1>5
  <2>2. f[i] = g[i]
      BY <2>1 DEF SameCalls
  <2> QED BY <1>4, <2>2
<1>6. Good \in SUBSET (0 .. n)
    OBVIOUS
<1> HIDE DEF Good
<1>7. \A i \in 0 .. n : i \in Good
    BY <1>3, <1>5, <1>6, NoException
<1> QED BY <1>7 DEF Good

(* CallsOf is the last value of such a function.                           *)
LEMMA CallsUnrolled ==
    ASSUME NEW q \in Seq(Rec)
    PROVE  \E f : Unrolled(f, q, Len(q)) /\ CallsOf(q) = f[Len(q)]
<1> DEFINE f == CHOOSE h : Unrolled(h, q, Len(q))
<1>1. Unrolled(f, q, Len(q))
    BY UnrolledExists
<1>2. CallsOf(q) = f[Len(q)]
    BY DEF CallsOf, Unrolled
<1> QED BY <1>1, <1>2

(* Every partial list is a list of calls.                                  *)
LEMMA UnrolledTyped ==
    ASSUME NEW q \in Seq(Rec), NEW f, Unrolled(f, q, Len(q))
    PROVE  \A i \in 0 .. Len(q) : f[i] \in Seq(Nat)
<1> DEFINE N == Len(q)
           Good == {i \in 0 .. N : f[i] \in Seq(Nat)}
<1>1. N \in Nat /\ \A i \in 1 .. N : q[i].calls \in Seq(Nat)
    BY RecCalls
<1>2. f[0] = <<>> /\ \A i \in 1 .. N : f[i] = f[i - 1] \o q[i].calls
    BY <1>1, UnrolledIs
<1> HIDE DEF N
<1>3. 0 \in Good
  <2>1. <<>> \in Seq(Nat)
      OBVIOUS
  <2>2. 0 \in 0 .. N
      BY <1>1
  <2> QED BY <1>2, <2>1, <2>2
<1>4. ASSUME NEW i \in 1 .. N, i - 1 \in Good PROVE i \in Good
  <2>1. f[i - 1] \in Seq(Nat) /\ q[i].calls \in Seq(Nat) /\ f[i] = f[i - 1] \o q[i].calls
      BY <1>1, <1>2, <1>4
  <2>2. f[i] \in Seq(Nat)
      BY <2>1, ConcatProperties
  <2> QED BY <1>1, <2>2
<1>5. Good \in SUBSET (0 .. N)
    OBVIOUS
<1> HIDE DEF Good
<1>6. \A i \in 0 .. N : i \in Good
    BY <1>1, <1>3, <1>4, <1>5, NoException
<1> QED BY <1>6 DEF Good, N

(* The calls of records are a list of numbers.                             *)
LEMMA CallsTyped == ASSUME NEW q \in Seq(Rec) PROVE CallsOf(q) \in Seq(Nat)
<1>1. PICK f : Unrolled(f, q, Len(q)) /\ CallsOf(q) = f[Len(q)]
    BY CallsUnrolled
<1>2. Len(q) \in 0 .. Len(q)
    BY RecCalls
<1> QED BY <1>1, <1>2, UnrolledTyped

(* No records, no calls.                                                   *)
LEMMA CallsEmpty == CallsOf(<<>>) = <<>>
<1>1. <<>> \in Seq(Rec) /\ Len(<<>>) = 0
    OBVIOUS
<1>2. PICK f : Unrolled(f, <<>>, 0) /\ CallsOf(<<>>) = f[0]
    BY <1>1, CallsUnrolled
<1> QED BY <1>2, UnrolledIs

(* Records with the same calls.                                            *)
LEMMA CallsSame ==
    ASSUME NEW q \in Seq(Rec), NEW s \in Seq(Rec), Len(q) = Len(s),
           \A i \in 1 .. Len(q) : q[i].calls = s[i].calls
    PROVE  CallsOf(q) = CallsOf(s)
<1> DEFINE n == Len(q)
<1>1. n \in Nat /\ n \in 0 .. n /\ n <= n
    BY RecCalls
<1>2. PICK f : Unrolled(f, q, n) /\ CallsOf(q) = f[n]
    BY CallsUnrolled
<1>3. PICK g : Unrolled(g, s, n) /\ CallsOf(s) = g[n]
    BY CallsUnrolled
<1>4. SameCalls(q, s, n)
    BY DEF SameCalls
<1> HIDE DEF n
<1>5. \A i \in 0 .. n : f[i] = g[i]
    BY <1>1, <1>2, <1>3, <1>4, UnrolledSame
<1> QED BY <1>1, <1>2, <1>3, <1>5

(* One list of records after another.                                      *)
LEMMA CallsConcat ==
    ASSUME NEW q \in Seq(Rec), NEW s \in Seq(Rec)
    PROVE  CallsOf(q \o s) = CallsOf(q) \o CallsOf(s)
<1> DEFINE n == Len(q)
           m == Len(s)
           b == q \o s
<1>1. n \in Nat /\ m \in Nat /\ \A i \in 1 .. m : s[i].calls \in Seq(Nat)
    BY RecCalls
<1>2. /\ b \in Seq(Rec) /\ Len(b) = n + m
      /\ \A i \in 1 .. (n + m) : b[i] = IF i <= n THEN q[i] ELSE s[i - n]
    BY ConcatProperties
<1>3. PICK f : Unrolled(f, q, n) /\ CallsOf(q) = f[n]
    BY CallsUnrolled
<1>4. PICK g : Unrolled(g, s, m) /\ CallsOf(s) = g[m]
    BY CallsUnrolled
<1>5. PICK h : Unrolled(h, b, n + m) /\ CallsOf(b) = h[n + m]
  <2> HIDE DEF b, n, m
  <2> QED BY <1>2, CallsUnrolled
<1>6. \A i \in 0 .. m : g[i] \in Seq(Nat)
    BY <1>4, UnrolledTyped
<1>7. CallsOf(q) \in Seq(Nat)
    BY CallsTyped
<1> HIDE DEF n, m, b
<1>8. \A i \in 0 .. n : f[i] = h[i]
  <2>1. \A i \in 1 .. n : i \in 1 .. (n + m) /\ i <= n
      BY <1>1
  <2>2. SameCalls(q, b, n)
      BY <1>2, <2>1 DEF SameCalls
  <2> DEFINE k == n + m
  <2>3. k \in Nat /\ n <= k /\ Unrolled(h, b, k)
      BY <1>1, <1>5
  <2> HIDE DEF k
  <2>4. Unrolled(f, q, n) /\ n \in Nat
      BY <1>1, <1>3
  <2>5. n \in 0 .. k /\ k \in Nat
      BY <1>1, <2>3
  <2>6. Unrolled(h, b, k)
      BY <2>3
  <2> QED BY <2>2, <2>4, <2>5, <2>6, UnrolledSame
<1>9. g[0] = <<>> /\ \A i \in 1 .. m : g[i] = g[i - 1] \o s[i].calls
    BY <1>1, <1>4, UnrolledIs
<1>10. \A i \in 1 .. (n + m) : h[i] = h[i - 1] \o b[i].calls
  <2> DEFINE k == n + m
  <2>1. k \in Nat /\ Unrolled(h, b, k)
      BY <1>1, <1>5
  <2> HIDE DEF k
  <2>2. \A i \in 1 .. k : h[i] = h[i - 1] \o b[i].calls
      BY <2>1, UnrolledIs
  <2> QED BY <2>2 DEF k
<1> DEFINE c == CallsOf(q)
           Good == {i \in 0 .. m : h[n + i] = c \o g[i]}
<1>11. 0 \in Good
  <2>1. n + 0 = n /\ n \in 0 .. n /\ 0 \in 0 .. m
      BY <1>1
  <2>2. h[n] = c
      BY <1>3, <1>8, <2>1
  <2>3. c \o <<>> = c
      BY <1>7, ConcatEmptySeq
  <2> HIDE DEF c
  <2> QED BY <1>9, <2>1, <2>2, <2>3
<1>12. ASSUME NEW i \in 1 .. m, i - 1 \in Good PROVE i \in Good
  <2>1. /\ i \in 0 .. m /\ i - 1 \in 0 .. m /\ n + i \in 1 .. (n + m) /\ ~ (n + i <= n)
        /\ (n + i) - n = i /\ (n + i) - 1 = n + (i - 1)
      BY <1>1
  <2>2. h[n + (i - 1)] = c \o g[i - 1]
      BY <1>12
  <2>3. h[n + i] = h[n + (i - 1)] \o b[n + i].calls
      BY <1>10, <2>1
  <2>4. b[n + i] = s[i]
      BY <1>2, <2>1
  <2>5. c \in Seq(Nat) /\ g[i - 1] \in Seq(Nat) /\ s[i].calls \in Seq(Nat)
      BY <1>1, <1>6, <1>7, <2>1
  <2> HIDE DEF c
  <2>6. (c \o g[i - 1]) \o s[i].calls = c \o (g[i - 1] \o s[i].calls)
    <3> DEFINE x == g[i - 1]
               y == s[i].calls
    <3>1. c \in Seq(Nat) /\ x \in Seq(Nat) /\ y \in Seq(Nat)
        BY <2>5
    <3> HIDE DEF x, y
    <3>2. (c \o x) \o y = c \o (x \o y)
        BY <3>1, SMTT(30)
    <3> QED BY <3>2 DEF x, y
  <2>7. h[n + i] = c \o g[i]
      BY <1>9, <2>2, <2>3, <2>4, <2>6
  <2> QED BY <2>1, <2>7
<1>13. Good \in SUBSET (0 .. m)
    OBVIOUS
<1> HIDE DEF Good
<1>14. m \in Good
  <2>1. \A i \in 0 .. m : i \in Good
      BY <1>1, <1>11, <1>12, <1>13, NoException
  <2>2. m \in 0 .. m
      BY <1>1
  <2> QED BY <2>1, <2>2
<1>15. h[n + m] = c \o g[m]
    BY <1>14 DEF Good
<1> QED BY <1>4, <1>5, <1>15 DEF b

(* One record.                                                             *)
LEMMA CallsOne == ASSUME NEW r \in Rec PROVE CallsOf(<<r>>) = r.calls
<1>1. <<r>> \in Seq(Rec) /\ Len(<<r>>) = 1 /\ <<r>>[1] = r /\ r.calls \in Seq(Nat)
    BY DEF Rec
<1>2. PICK f : Unrolled(f, <<r>>, 1) /\ CallsOf(<<r>>) = f[1]
    BY <1>1, CallsUnrolled
<1>3. f[0] = <<>> /\ f[1] = f[0] \o r.calls
  <2> DEFINE q == <<r>>
  <2>1. 1 - 1 = 0 /\ 1 \in 1 .. 1 /\ 1 \in Nat
      OBVIOUS
  <2>2. Unrolled(f, q, 1) /\ q[1] = r
      BY <1>1, <1>2
  <2> HIDE DEF q
  <2>3. f[0] = <<>> /\ \A i \in 1 .. 1 : f[i] = f[i - 1] \o q[i].calls
      BY <2>1, <2>2, UnrolledIs, ZenonT(30)
  <2> QED BY <2>1, <2>2, <2>3
<1> QED BY <1>1, <1>2, <1>3, ConcatEmptySeq

(* A call of the list is the call of a record.                             *)
LEMMA CallsComeFrom ==
    ASSUME NEW q \in Seq(Rec), NEW j \in 1 .. Len(CallsOf(q))
    PROVE  \E i \in DOMAIN q : \E k \in DOMAIN q[i].calls : CallsOf(q)[j] = q[i].calls[k]
<1> DEFINE n == Len(q)
           Made(e) == \E i \in 1 .. n : \E k \in DOMAIN q[i].calls : e = q[i].calls[k]
<1>1. n \in Nat /\ DOMAIN q = 1 .. n /\ \A i \in 1 .. n : q[i].calls \in Seq(Nat)
    BY RecCalls
<1>2. PICK f : Unrolled(f, q, n) /\ CallsOf(q) = f[n]
    BY CallsUnrolled
<1>3. \A i \in 0 .. n : f[i] \in Seq(Nat)
    BY <1>2, UnrolledTyped
<1>4. f[0] = <<>> /\ \A i \in 1 .. n : f[i] = f[i - 1] \o q[i].calls
    BY <1>1, <1>2, UnrolledIs
<1> HIDE DEF n
<1> DEFINE Good == {i \in 0 .. n : \A k \in 1 .. Len(f[i]) : Made(f[i][k])}
<1>5. 0 \in Good
    BY <1>1, <1>4
<1>6. ASSUME NEW i \in 1 .. n, i - 1 \in Good PROVE i \in Good
  <2> DEFINE a == f[i - 1]
             c == q[i].calls
  <2>a. i \in 0 .. n /\ i - 1 \in 0 .. n
      BY <1>1
  <2>1. a \in Seq(Nat) /\ c \in Seq(Nat) /\ f[i] = a \o c /\ i \in 0 .. n
    <3> HIDE DEF Good, Made
    <3> QED BY <1>1, <1>3, <1>4, <2>a
  <2>2. \A k \in 1 .. Len(a) : Made(a[k])
      BY <1>6
  <2>3. \A k \in DOMAIN c : Made(c[k])
      OBVIOUS
  <2> HIDE DEF a, c, Made
  <2>4. /\ Len(f[i]) = Len(a) + Len(c) /\ Len(a) \in Nat /\ Len(c) \in Nat /\ DOMAIN c = 1 .. Len(c)
        /\ \A k \in 1 .. (Len(a) + Len(c)) : f[i][k] = IF k <= Len(a) THEN a[k] ELSE c[k - Len(a)]
      BY <2>1, ConcatProperties
  <2>5. ASSUME NEW k \in 1 .. Len(f[i]) PROVE Made(f[i][k])
    <3>1. CASE k <= Len(a)
      <4>1. k \in 1 .. Len(a) /\ k \in 1 .. (Len(a) + Len(c))
          BY <2>4, <2>5, <3>1
      <4> QED BY <2>2, <2>4, <3>1, <4>1
    <3>2. CASE ~ (k <= Len(a))
      <4>1. k - Len(a) \in 1 .. Len(c) /\ k \in 1 .. (Len(a) + Len(c))
          BY <2>4, <2>5, <3>2
      <4> QED BY <2>3, <2>4, <3>2, <4>1
    <3> QED BY <3>1, <3>2
  <2> QED BY <2>1, <2>5
<1>7. Good \in SUBSET (0 .. n)
    OBVIOUS
<1> HIDE DEF Good
<1>8. n \in Good
  <2>1. \A i \in 0 .. n : i \in Good
      BY <1>1, <1>5, <1>6, <1>7, NoException
  <2>2. n \in 0 .. n
      BY <1>1
  <2> QED BY <2>1, <2>2
<1>9. Made(f[n][j])
  <2> HIDE DEF Made
  <2> QED BY <1>2, <1>8 DEF Good
<1> QED BY <1>1, <1>2, <1>9

-----------------------------------------------------------------------------
(* The inductive invariant.                                                *)

Elems(q) == {q[i] : i \in DOMAIN q}
CallSet(R) == UNION {Elems(r.calls) : r \in R}

PTypes ==
    /\ mode \in Modes /\ inGroup \in BOOLEAN /\ hasEvents \in BOOLEAN
    /\ lastCall \in Ops \cup {INVALID}
    /\ lastComm \in Comms \cup {NoComm} /\ commInGroup \in Comms \cup {NoComm}
    /\ timer \in Nat /\ issued \in Nat /\ opening \in Nat /\ depth \in Nat
    /\ timer <= issued /\ opening <= issued
    /\ acc \in Seq(Nat) /\ accDur \in SUBSET (Nat \X Nat)
    /\ buffer \in Seq(Rec) /\ logged \in Seq(Rec)
    /\ known \subseteq Comms /\ skipped \subseteq Comms /\ created \subseteq Comms

(* Calls that have not been published have been issued.                    *)
IssuedInv ==
    /\ Elems(acc) \subseteq 1 .. issued
    /\ CallSet(Elems(buffer)) \subseteq 1 .. issued
    /\ stranded \subseteq 1 .. issued

(* acc is only in use after a compressible call.                           *)
AccInv == ~ can_compress(lastCall) => acc = <<>>

(* The events of a group are of that group, or of the outermost one, and   *)
(* in profile mode a call whose record waits in it had one.                *)
GroupInv ==
    /\ ~ inGroup => buffer = <<>>
    /\ hasEvents => inGroup /\ timer # 0
    /\ hasEvents /\ depth > 0 => opening < timer
    /\ mode = STATE_PROFILE => \A c \in CallSet(Elems(buffer)) : c \notin stranded => hasEvents

(* A record that waits for the end of its group and its time.              *)
Waits(r) ==
    /\ r.dur = {} /\ 1 \in DOMAIN r.calls
    /\ r.calls[1] \notin stranded =>
          /\ depth > 0 /\ r.from = opening + 1
          /\ mode = STATE_PROFILE => timer <= r.calls[1]

WaitInv == \A r \in Elems(buffer) : r.op = PLAIN => Waits(r)

(* A record that was written has a time of its own.                        *)
OwnTime(r) == \A d \in r.dur : r.from <= d[1] /\ d[1] <= r.calls[1] /\ r.calls[1] <= d[2]

TimeInv == \A r \in Elems(logged) :
              r.op = PLAIN => 1 \in DOMAIN r.calls /\ (r.calls[1] \notin stranded => OwnTime(r))

(* A communicator is known before it is used, or was skipped.              *)
CommInv ==
    /\ ready \subseteq known \cup skipped
    /\ created \subseteq known \cup skipped \cup {commInGroup}
    /\ \A r \in Elems(buffer) \cup Elems(logged) :
          r.op = PLAIN /\ r.comm \notin skipped => r.sizeOf = r.comm

PInv == PTypes /\ IssuedInv /\ AccInv /\ GroupInv /\ WaitInv /\ TimeInv /\ CommInv

-----------------------------------------------------------------------------
(* Elements of lists.                                                      *)

(* The elements of one list after another.                                 *)
LEMMA ElemsConcat ==
    ASSUME NEW S, NEW q \in Seq(S), NEW s \in Seq(S)
    PROVE  q \o s \in Seq(S) /\ Elems(q \o s) = Elems(q) \cup Elems(s)
<1> DEFINE b == q \o s
<1>1. /\ b \in Seq(S) /\ Len(b) = Len(q) + Len(s)
      /\ \A i \in 1 .. Len(q) + Len(s) : b[i] = IF i <= Len(q) THEN q[i] ELSE s[i - Len(q)]
    BY ConcatProperties
<1>2. /\ DOMAIN q = 1 .. Len(q) /\ DOMAIN s = 1 .. Len(s) /\ DOMAIN b = 1 .. Len(b)
      /\ Len(q) \in Nat /\ Len(s) \in Nat
    BY <1>1
<1> HIDE DEF b
<1>3. ASSUME NEW i \in DOMAIN b PROVE b[i] \in Elems(q) \cup Elems(s)
  <2>1. CASE i <= Len(q)
    <3>1. i \in DOMAIN q /\ i \in 1 .. Len(q) + Len(s)
        BY <1>1, <1>2, <2>1
    <3> QED BY <1>1, <2>1, <3>1 DEF Elems
  <2>2. CASE ~ (i <= Len(q))
    <3>1. i - Len(q) \in DOMAIN s /\ i \in 1 .. Len(q) + Len(s)
        BY <1>1, <1>2, <2>2
    <3> QED BY <1>1, <2>2, <3>1 DEF Elems
  <2> QED BY <2>1, <2>2
<1>4. ASSUME NEW i \in DOMAIN q PROVE q[i] \in Elems(b)
  <2>1. i \in DOMAIN b /\ i \in 1 .. Len(q) + Len(s) /\ i <= Len(q)
      BY <1>1, <1>2
  <2> QED BY <1>1, <2>1 DEF Elems
<1>5. ASSUME NEW i \in DOMAIN s PROVE s[i] \in Elems(b)
  <2>1. /\ Len(q) + i \in DOMAIN b /\ Len(q) + i \in 1 .. Len(q) + Len(s)
        /\ ~ (Len(q) + i <= Len(q)) /\ (Len(q) + i) - Len(q) = i
      BY <1>1, <1>2
  <2>2. b[Len(q) + i] = s[i]
      BY <1>1, <2>1
  <2> QED BY <2>1, <2>2 DEF Elems
<1>6. Elems(b) = Elems(q) \cup Elems(s)
    BY <1>3, <1>4, <1>5 DEF Elems
<1> QED BY <1>1, <1>6 DEF b

(* The element of a list of one.                                           *)
LEMMA ElemsOne == ASSUME NEW e PROVE Elems(<<e>>) = {e}
<1>1. DOMAIN <<e>> = {1} /\ <<e>>[1] = e
    OBVIOUS
<1> DEFINE q == <<e>>
<1>2. DOMAIN q = {1} /\ q[1] = e
    BY <1>1
<1> HIDE DEF q
<1>3. Elems(q) = {e}
    BY <1>2 DEF Elems
<1> QED BY <1>3 DEF q

(* The empty list has no elements.                                         *)
LEMMA ElemsEmpty == Elems(<<>>) = {}
<1>1. DOMAIN <<>> = {}
    OBVIOUS
<1> QED BY <1>1 DEF Elems

(* The model's own names for these.                                        *)
LEMMA BufferedIs == BufferedCalls = CallSet(Elems(buffer))
BY DEF BufferedCalls, CallSet, Elems

(* The same after a step.                                                  *)
LEMMA BufferedIsNext == (BufferedCalls = CallSet(Elems(buffer)))'
BY BufferedIs, PTL

(* The calls of more records are more calls.                               *)
LEMMA CallSetUnion == ASSUME NEW A, NEW B PROVE CallSet(A \cup B) = CallSet(A) \cup CallSet(B)
BY DEF CallSet

(* The invariant holds before the first call.                              *)
LEMMA ProbeInit == Init => PInv
<1> SUFFICES ASSUME Init PROVE PInv
    OBVIOUS
<1>1. <<>> \in Seq(Nat) /\ <<>> \in Seq(Rec)
    OBVIOUS
<1>2. PTypes
  <2>1. mode \in Modes /\ inGroup \in BOOLEAN /\ hasEvents \in BOOLEAN
      BY DEF Init, Modes
  <2>2. timer = 0 /\ issued = 0 /\ opening = 0 /\ depth = 0
      BY DEF Init
  <2>3. accDur = {} /\ acc = <<>> /\ buffer = <<>> /\ logged = <<>>
      BY DEF Init
  <2>4. /\ lastCall \in Ops \cup {INVALID} /\ lastComm = NoComm /\ commInGroup = NoComm
        /\ known = {} /\ skipped = {} /\ created = {}
      BY DEF Init
  <2> QED BY <1>1, <2>1, <2>2, <2>3, <2>4 DEF PTypes
<1>3. CallSet({}) = {}
    BY DEF CallSet
<1> QED BY <1>2, <1>3, ElemsEmpty
        DEF Init, PInv, IssuedInv, AccInv, GroupInv, WaitInv, TimeInv, CommInv

-----------------------------------------------------------------------------
(* A recorded call.                                                        *)

(* add_timing_event(): what the events stand for after it.                 *)
Timed ==
    /\ hasEvents' \in BOOLEAN /\ timer' \in Nat /\ timer' <= issued'
    /\ hasEvents' => inGroup /\ timer' # 0
    /\ hasEvents' /\ depth > 0 => opening < timer'
    /\ mode = STATE_PROFILE => /\ inGroup => hasEvents'
                               /\ ~ inGroup => timer' = issued'
                               /\ hasEvents => timer' = timer

(* Every call leaves the events so, in monitor and in profile mode.        *)
LEMMA TimingIs ==
    ASSUME PInv, NEW op, issued' = issued + 1, add_timing_event(op)
    PROVE  Timed
<1>1. /\ mode \in Modes /\ inGroup \in BOOLEAN /\ hasEvents \in BOOLEAN
      /\ timer \in Nat /\ issued \in Nat /\ opening \in Nat /\ depth \in Nat
      /\ timer <= issued /\ opening <= issued
      /\ hasEvents => inGroup /\ timer # 0
      /\ hasEvents /\ depth > 0 => opening < timer
    BY DEF PInv, PTypes, GroupInv
<1>2. CASE mode = STATE_MONITOR
  <2>1. hasEvents' = hasEvents /\ timer' = timer /\ mode # STATE_PROFILE
      BY <1>2 DEF add_timing_event, timingVars, STATE_MONITOR, STATE_PROFILE
  <2> QED BY <1>1, <2>1 DEF Timed
<1>3. CASE mode # STATE_MONITOR
  <2>1. /\ hasEvents' = (hasEvents \/ inGroup)
        /\ timer' = IF hasEvents /\ inGroup THEN timer ELSE issued'
      BY <1>3 DEF add_timing_event
  <2>2. CASE hasEvents
    <3>1. hasEvents' = TRUE /\ timer' = timer /\ inGroup
        BY <1>1, <2>1, <2>2
    <3> QED BY <1>1, <2>2, <3>1 DEF Timed
  <2>3. CASE ~ hasEvents
    <3>1. hasEvents' = inGroup /\ timer' = issued'
        BY <1>1, <2>1, <2>3
    <3> QED BY <1>1, <2>3, <3>1 DEF Timed
  <2> QED BY <2>2, <2>3
<1> QED BY <1>2, <1>3

(* A compressed record and the one that ended it.                          *)
Followed(q) ==
    \A i \in DOMAIN q : q[i].op # PLAIN =>
        i + 1 \in DOMAIN q /\ q[i + 1].op = PLAIN /\ q[i].sizeOf = q[i + 1].sizeOf

(* What log_event() makes of a call that is not compressed: records whose  *)
(* calls are those accumulated before and the call itself.                 *)
PlainFacts(recs, comm) ==
    /\ recs \in Seq(Rec) /\ Emit(recs) /\ Followed(recs)
    /\ CallsOf(recs) = acc \o <<issued'>> /\ acc' = <<>>
    /\ accDur' \in SUBSET (Nat \X Nat)
    /\ lastCall' \in Ops \cup {INVALID} /\ lastComm' \in Comms \cup {NoComm}
    /\ CallSet(Elems(recs)) = Elems(acc) \cup {issued'}
    /\ \A r \in Elems(recs) : r.op = PLAIN =>
          /\ r.calls = <<issued'>>
          /\ r.comm \notin skipped => r.sizeOf = r.comm
          /\ inGroup => r.dur = {}
          /\ ~ inGroup => OwnTime(r)
          /\ depth > 0 => r.from = opening + 1

(* log_event() makes such records, with and without calls accumulated      *)
(* before.                                                                 *)
LEMMA PlainCallIs ==
    ASSUME PInv, NEW op \in Ops, NEW comm \in Comms, comm \in ready, issued' = issued + 1,
           Timed, ~ can_compress(op), log_event(op, comm)
    PROVE  \E recs : PlainFacts(recs, comm)
<1>1. PTypes /\ AccInv /\ CommInv
    BY DEF PInv
<1>2. op = PLAIN /\ PLAIN # COMPRESSIBLE
    BY DEF can_compress, Ops, PLAIN, COMPRESSIBLE
<1> DEFINE n == issued + 1
           t == IF inGroup THEN <<>> ELSE Measured(FALSE, hasEvents', timer')
           D == {t} \ {<<>>}
           from == IF depth = 0 THEN n ELSE opening + 1
           size == SizeOf(comm)
           own == [op |-> op, calls |-> <<n>>, comm |-> comm, sizeOf |-> size, dur |-> D, from |-> from]
           packed == [op |-> lastCall, calls |-> acc, comm |-> lastComm, sizeOf |-> size,
                      dur |-> accDur, from |-> 0]
<1>3. /\ n \in Nat /\ from \in Nat /\ from <= n /\ (depth > 0 => from = opening + 1)
      /\ issued \in Nat /\ depth \in Nat
    BY <1>1 DEF PTypes
<1>4. size \in Comms \cup {NoComm} /\ (comm \notin skipped => size = comm)
    BY <1>1 DEF SizeOf, CommInv
<1>5. inGroup => D = {}
    OBVIOUS
<1>6. ~ inGroup => D \subseteq {<<n, n>>}
  <2>1. CASE mode = STATE_MONITOR
      BY <2>1 DEF Measured
  <2>2. CASE mode # STATE_MONITOR
    <3>1. mode = STATE_PROFILE
        BY <1>1, <2>2 DEF PTypes, Modes
    <3>2. ~ inGroup => timer' = n
        BY <3>1 DEF Timed
    <3> QED BY <3>2 DEF Measured
  <2> QED BY <2>1, <2>2
<1>7. <<n>> \in Seq(Nat) /\ <<n>>[1] = n /\ Elems(<<n>>) = {n}
    BY <1>3, ElemsOne
<1>8. D \in SUBSET (Nat \X Nat)
  <2>1. inGroup \in BOOLEAN
      BY <1>1 DEF PTypes
  <2> HIDE DEF t, D, n
  <2>2. <<n, n>> \in Nat \X Nat
      BY <1>3
  <2> QED BY <1>5, <1>6, <2>1, <2>2
<1>9. IF can_compress(lastCall)
      THEN Emit(<<packed, own>>) /\ acc' = <<>> /\ accDur' = {} /\ lastComm' = NoComm /\ lastCall' = op
      ELSE Emit(<<own>>) /\ UNCHANGED accVars
    BY DEF log_event
<1> DEFINE Right(r) == /\ r.calls = <<n>>
                       /\ r.comm \notin skipped => r.sizeOf = r.comm
                       /\ inGroup => r.dur = {}
                       /\ ~ inGroup => OwnTime(r)
                       /\ depth > 0 => r.from = opening + 1
<1> HIDE DEF t, D, from, size, n
<1>10. own \in Rec /\ own.calls = <<n>> /\ own.op = PLAIN
    BY <1>2, <1>3, <1>4, <1>7, <1>8 DEF Rec, Ops
<1>11. own.comm = comm /\ own.sizeOf = size /\ own.dur = D /\ own.from = from
    OBVIOUS
<1> HIDE DEF own
<1>12. ~ inGroup => OwnTime(own)
  <2> SUFFICES ASSUME ~ inGroup, NEW d \in D
               PROVE  from <= d[1] /\ d[1] <= n /\ n <= d[2]
      BY <1>7, <1>10, <1>11 DEF OwnTime
  <2>1. d = <<n, n>>
      BY <1>6
  <2>2. d[1] = n /\ d[2] = n
      BY <2>1
  <2> QED BY <1>3, <2>2
<1>13. Right(own)
    BY <1>3, <1>4, <1>5, <1>10, <1>11, <1>12
<1>14. n = issued' /\ CallsOf(<<own>>) = <<n>> /\ Elems(<<own>>) = {own} /\ <<own>> \in Seq(Rec)
    BY <1>10, CallsOne, ElemsOne DEF n
<1>15. CallSet({own}) = {n}
    BY <1>7, <1>10 DEF CallSet
<1>16. CASE can_compress(lastCall)
  <2>1. packed \in Rec /\ packed.op = COMPRESSIBLE /\ packed.calls = acc /\ packed.sizeOf = size
      BY <1>1, <1>4, <1>16 DEF Rec, Ops, can_compress, PTypes
  <2> HIDE DEF packed, Right
  <2> DEFINE recs == <<packed, own>>
             p == <<packed>>
             o == <<own>>
  <2>2. p \in Seq(Rec) /\ Elems(p) = {packed} /\ CallsOf(p) = acc
      BY <2>1, CallsOne, ElemsOne
  <2>3. recs = p \o o
      OBVIOUS
  <2>4. o \in Seq(Rec) /\ Elems(o) = {own} /\ CallsOf(o) = <<n>>
      BY <1>14
  <2>5. Emit(recs) /\ acc' = <<>> /\ accDur' = {} /\ lastComm' = NoComm /\ lastCall' = op
      BY <1>9, <1>16
  <2>a. Followed(recs)
      BY <1>10, <1>11, <2>1 DEF Followed
  <2> HIDE DEF recs, p, o
  <2>6. recs \in Seq(Rec) /\ Elems(recs) = {packed, own}
      BY <2>2, <2>3, <2>4, ElemsConcat, SMTT(30)
  <2>7. CallsOf(recs) = acc \o <<n>>
      BY <2>2, <2>3, <2>4, CallsConcat
  <2>8. CallSet({packed}) = Elems(acc)
      BY <2>1 DEF CallSet
  <2>9. CallSet({packed, own}) = Elems(acc) \cup {n}
    <3>1. {packed, own} = {packed} \cup {own}
        OBVIOUS
    <3> QED BY <1>15, <2>8, <3>1, CallSetUnion
  <2>10. \A r \in Elems(recs) : r.op = PLAIN => Right(r)
      BY <1>2, <1>13, <2>1, <2>6
  <2>11. PlainFacts(recs, comm)
      BY <1>14, <2>5, <2>a, <2>6, <2>7, <2>9, <2>10 DEF PlainFacts, Right
  <2> QED BY <2>11
<1>17. CASE ~ can_compress(lastCall)
  <2>1. acc = <<>>
      BY <1>1, <1>17 DEF AccInv
  <2>2. Emit(<<own>>) /\ acc' = <<>> /\ accDur' = accDur /\ lastComm' = lastComm /\ lastCall' = lastCall
      BY <1>9, <1>17, <2>1 DEF accVars
  <2>3. acc \o <<n>> = <<n>>
      BY <1>7, <2>1
  <2>4. CallSet(Elems(<<own>>)) = Elems(acc) \cup {n}
      BY <1>14, <1>15, <2>1, ElemsEmpty
  <2>5. \A r \in Elems(<<own>>) : r.op = PLAIN => Right(r)
      BY <1>13, <1>14
  <2>a. Followed(<<own>>)
      BY <1>10 DEF Followed
  <2>6. PlainFacts(<<own>>, comm)
      BY <1>1, <1>14, <2>a, <2>2, <2>3, <2>4, <2>5 DEF PlainFacts, PTypes
  <2> QED BY <2>6
<1> QED BY <1>16, <1>17

(* What a call adds: the records of B to the buffer, those of L to the     *)
(* log, and itself to the calls of the rank.                               *)
Added(B, L) ==
    /\ buffer' \in Seq(Rec) /\ logged' \in Seq(Rec)
    /\ Elems(buffer') = Elems(buffer) \cup B /\ Elems(logged') = Elems(logged) \cup L
    /\ inGroup => L = {}
    /\ ~ inGroup => B = {} /\ buffer' = buffer
    /\ CallSet(B) \subseteq 1 .. issued'
    /\ acc' \in Seq(Nat) /\ Elems(acc') \subseteq 1 .. issued'
    /\ (~ can_compress(lastCall'))  => acc' = <<>>
    /\ accDur' \in SUBSET (Nat \X Nat)
    /\ lastCall' \in Ops \cup {INVALID} /\ lastComm' \in Comms \cup {NoComm}
    /\ \A r \in B \cup L : r.op = PLAIN =>
          /\ r.calls = <<issued'>>
          /\ r.comm \notin skipped => r.sizeOf = r.comm
          /\ inGroup => r.dur = {}
          /\ ~ inGroup => OwnTime(r)
          /\ depth > 0 => r.from = opening + 1

(* Every recorded call adds records in this way.                           *)
LEMMA CallAdds ==
    ASSUME PInv, NEW op \in Ops, NEW comm \in Comms, comm \in ready, issued' = issued + 1,
           Timed, log_event(op, comm)
    PROVE  \E B, L : Added(B, L)
<1>1. PTypes /\ IssuedInv
    BY DEF PInv
<1>2. issued \in Nat /\ issued' \in Nat /\ issued' \in 1 .. issued' /\ (1 .. issued) \subseteq (1 .. issued')
    BY <1>1 DEF PTypes
<1>3. inGroup \in BOOLEAN /\ buffer \in Seq(Rec) /\ logged \in Seq(Rec) /\ acc \in Seq(Nat)
    BY <1>1 DEF PTypes
<1>4. Elems(acc) \subseteq 1 .. issued'
    BY <1>1, <1>2 DEF IssuedInv
<1>5. CASE can_compress(op)
  <2>1. lastCall' = op /\ lastComm' = comm /\ acc' = Append(acc, issued') /\ accDur' = accDur
        /\ buffer' = buffer /\ logged' = logged
      BY <1>5 DEF log_event, recordVars
  <2>2. acc' = acc \o <<issued'>>
      BY <1>2, <1>3, <2>1
  <2>3. <<issued'>> \in Seq(Nat) /\ Elems(<<issued'>>) = {issued'}
      BY <1>2, ElemsOne
  <2>4. acc' \in Seq(Nat) /\ Elems(acc') \subseteq 1 .. issued'
    <3> DEFINE one == <<issued'>>
    <3>1. one \in Seq(Nat) /\ Elems(one) = {issued'} /\ acc' = acc \o one
        BY <2>2, <2>3
    <3> HIDE DEF one
    <3>2. acc \o one \in Seq(Nat) /\ Elems(acc \o one) = Elems(acc) \cup Elems(one)
        BY <1>3, <3>1, ElemsConcat
    <3> QED BY <1>2, <1>4, <3>1, <3>2
  <2>5. CallSet({}) = {}
      BY DEF CallSet
  <2>6. can_compress(lastCall')
      BY <1>5, <2>1
  <2>7. Added({}, {})
      BY <1>1, <1>3, <2>1, <2>4, <2>5, <2>6 DEF Added, PTypes
  <2> QED BY <2>7
<1>6. CASE ~ can_compress(op)
  <2>1. PICK recs : PlainFacts(recs, comm)
      BY <1>6, PlainCallIs
  <2>2. recs \in Seq(Rec) /\ Emit(recs)
      BY <2>1 DEF PlainFacts
  <2>3. CallSet(Elems(recs)) \subseteq 1 .. issued'
      BY <1>2, <1>4, <2>1 DEF PlainFacts
  <2>4. CallSet({}) = {} /\ <<>> \in Seq(Nat)
      BY DEF CallSet
  <2>5. Elems(acc') = {} /\ acc' = <<>>
      BY <2>1, ElemsEmpty DEF PlainFacts
  <2>6. CASE inGroup
    <3>1. buffer' = buffer \o recs /\ logged' = logged
        BY <2>2, <2>6 DEF Emit
    <3>2. buffer' \in Seq(Rec) /\ Elems(buffer') = Elems(buffer) \cup Elems(recs)
        BY <1>3, <2>2, <3>1, ElemsConcat
    <3>3. Added(Elems(recs), {})
        BY <1>3, <2>1, <2>3, <2>4, <2>5, <2>6, <3>1, <3>2 DEF Added, PlainFacts
    <3> QED BY <3>3
  <2>7. CASE ~ inGroup
    <3>1. logged' = logged \o recs /\ buffer' = buffer
        BY <2>2, <2>7 DEF Emit
    <3>2. logged' \in Seq(Rec) /\ Elems(logged') = Elems(logged) \cup Elems(recs)
        BY <1>3, <2>2, <3>1, ElemsConcat
    <3>3. Added({}, Elems(recs))
        BY <1>3, <2>1, <2>3, <2>4, <2>5, <2>7, <3>1, <3>2 DEF Added, PlainFacts
    <3> QED BY <3>3
  <2> QED BY <2>6, <2>7
<1> QED BY <1>5, <1>6

(* The call of a record that waits is a call of the buffer.                *)
LEMMA FirstCallIn ==
    ASSUME NEW R, NEW r \in R, 1 \in DOMAIN r.calls
    PROVE  r.calls[1] \in CallSet(R)
BY DEF CallSet, Elems

(* A recorded call keeps the invariant.                                    *)
LEMMA CallInv ==
    ASSUME PInv, NEW op \in Ops, NEW comm \in Comms, Call(op, comm)
    PROVE  PInv'
<1>1. PTypes /\ IssuedInv /\ GroupInv /\ WaitInv /\ TimeInv /\ CommInv
    BY DEF PInv
<1>2. /\ issued' = issued + 1 /\ comm \in ready /\ add_timing_event(op) /\ log_event(op, comm)
      /\ mode' = mode /\ inGroup' = inGroup /\ depth' = depth /\ opening' = opening
      /\ commInGroup' = commInGroup /\ known' = known /\ created' = created /\ ready' = ready
      /\ skipped' = skipped
    BY DEF Call, commVars
<1>3. /\ stranded \subseteq stranded' /\ stranded' \subseteq stranded \cup CallSet(Elems(buffer'))
      /\ inGroup /\ depth = 0 => CallSet(Elems(buffer')) \subseteq stranded'
    BY BufferedIsNext DEF Call
<1>4. Timed
    BY <1>2, TimingIs
<1>5. PICK B, L : Added(B, L)
    BY <1>2, <1>4, CallAdds
<1>6. inGroup \in BOOLEAN /\ depth \in Nat /\ issued \in Nat /\ issued' \in Nat /\ opening \in Nat
    BY <1>1, <1>2 DEF PTypes
<1>7. PTypes'
  <2>1. /\ mode' \in Modes /\ inGroup' \in BOOLEAN /\ hasEvents' \in BOOLEAN
        /\ commInGroup' \in Comms \cup {NoComm} /\ depth' \in Nat
        /\ known' \subseteq Comms /\ skipped' \subseteq Comms /\ created' \subseteq Comms
      BY <1>1, <1>2, <1>4 DEF PTypes, Timed
  <2>2. timer' \in Nat /\ issued' \in Nat /\ opening' \in Nat /\ timer' <= issued' /\ opening' <= issued'
      BY <1>1, <1>2, <1>4 DEF PTypes, Timed
  <2>3. /\ acc' \in Seq(Nat) /\ accDur' \in SUBSET (Nat \X Nat)
        /\ buffer' \in Seq(Rec) /\ logged' \in Seq(Rec)
        /\ lastCall' \in Ops \cup {INVALID} /\ lastComm' \in Comms \cup {NoComm}
      BY <1>5 DEF Added
  <2> QED BY <2>1, <2>2, <2>3 DEF PTypes
<1>8. CallSet(Elems(buffer')) = CallSet(Elems(buffer)) \cup CallSet(B)
    BY <1>5, CallSetUnion DEF Added
<1>9. IssuedInv'
  <2>1. (1 .. issued) \subseteq (1 .. issued')
      BY <1>2, <1>6
  <2>2. CallSet(Elems(buffer')) \subseteq 1 .. issued'
      BY <1>1, <1>5, <1>8, <2>1 DEF IssuedInv, Added
  <2>3. stranded' \subseteq 1 .. issued'
      BY <1>1, <1>3, <2>1, <2>2 DEF IssuedInv
  <2> QED BY <1>5, <2>2, <2>3 DEF IssuedInv, Added
<1>10. AccInv'
    BY <1>5 DEF AccInv, Added
<1>11. ~ inGroup => buffer' = <<>> /\ Elems(buffer') = {} /\ CallSet(Elems(buffer')) = {}
  <2>1. ~ inGroup => buffer' = <<>>
      BY <1>1, <1>5 DEF GroupInv, Added
  <2>2. CallSet({}) = {}
      BY DEF CallSet
  <2> QED BY <2>1, <2>2, ElemsEmpty
<1>12. GroupInv'
  <2>1. (hasEvents => inGroup /\ timer # 0)'
      BY <1>2, <1>4 DEF Timed
  <2>2. (hasEvents /\ depth > 0 => opening < timer)'
      BY <1>2, <1>4 DEF Timed
  <2>3. (mode = STATE_PROFILE => \A c \in CallSet(Elems(buffer)) : c \notin stranded => hasEvents)'
      BY <1>2, <1>4, <1>6, <1>11 DEF Timed
  <2> QED BY <1>2, <1>11, <2>1, <2>2, <2>3 DEF GroupInv
<1>13. WaitInv'
  <2> SUFFICES ASSUME NEW r \in Elems(buffer'), r.op = PLAIN
               PROVE  Waits(r)'
      BY DEF WaitInv
  <2>1. inGroup
      BY <1>6, <1>11
  <2>2. 1 \in DOMAIN r.calls => (r.calls[1] \notin stranded' => depth > 0)
      BY <1>3, <1>6, <2>1, FirstCallIn
  <2>3. CASE r \in Elems(buffer)
    <3>1. Waits(r)
        BY <1>1, <2>3 DEF WaitInv
    <3>2. r.calls[1] \in CallSet(Elems(buffer))
        BY <2>3, <3>1, FirstCallIn DEF Waits
    <3>3. mode = STATE_PROFILE /\ r.calls[1] \notin stranded => timer' = timer
        BY <1>1, <1>4, <3>2 DEF GroupInv, Timed
    <3> QED BY <1>2, <1>3, <2>2, <3>1, <3>3 DEF Waits
  <2>4. CASE r \in B
    <3>1. r.calls = <<issued'>> /\ r.dur = {} /\ (depth > 0 => r.from = opening + 1)
        BY <1>5, <2>1, <2>4 DEF Added
    <3>2. 1 \in DOMAIN r.calls /\ r.calls[1] = issued'
        BY <3>1
    <3>3. timer' <= r.calls[1]
        BY <1>4, <3>2 DEF Timed
    <3> QED BY <1>2, <2>2, <3>1, <3>2, <3>3 DEF Waits
  <2> QED BY <1>5, <2>3, <2>4 DEF Added
<1>14. TimeInv'
  <2> SUFFICES ASSUME NEW r \in Elems(logged'), r.op = PLAIN
               PROVE  1 \in DOMAIN r.calls /\ (r.calls[1] \notin stranded' => OwnTime(r))
      BY DEF TimeInv, OwnTime
  <2>1. CASE r \in Elems(logged)
      BY <1>1, <1>3, <2>1 DEF TimeInv
  <2>2. CASE r \in L
    <3>1. r.calls = <<issued'>> /\ OwnTime(r)
        BY <1>5, <1>6, <2>2 DEF Added
    <3>2. 1 \in DOMAIN r.calls
        BY <3>1
    <3> QED BY <3>1, <3>2
  <2> QED BY <1>5, <2>1, <2>2 DEF Added
<1>15. CommInv'
  <2> SUFFICES ASSUME NEW r \in Elems(buffer') \cup Elems(logged'), r.op = PLAIN, r.comm \notin skipped
               PROVE  r.sizeOf = r.comm
      BY <1>1, <1>2 DEF CommInv
  <2>1. CASE r \in Elems(buffer) \cup Elems(logged)
      BY <1>1, <2>1 DEF CommInv
  <2>2. CASE r \in B \cup L
      BY <1>5, <2>2 DEF Added
  <2> QED BY <1>5, <2>1, <2>2 DEF Added
<1> QED BY <1>7, <1>9, <1>10, <1>12, <1>13, <1>14, <1>15 DEF PInv

-----------------------------------------------------------------------------
(* The other operations.                                                   *)

(* The check of control_state that the application asks for changes no     *)
(* state the invariant is about, and neither does a step that stutters.    *)
LEMMA QuietInv ==
    ASSUME PInv, CheckRequest \/ UNCHANGED vars
    PROVE  PInv'
<1>1. /\ UNCHANGED <<mode, inGroup, hasEvents, timer, lastCall, lastComm, acc, accDur>>
      /\ UNCHANGED <<buffer, logged, commInGroup, known, created, ready, skipped>>
      /\ UNCHANGED <<depth, opening, issued, stranded>>
    BY DEF CheckRequest, vars, timingVars, accVars, recordVars, commVars
<1> QED BY <1>1 DEF PInv, PTypes, IssuedInv, AccInv, GroupInv, WaitInv, Waits, TimeInv, OwnTime, CommInv

(* A new communicator is known at once, or waits in comm_in_group, or is   *)
(* skipped.                                                                *)
LEMMA CommInitInv ==
    ASSUME PInv, NEW comm \in Comms, CommInitRank(comm)
    PROVE  PInv'
<1>1. /\ UNCHANGED <<mode, inGroup, hasEvents, timer, lastCall, lastComm, acc, accDur>>
      /\ UNCHANGED <<buffer, logged, depth, opening, issued, stranded>>
      /\ created' = created \cup {comm}
      /\ ready' = IF depth = 0 THEN ready \cup {comm} ELSE ready
      /\ IF inGroup
         THEN /\ commInGroup' = comm /\ known' = known
              /\ skipped' = skipped \cup ({commInGroup} \ {NoComm}) \cup {c \in {comm} : depth = 0}
         ELSE known' = known \cup {comm} /\ commInGroup' = commInGroup /\ skipped' = skipped
    BY DEF CommInitRank, timingVars, accVars, recordVars
<1>2. PTypes /\ CommInv /\ NoComm \notin Comms
    BY ProbeAssumption DEF PInv
<1>3. PTypes'
    BY <1>1, <1>2 DEF PTypes
<1>4. IssuedInv' /\ AccInv' /\ GroupInv' /\ WaitInv' /\ TimeInv'
    BY <1>1 DEF PInv, IssuedInv, AccInv, GroupInv, WaitInv, Waits, TimeInv, OwnTime
<1>5. CommInv'
  <2>1. skipped \subseteq skipped' /\ known \subseteq known'
      BY <1>1
  <2>2. ready' \subseteq known' \cup skipped'
      BY <1>1, <1>2 DEF CommInv
  <2>3. created \subseteq Comms
      BY <1>2 DEF PTypes
  <2>4. created' \subseteq known' \cup skipped' \cup {commInGroup'}
      BY <1>1, <1>2, <2>3 DEF CommInv
  <2> QED BY <1>1, <1>2, <2>1, <2>2, <2>4 DEF CommInv
<1> QED BY <1>3, <1>4, <1>5 DEF PInv

(* A group opened in a group strands what the buffer holds.                *)
LEMMA GroupStartInv ==
    ASSUME PInv, GroupStart
    PROVE  PInv'
<1>1. /\ UNCHANGED <<mode, timer, lastCall, lastComm, acc, accDur, buffer, logged, issued>>
      /\ UNCHANGED <<commInGroup, known, created, ready, skipped>>
      /\ inGroup' = TRUE /\ hasEvents' = FALSE /\ depth' = depth + 1
      /\ opening' = IF depth = 0 THEN issued ELSE opening
      /\ stranded' = stranded \cup CallSet(Elems(buffer))
    BY BufferedIs DEF GroupStart, group_start, accVars, recordVars, commVars
<1>2. PTypes /\ IssuedInv /\ AccInv /\ GroupInv /\ WaitInv /\ TimeInv /\ CommInv
    BY DEF PInv
<1>3. PTypes'
  <2>1. depth' \in Nat /\ opening' \in Nat /\ issued' = issued /\ opening' <= issued'
      BY <1>1, <1>2 DEF PTypes
  <2>2. inGroup' \in BOOLEAN /\ hasEvents' \in BOOLEAN
      BY <1>1
  <2> QED BY <1>1, <1>2, <2>1, <2>2 DEF PTypes
<1>4. IssuedInv' /\ AccInv'
    BY <1>1, <1>2 DEF IssuedInv, AccInv
<1>5. GroupInv'
    BY <1>1, <1>2 DEF GroupInv
<1>6. WaitInv'
  <2> SUFFICES ASSUME NEW r \in Elems(buffer), r.op = PLAIN
               PROVE  Waits(r)'
      BY <1>1 DEF WaitInv
  <2>1. r.dur = {} /\ 1 \in DOMAIN r.calls
      BY <1>2 DEF WaitInv, Waits
  <2>2. r.calls[1] \in stranded'
      BY <1>1, <2>1, FirstCallIn
  <2> QED BY <2>1, <2>2 DEF Waits
<1>7. TimeInv'
    BY <1>1, <1>2 DEF TimeInv, OwnTime
<1>8. CommInv'
    BY <1>1, <1>2 DEF CommInv
<1> QED BY <1>3, <1>4, <1>5, <1>6, <1>7, <1>8 DEF PInv

(* What every end of a group does.                                         *)
Closed ==
    /\ depth \in Nat /\ depth > 0 /\ depth' = depth - 1
    /\ issued' = issued /\ created' = created
    /\ ready' = (IF depth = 1 THEN created ELSE ready)
    /\ opening' = (IF depth = 1 THEN 0 ELSE opening)

(* The time a group's end measures: none in monitor mode, and otherwise    *)
(* from the first event of the group up to now.                            *)
LEMMA MeasuredIs ==
    ASSUME PInv, issued' = issued, NEW t, t = Measured(inGroup, hasEvents, timer)
    PROVE  /\ t # <<>> => t = <<timer, issued>> /\ t \in Nat \X Nat /\ mode # STATE_MONITOR
           /\ (mode = STATE_PROFILE /\ hasEvents) => t = <<timer, issued>>
<1>1. timer \in Nat /\ issued \in Nat /\ (hasEvents => timer # 0)
    BY DEF PInv, PTypes, GroupInv
<1>2. t = IF mode = STATE_MONITOR \/ (inGroup /\ ~ hasEvents) \/ timer = 0 THEN <<>> ELSE <<timer, issued>>
    BY DEF Measured
<1>3. STATE_PROFILE # STATE_MONITOR
    BY DEF STATE_PROFILE, STATE_MONITOR
<1> QED BY <1>1, <1>2, <1>3

(* The early return strands what the buffer holds and skips the            *)
(* communicator made in the group.                                         *)
LEMMA GroupEndCompressedInv ==
    ASSUME PInv, Closed, NEW t, t \in Nat \X Nat, GroupEndCompressed(t)
    PROVE  PInv'
<1>1. /\ UNCHANGED <<mode, inGroup, hasEvents, timer, lastCall, lastComm, acc, buffer, logged>>
      /\ UNCHANGED <<commInGroup, known>>
      /\ accDur' = accDur \cup {t}
      /\ stranded' = stranded \cup CallSet(Elems(buffer))
      /\ skipped' = skipped \cup ({commInGroup} \ {NoComm})
    BY BufferedIs DEF GroupEndCompressed, StayInGroup, timingVars, recordVars
<1>2. PTypes /\ IssuedInv /\ AccInv /\ GroupInv /\ WaitInv /\ TimeInv /\ CommInv
    BY DEF PInv
<1>3. PTypes'
  <2>1. accDur' \in SUBSET (Nat \X Nat)
      BY <1>1, <1>2 DEF PTypes
  <2>2. depth' \in Nat /\ opening' \in Nat /\ issued' = issued /\ opening' <= issued'
      BY <1>2 DEF PTypes, Closed
  <2>3. created' = created
      BY DEF Closed
  <2> QED BY <1>1, <1>2, <2>1, <2>2, <2>3 DEF PTypes
<1>4. IssuedInv' /\ AccInv'
    BY <1>1, <1>2 DEF IssuedInv, AccInv, Closed
<1>5. GroupInv'
  <2>1. depth' > 0 => depth > 0 /\ opening' = opening
      BY DEF Closed
  <2> QED BY <1>1, <1>2, <2>1 DEF GroupInv
<1>6. WaitInv'
  <2> SUFFICES ASSUME NEW r \in Elems(buffer), r.op = PLAIN
               PROVE  Waits(r)'
      BY <1>1 DEF WaitInv
  <2>1. r.dur = {} /\ 1 \in DOMAIN r.calls
      BY <1>2 DEF WaitInv, Waits
  <2>2. r.calls[1] \in stranded'
      BY <1>1, <2>1, FirstCallIn
  <2> QED BY <2>1, <2>2 DEF Waits
<1>7. TimeInv'
    BY <1>1, <1>2 DEF TimeInv, OwnTime
<1>8. CommInv'
  <2>1. created \subseteq known \cup skipped' \/ NoComm \in created
      BY <1>1, <1>2 DEF CommInv
  <2>2. NoComm \notin created
      BY <1>2, ProbeAssumption DEF PTypes
  <2> QED BY <1>1, <1>2, <2>1, <2>2 DEF CommInv, Closed
<1> QED BY <1>3, <1>4, <1>5, <1>6, <1>7, <1>8 DEF PInv

(* What the end of a group writes: the records of the buffer, with a time  *)
(* of their own, unless profile mode has none to give.                     *)
FlushFacts(t, F) ==
    /\ F \in Seq(Rec)
    /\ CallsOf(F) = (IF mode # STATE_MONITOR /\ t = <<>> THEN <<>> ELSE CallsOf(buffer))
    /\ \A r \in Elems(F) : r.op = PLAIN =>
          /\ 1 \in DOMAIN r.calls /\ (r.calls[1] \notin stranded => OwnTime(r))
          /\ r.comm \notin skipped => r.sizeOf = r.comm

(* The end of a group writes such records.                                 *)
LEMMA FlushedIs ==
    ASSUME PInv, NEW t, t # <<>> => t = <<timer, issued>> /\ t \in Nat \X Nat /\ mode # STATE_MONITOR
    PROVE  FlushFacts(t, Flushed(t))
<1>1. PTypes /\ IssuedInv /\ GroupInv /\ WaitInv /\ CommInv
    BY DEF PInv
<1>2. buffer \in Seq(Rec) /\ timer \in Nat /\ issued \in Nat /\ opening \in Nat
    BY <1>1 DEF PTypes
<1>3. CASE mode = STATE_MONITOR
  <2>1. Flushed(t) = buffer
      BY <1>3 DEF Flushed
  <2>2. \A r \in Elems(buffer) : r.op = PLAIN =>
          /\ 1 \in DOMAIN r.calls /\ OwnTime(r)
          /\ r.comm \notin skipped => r.sizeOf = r.comm
      BY <1>1 DEF WaitInv, Waits, OwnTime, CommInv
  <2> QED BY <1>2, <1>3, <2>1, <2>2 DEF FlushFacts
<1>4. CASE mode # STATE_MONITOR /\ t = <<>>
  <2>1. Flushed(t) = <<>> /\ <<>> \in Seq(Rec)
      BY <1>4 DEF Flushed
  <2> QED BY <1>4, <2>1, CallsEmpty, ElemsEmpty DEF FlushFacts
<1>5. CASE mode # STATE_MONITOR /\ t # <<>>
  <2> DEFINE Timedrec(r) == [r EXCEPT !.dur = IF @ = {} THEN {t} ELSE @]
             F == [i \in DOMAIN buffer |-> Timedrec(buffer[i])]
  <2>1. Flushed(t) = F
      BY <1>5 DEF Flushed
  <2>2. t = <<timer, issued>> /\ t \in Nat \X Nat /\ t[1] = timer /\ t[2] = issued
      BY <1>5
  <2>3. mode = STATE_PROFILE
      BY <1>1, <1>5 DEF PTypes, Modes
  <2>4. ASSUME NEW r \in Rec
        PROVE  /\ Timedrec(r) \in Rec /\ Timedrec(r).calls = r.calls /\ Timedrec(r).op = r.op
               /\ Timedrec(r).comm = r.comm /\ Timedrec(r).sizeOf = r.sizeOf /\ Timedrec(r).from = r.from
               /\ r.dur = {} => Timedrec(r).dur = {t}
    <3> DEFINE D == IF r.dur = {} THEN {t} ELSE r.dur
    <3>1. D \in SUBSET (Nat \X Nat) /\ (r.dur = {} => D = {t})
        BY <2>2 DEF Rec
    <3>2. Timedrec(r) = [r EXCEPT !.dur = D]
        BY DEF Rec
    <3> HIDE DEF D, Timedrec
    <3> QED BY <3>1, <3>2 DEF Rec
  <2> HIDE DEF Timedrec
  <2>5. /\ DOMAIN buffer = 1 .. Len(buffer) /\ Len(buffer) \in Nat
        /\ \A i \in 1 .. Len(buffer) : buffer[i] \in Rec
      BY <1>2, RecCalls
  <2>6. F \in Seq(Rec) /\ Len(F) = Len(buffer) /\ DOMAIN F = DOMAIN buffer
        /\ \A i \in DOMAIN buffer : F[i] = Timedrec(buffer[i])
    <3>1. DOMAIN F = 1 .. Len(buffer) /\ \A i \in 1 .. Len(buffer) : F[i] \in Rec /\ F[i] = Timedrec(buffer[i])
        BY <2>4, <2>5
    <3>2. F \in [1 .. Len(buffer) -> Rec]
        BY <2>4, <2>5
    <3> HIDE DEF F
    <3> QED BY <2>5, <3>1, <3>2
  <2> HIDE DEF F
  <2>7. CallsOf(F) = CallsOf(buffer)
    <3>1. \A i \in 1 .. Len(F) : F[i].calls = buffer[i].calls
        BY <2>4, <2>5, <2>6
    <3> QED BY <1>2, <2>6, <3>1, CallsSame
  <2>8. ASSUME NEW i \in DOMAIN buffer, F[i].op = PLAIN
        PROVE  /\ 1 \in DOMAIN F[i].calls /\ (F[i].calls[1] \notin stranded => OwnTime(F[i]))
               /\ F[i].comm \notin skipped => F[i].sizeOf = F[i].comm
    <3> DEFINE r == buffer[i]
    <3>1. r \in Rec /\ r \in Elems(buffer)
        BY <2>5 DEF Elems
    <3>2. /\ F[i].calls = r.calls /\ F[i].op = r.op /\ F[i].comm = r.comm /\ F[i].sizeOf = r.sizeOf
          /\ F[i].from = r.from /\ (r.dur = {} => F[i].dur = {t})
        BY <2>4, <2>6, <3>1
    <3> HIDE DEF r
    <3>3. Waits(r) /\ (r.comm \notin skipped => r.sizeOf = r.comm)
        BY <1>1, <2>8, <3>1, <3>2 DEF WaitInv, CommInv
    <3>4. 1 \in DOMAIN r.calls /\ F[i].dur = {t}
        BY <3>2, <3>3 DEF Waits
    <3>5. r.calls[1] \in CallSet(Elems(buffer))
        BY <3>1, <3>4, FirstCallIn
    <3>6. r.calls[1] \in Nat /\ r.calls[1] <= issued
        BY <1>1, <1>2, <3>5 DEF IssuedInv
    <3>7. ASSUME r.calls[1] \notin stranded PROVE OwnTime(F[i])
      <4>1. depth > 0 /\ r.from = opening + 1 /\ timer <= r.calls[1]
          BY <2>3, <3>3, <3>7 DEF Waits
      <4>2. hasEvents /\ opening < timer
          BY <1>1, <2>3, <3>5, <3>7, <4>1 DEF GroupInv
      <4>3. r.from <= timer
          BY <1>2, <4>1, <4>2
      <4> QED BY <2>2, <3>2, <3>4, <3>6, <4>1, <4>3 DEF OwnTime
    <3> QED BY <3>2, <3>3, <3>4, <3>7
  <2>9. \A r \in Elems(F) : r.op = PLAIN =>
          /\ 1 \in DOMAIN r.calls /\ (r.calls[1] \notin stranded => OwnTime(r))
          /\ r.comm \notin skipped => r.sizeOf = r.comm
      BY <2>6, <2>8 DEF Elems
  <2> QED BY <1>5, <2>1, <2>6, <2>7, <2>9 DEF FlushFacts
<1> QED BY <1>3, <1>4, <1>5

(* The end of a group that writes its records and its communicator.        *)
LEMMA GroupEndFullInv ==
    ASSUME PInv, Closed, NEW t, GroupEndFull(t),
           t # <<>> => t = <<timer, issued>> /\ t \in Nat \X Nat /\ mode # STATE_MONITOR
    PROVE  PInv'
<1> DEFINE F == Flushed(t)
<1>1. /\ UNCHANGED <<timer, lastCall, lastComm, acc, accDur, stranded, skipped>>
      /\ logged' = logged \o F /\ buffer' = <<>> /\ inGroup' = FALSE /\ hasEvents' = FALSE
      /\ known' = known \cup ({commInGroup} \ {NoComm}) /\ commInGroup' = NoComm
      /\ mode' \in Modes \cup {mode}
    BY DEF GroupEndFull, LogCommInGroup, accVars
<1>2. PTypes /\ IssuedInv /\ AccInv /\ GroupInv /\ WaitInv /\ TimeInv /\ CommInv
    BY DEF PInv
<1>3. FlushFacts(t, F)
    BY FlushedIs
<1> HIDE DEF F
<1>4. logged' \in Seq(Rec) /\ Elems(logged') = Elems(logged) \cup Elems(F)
  <2>1. logged \in Seq(Rec) /\ F \in Seq(Rec)
      BY <1>2, <1>3 DEF PTypes, FlushFacts
  <2> QED BY <1>1, <2>1, ElemsConcat
<1>5. Elems(buffer') = {} /\ CallSet(Elems(buffer')) = {} /\ buffer' \in Seq(Rec)
  <2>1. CallSet({}) = {} /\ <<>> \in Seq(Rec)
      BY DEF CallSet
  <2> QED BY <1>1, <2>1, ElemsEmpty
<1>6. PTypes'
  <2>1. depth' \in Nat /\ opening' \in Nat /\ issued' = issued /\ opening' <= issued' /\ created' = created
      BY <1>2 DEF PTypes, Closed
  <2>2. mode' \in Modes /\ inGroup' \in BOOLEAN /\ hasEvents' \in BOOLEAN
      BY <1>1, <1>2 DEF PTypes
  <2>3. known' \subseteq Comms /\ commInGroup' \in Comms \cup {NoComm}
      BY <1>1, <1>2 DEF PTypes
  <2> QED BY <1>1, <1>2, <1>4, <1>5, <2>1, <2>2, <2>3 DEF PTypes
<1>7. IssuedInv'
  <2>1. issued' = issued
      BY DEF Closed
  <2> QED BY <1>1, <1>2, <1>5, <2>1 DEF IssuedInv
<1>8. AccInv'
    BY <1>1, <1>2 DEF AccInv
<1>9. GroupInv'
    BY <1>1, <1>5 DEF GroupInv
<1>10. WaitInv'
    BY <1>5 DEF WaitInv
<1>11. TimeInv'
  <2> SUFFICES ASSUME NEW r \in Elems(logged'), r.op = PLAIN
               PROVE  1 \in DOMAIN r.calls /\ (r.calls[1] \notin stranded => OwnTime(r))
      BY <1>1 DEF TimeInv, OwnTime
  <2>1. CASE r \in Elems(logged)
      BY <1>2, <2>1 DEF TimeInv
  <2>2. CASE r \in Elems(F)
      BY <1>3, <2>2 DEF FlushFacts
  <2> QED BY <1>4, <2>1, <2>2
<1>12. CommInv'
  <2>1. created' = created /\ (ready' = created \/ ready' = ready) /\ NoComm \notin created
      BY <1>2, ProbeAssumption DEF Closed, PTypes
  <2>2. created \subseteq known' \cup skipped
      BY <1>1, <1>2, <2>1 DEF CommInv
  <2>3. ready' \subseteq known' \cup skipped
      BY <1>1, <1>2, <2>1, <2>2 DEF CommInv
  <2>4. \A r \in Elems(buffer') \cup Elems(logged') : r.op = PLAIN /\ r.comm \notin skipped => r.sizeOf = r.comm
      BY <1>2, <1>3, <1>4, <1>5 DEF CommInv, FlushFacts
  <2> QED BY <1>1, <2>1, <2>2, <2>3, <2>4 DEF CommInv
<1> QED BY <1>6, <1>7, <1>8, <1>9, <1>10, <1>11, <1>12 DEF PInv

(* What a group's end amounts to.                                          *)
LEMMA GroupEndIs ==
    ASSUME PInv, GroupEnd
    PROVE  Closed /\ \E t :
              /\ t # <<>> => t = <<timer, issued>> /\ t \in Nat \X Nat /\ mode # STATE_MONITOR
              /\ (mode = STATE_PROFILE /\ hasEvents) => t = <<timer, issued>>
              /\ (t # <<>> /\ GroupEndCompressed(t)) \/ GroupEndFull(t)
<1>1. depth \in Nat
    BY DEF PInv, PTypes
<1>2. Closed
    BY <1>1 DEF GroupEnd, Closed
<1> DEFINE t == Measured(inGroup, hasEvents, timer)
<1>3. (t # <<>> /\ GroupEndCompressed(t)) \/ GroupEndFull(t)
    BY DEF GroupEnd
<1>4. issued' = issued
    BY DEF GroupEnd
<1> HIDE DEF t
<1>5. t = Measured(inGroup, hasEvents, timer)
    BY DEF t
<1>6. /\ t # <<>> => t = <<timer, issued>> /\ t \in Nat \X Nat /\ mode # STATE_MONITOR
      /\ (mode = STATE_PROFILE /\ hasEvents) => t = <<timer, issued>>
    BY <1>4, <1>5, MeasuredIs
<1> QED BY <1>2, <1>3, <1>6

(* The end of a group keeps the invariant, on either path.                 *)
LEMMA GroupEndInv ==
    ASSUME PInv, GroupEnd
    PROVE  PInv'
<1>1. Closed
    BY GroupEndIs
<1>2. PICK t :
         /\ t # <<>> => t = <<timer, issued>> /\ t \in Nat \X Nat /\ mode # STATE_MONITOR
         /\ (t # <<>> /\ GroupEndCompressed(t)) \/ GroupEndFull(t)
    BY GroupEndIs
<1>3. CASE t # <<>> /\ GroupEndCompressed(t)
    BY <1>1, <1>2, <1>3, GroupEndCompressedInv
<1>4. CASE GroupEndFull(t)
    BY <1>1, <1>2, <1>4, GroupEndFullInv
<1> QED BY <1>2, <1>3, <1>4

(* The invariant holds in every state of the probe: what the records of    *)
(* log_event(), the buffer of a group, its events and the communicators    *)
(* have to do with each other.                                             *)
THEOREM PInvInductive == Spec => []PInv
<1>1. PInv /\ [Next]_vars => PInv'
  <2> SUFFICES ASSUME PInv, [Next]_vars PROVE PInv'
      OBVIOUS
  <2>1. CASE \E op \in Ops, comm \in Comms : Call(op, comm)
      BY <2>1, CallInv
  <2>2. CASE CheckRequest \/ UNCHANGED vars
      BY <2>2, QuietInv
  <2>3. CASE \E comm \in Comms : CommInitRank(comm)
      BY <2>3, CommInitInv
  <2>4. CASE GroupStart
      BY <2>4, GroupStartInv
  <2>5. CASE GroupEnd
      BY <2>5, GroupEndInv
  <2> QED BY <2>1, <2>2, <2>3, <2>4, <2>5 DEF Next
<1> QED BY <1>1, ProbeInit, PTL DEF Spec

(* A duration written to the record of one call was measured from a call   *)
(* of its own group up to its own or a later call, whatever groups,        *)
(* accumulations and mode switches lie between add_timing_event() and the  *)
(* end of the group.                                                       *)
THEOREM DurationsOwn == Spec => []OwnDuration
<1>1. PInv => OwnDuration
    BY DEF PInv, TimeInv, Elems, OwnTime, OwnDuration
<1> QED BY <1>1, PInvInductive, PTL

(* One list of compressed records and their ends after another.            *)
LEMMA FollowedConcat ==
    ASSUME NEW q \in Seq(Rec), NEW s \in Seq(Rec), Followed(q), Followed(s)
    PROVE  Followed(q \o s)
<1> DEFINE b == q \o s
<1>1. /\ Len(b) = Len(q) + Len(s) /\ DOMAIN b = 1 .. Len(b)
      /\ \A i \in 1 .. Len(q) + Len(s) : b[i] = IF i <= Len(q) THEN q[i] ELSE s[i - Len(q)]
  <2>1. b \in Seq(Rec)
      OBVIOUS
  <2> QED BY <2>1, ConcatProperties
<1>2. /\ DOMAIN q = 1 .. Len(q) /\ DOMAIN s = 1 .. Len(s)
      /\ Len(q) \in Nat /\ Len(s) \in Nat
    OBVIOUS
<1> HIDE DEF b
<1>3. ASSUME NEW i \in DOMAIN b, b[i].op # PLAIN
      PROVE  i + 1 \in DOMAIN b /\ b[i + 1].op = PLAIN /\ b[i].sizeOf = b[i + 1].sizeOf
  <2>1. CASE i <= Len(q)
    <3>1. i \in DOMAIN q /\ b[i] = q[i]
        BY <1>1, <1>2, <1>3, <2>1
    <3>2. i + 1 \in DOMAIN q /\ q[i + 1].op = PLAIN /\ q[i].sizeOf = q[i + 1].sizeOf
        BY <1>3, <3>1 DEF Followed
    <3>3. i + 1 \in 1 .. Len(q) + Len(s) /\ i + 1 <= Len(q)
        BY <1>2, <3>2
    <3>4. b[i + 1] = q[i + 1] /\ i + 1 \in DOMAIN b
        BY <1>1, <3>3
    <3> QED BY <3>1, <3>2, <3>4
  <2>2. CASE ~ (i <= Len(q))
    <3> DEFINE k == i - Len(q)
    <3>1. k \in DOMAIN s /\ b[i] = s[k] /\ i \in Int
        BY <1>1, <1>2, <1>3, <2>2
    <3>2. k + 1 \in DOMAIN s /\ s[k + 1].op = PLAIN /\ s[k].sizeOf = s[k + 1].sizeOf
      <4> HIDE DEF k
      <4> QED BY <1>3, <3>1 DEF Followed
    <3>3. i + 1 \in 1 .. Len(q) + Len(s) /\ ~ (i + 1 <= Len(q)) /\ (i + 1) - Len(q) = k + 1
        BY <1>2, <2>2, <3>1, <3>2
    <3>4. b[i + 1] = s[k + 1] /\ i + 1 \in DOMAIN b
        BY <1>1, <3>3
    <3> HIDE DEF k
    <3> QED BY <3>1, <3>2, <3>4
  <2> QED BY <2>1, <2>2
<1> QED BY <1>3 DEF Followed, b

FollowedInv == Followed(buffer) /\ Followed(logged)

(* Neither the buffer of a group nor its end parts a compressed record     *)
(* from the record of the call that ended it.                              *)
LEMMA FollowedStep == PInv /\ FollowedInv /\ [Next]_vars => FollowedInv'
<1> SUFFICES ASSUME PInv, FollowedInv, [Next]_vars PROVE FollowedInv'
    OBVIOUS
<1>1. buffer \in Seq(Rec) /\ logged \in Seq(Rec) /\ inGroup \in BOOLEAN
    BY DEF PInv, PTypes
<1>2. ASSUME UNCHANGED recordVars PROVE FollowedInv'
    BY <1>2 DEF FollowedInv, Followed, recordVars
<1>3. ASSUME NEW op \in Ops, NEW comm \in Comms, Call(op, comm) PROVE FollowedInv'
  <2>1. /\ comm \in ready /\ issued' = issued + 1 /\ add_timing_event(op) /\ log_event(op, comm)
      BY <1>3 DEF Call
  <2>2. CASE can_compress(op)
      BY <1>2, <2>1, <2>2 DEF log_event
  <2>3. CASE ~ can_compress(op)
    <3>1. Timed
        BY <2>1, TimingIs
    <3>2. PICK recs : PlainFacts(recs, comm)
        BY <2>1, <2>3, <3>1, PlainCallIs
    <3>3. recs \in Seq(Rec) /\ Followed(recs) /\ Emit(recs)
        BY <3>2 DEF PlainFacts
    <3>4. Followed(buffer \o recs) /\ Followed(logged \o recs)
        BY <1>1, <3>3, FollowedConcat DEF FollowedInv
    <3>5. (buffer' = buffer \o recs /\ logged' = logged) \/ (buffer' = buffer /\ logged' = logged \o recs)
        BY <3>3 DEF Emit
    <3> QED BY <3>4, <3>5 DEF FollowedInv
  <2> QED BY <2>2, <2>3
<1>4. CASE GroupEnd
  <2>1. PICK t :
           /\ t # <<>> => t = <<timer, issued>> /\ t \in Nat \X Nat /\ mode # STATE_MONITOR
           /\ (t # <<>> /\ GroupEndCompressed(t)) \/ GroupEndFull(t)
      BY <1>4, GroupEndIs
  <2>2. CASE GroupEndCompressed(t)
      BY <1>2, <2>2 DEF GroupEndCompressed
  <2>3. CASE GroupEndFull(t)
    <3>1. logged' = logged \o Flushed(t) /\ buffer' = <<>>
        BY <2>3 DEF GroupEndFull
    <3>2. Flushed(t) \in Seq(Rec)
        BY <2>1, FlushedIs DEF FlushFacts
    <3>3. Followed(Flushed(t))
      <4>1. CASE mode = STATE_MONITOR
          BY <4>1 DEF Flushed, FollowedInv
      <4>2. CASE mode # STATE_MONITOR /\ t = <<>>
          BY <4>2 DEF Flushed, Followed
      <4>3. CASE mode # STATE_MONITOR /\ t # <<>>
        <5> DEFINE G == Flushed(t)
        <5>1. DOMAIN G = DOMAIN buffer
            BY <4>3 DEF Flushed
        <5>2. \A i \in DOMAIN buffer : G[i].op = buffer[i].op /\ G[i].sizeOf = buffer[i].sizeOf
          <6> SUFFICES ASSUME NEW i \in DOMAIN buffer
                       PROVE  G[i].op = buffer[i].op /\ G[i].sizeOf = buffer[i].sizeOf
              OBVIOUS
          <6>1. buffer[i] \in Rec
              BY <1>1
          <6>2. G[i] = [buffer[i] EXCEPT !.dur = IF @ = {} THEN {t} ELSE @]
              BY <4>3 DEF Flushed
          <6> HIDE DEF G
          <6> QED BY <6>1, <6>2 DEF Rec
        <5> HIDE DEF G
        <5>3. Followed(buffer)
            BY DEF FollowedInv
        <5>4. Followed(G)
            BY <5>1, <5>2, <5>3 DEF Followed
        <5> QED BY <5>4 DEF G
      <4> QED BY <4>1, <4>2, <4>3
    <3>4. Followed(logged \o Flushed(t))
        BY <1>1, <3>2, <3>3, FollowedConcat DEF FollowedInv
    <3>5. Followed(<<>>)
        BY DEF Followed
    <3> QED BY <3>1, <3>4, <3>5 DEF FollowedInv
  <2> QED BY <2>1, <2>2, <2>3
<1>5. CASE CheckRequest \/ GroupStart \/ (\E comm \in Comms : CommInitRank(comm)) \/ UNCHANGED vars
    BY <1>2, <1>5 DEF CheckRequest, GroupStart, CommInitRank, vars
<1> QED BY <1>3, <1>4, <1>5 DEF Next

(* The record of a single call is written with the size of its own         *)
(* communicator, unless comm_in_group lost that communicator before the    *)
(* end of its group; a compressed record is written with the size that the *)
(* record after it has, which is that of the call which ended it.          *)
THEOREM SizesKnown == Spec => []SizeIsKnown
<1>1. Init => FollowedInv
    BY DEF Init, FollowedInv, Followed
<1>2. Spec => []FollowedInv
    BY <1>1, PInvInductive, FollowedStep, PTL DEF Spec
<1>3. PInv /\ FollowedInv => SizeIsKnown
    BY DEF PInv, CommInv, Elems, FollowedInv, Followed, SizeIsKnown
<1> QED BY <1>2, <1>3, PInvInductive, PTL

-----------------------------------------------------------------------------
(* The probe implements CallLog.                                           *)

Pending == CallsOf(buffer) \o acc
Published == CallsOf(logged)

(* The calls held and published are lists of numbers.                      *)
LEMMA CallsHeld ==
    ASSUME PInv
    PROVE  /\ CallsOf(buffer) \in Seq(Nat) /\ acc \in Seq(Nat)
           /\ Pending \in Seq(Nat) /\ Published \in Seq(Nat)
<1>1. buffer \in Seq(Rec) /\ logged \in Seq(Rec) /\ acc \in Seq(Nat)
    BY DEF PInv, PTypes
<1>2. CallsOf(buffer) \in Seq(Nat) /\ CallsOf(logged) \in Seq(Nat)
    BY <1>1, CallsTyped
<1> DEFINE c == CallsOf(buffer)
<1> HIDE DEF c
<1>3. c \in Seq(Nat)
    BY <1>2 DEF c
<1>4. c \o acc \in Seq(Nat)
    BY <1>1, <1>3
<1> QED BY <1>1, <1>2, <1>4 DEF Pending, Published, c

(* Perhaps a new call, then the calls of out published and those of rest   *)
(* still pending.                                                          *)
LEMMA RecordStep ==
    ASSUME NEW new \in Seq(Nat), NEW out \in Seq(Nat), NEW rest \in Seq(Nat),
           Pending \o new = out \o rest, issued' = issued + Len(new),
           Published' = Published \o out, Pending' = rest
    PROVE  Log!Record(new)
<1> DEFINE all == Pending \o new
           k == Len(out)
<1>1. all = out \o rest
    OBVIOUS
<1> HIDE DEF all
<1>2. k \in 0 .. Len(all) /\ SubSeq(all, 1, k) = out /\ SubSeq(all, k + 1, Len(all)) = rest
  <2>1. Len(out \o rest) = Len(out) + Len(rest) /\ Len(out) \in Nat /\ Len(rest) \in Nat
      OBVIOUS
  <2>2. SubSeq(out \o rest, 1, Len(out)) = out
      OBVIOUS
  <2>3. SubSeq(out \o rest, Len(out) + 1, Len(out) + Len(rest)) = rest
      OBVIOUS
  <2>4. Len(all) = Len(out) + Len(rest) /\ k \in 0 .. Len(all)
      BY <1>1, <2>1
  <2> QED BY <1>1, <2>2, <2>3, <2>4
<1> HIDE DEF k
<1>3. \E j \in 0 .. Len(all) :
         /\ Published' = Published \o SubSeq(all, 1, j)
         /\ Pending' = SubSeq(all, j + 1, Len(all))
    BY <1>2
<1> QED BY <1>3 DEF Log!Record, Pending, Published, all

(* The calls of out, all stranded, dropped.                                *)
LEMMA LoseStep ==
    ASSUME NEW out \in Seq(Nat), NEW rest \in Seq(Nat), out # <<>>,
           Pending = out \o rest, \A i \in 1 .. Len(out) : out[i] \in stranded,
           issued' = issued, Published' = Published, Pending' = rest
    PROVE  Log!Lose
<1> DEFINE p == Pending
           k == Len(out)
<1>1. p = out \o rest
    OBVIOUS
<1> HIDE DEF p
<1>2. k \in 1 .. Len(p) /\ \A i \in 1 .. k : p[i] \in stranded
  <2>1. /\ Len(out \o rest) = Len(out) + Len(rest) /\ Len(out) \in Nat \ {0} /\ Len(rest) \in Nat
        /\ \A i \in 1 .. Len(out) : (out \o rest)[i] = out[i]
      OBVIOUS
  <2> QED BY <1>1, <2>1
<1>3. SubSeq(p, k + 1, Len(p)) = rest
  <2>1. Len(out \o rest) = Len(out) + Len(rest)
      OBVIOUS
  <2>2. SubSeq(out \o rest, Len(out) + 1, Len(out) + Len(rest)) = rest
      OBVIOUS
  <2> QED BY <1>1, <2>1, <2>2
<1> HIDE DEF k
<1>4. \E j \in 1 .. Len(p) : /\ \A i \in 1 .. j : p[i] \in stranded
                             /\ Pending' = SubSeq(p, j + 1, Len(p))
    BY <1>2, <1>3
<1> QED BY <1>4 DEF Log!Lose, Pending, Published, p

(* A recorded call is taken, and outside a group everything is published.  *)
LEMMA CallRecords ==
    ASSUME PInv, NEW op \in Ops, NEW comm \in Comms, Call(op, comm)
    PROVE  Log!Record(<<issued + 1>>)
<1>1. /\ issued' = issued + 1 /\ comm \in ready /\ add_timing_event(op) /\ log_event(op, comm)
    BY DEF Call
<1>2. Timed
    BY <1>1, TimingIs
<1>3. /\ issued \in Nat /\ buffer \in Seq(Rec) /\ logged \in Seq(Rec) /\ acc \in Seq(Nat)
      /\ inGroup \in BOOLEAN
    BY DEF PInv, PTypes
<1> DEFINE new == <<issued + 1>>
           c == CallsOf(buffer)
           p == Pending
           l == Published
<1>4. new \in Seq(Nat) /\ Len(new) = 1 /\ new = <<issued'>>
    BY <1>1, <1>3
<1>5. c \in Seq(Nat) /\ p \in Seq(Nat) /\ l \in Seq(Nat) /\ p = c \o acc
    BY CallsHeld DEF Pending
<1> HIDE DEF new, c, p, l
<1>6. p \o new \in Seq(Nat) /\ <<>> \in Seq(Nat) /\ p \o new = c \o (acc \o new)
      /\ l \o <<>> = l /\ p \o new = <<>> \o (p \o new) /\ p \o new = (p \o new) \o <<>>
  <2>1. <<>> \in Seq(Nat) /\ l \o <<>> = l
      BY <1>5
  <2>2. p \o new \in Seq(Nat)
      BY <1>4, <1>5
  <2>a. c \in Seq(Nat) /\ acc \in Seq(Nat) /\ new \in Seq(Nat)
      BY <1>3, <1>4, <1>5
  <2>3. (c \o acc) \o new = c \o (acc \o new)
      BY <2>a, SMTT(30)
  <2> DEFINE all == p \o new
  <2>4. all \in Seq(Nat)
      BY <2>2
  <2> HIDE DEF all
  <2>5. all = <<>> \o all /\ all = all \o <<>>
      BY <2>4
  <2> QED BY <1>5, <2>1, <2>2, <2>3, <2>5 DEF all
<1>7. issued' = issued + Len(new)
    BY <1>1, <1>4
<1>8. CASE Pending' = p \o new /\ Published' = l
  <2> DEFINE rest == p \o new
             out == <<>>
  <2>1. rest \in Seq(Nat) /\ out \in Seq(Nat) /\ Pending \o new = out \o rest
      BY <1>6 DEF p
  <2>2. Published' = Published \o out /\ Pending' = rest
      BY <1>6, <1>8 DEF l
  <2> HIDE DEF rest, out
  <2>3. Log!Record(new)
      BY <1>4, <1>7, <2>1, <2>2, RecordStep
  <2> QED BY <2>3 DEF new
<1>9. CASE Pending' = <<>> /\ Published' = l \o (p \o new)
  <2> DEFINE out == p \o new
             rest == <<>>
  <2>1. rest \in Seq(Nat) /\ out \in Seq(Nat) /\ Pending \o new = out \o rest
      BY <1>6 DEF p
  <2>2. Published' = Published \o out /\ Pending' = rest
      BY <1>9 DEF l
  <2> HIDE DEF rest, out
  <2>3. Log!Record(new)
      BY <1>4, <1>7, <2>1, <2>2, RecordStep
  <2> QED BY <2>3 DEF new
<1>10. CASE can_compress(op)
  <2>1. acc' = Append(acc, issued') /\ buffer' = buffer /\ logged' = logged
      BY <1>10, <1>1 DEF log_event, recordVars
  <2>2. acc' = acc \o new
      BY <1>1, <1>3, <1>4, <2>1
  <2>3. Pending' = c \o (acc \o new) /\ Published' = l
      BY <2>1, <2>2 DEF Pending, Published, c, l
  <2> QED BY <1>6, <1>8, <2>3
<1>11. CASE ~ can_compress(op)
  <2>1. PICK recs : PlainFacts(recs, comm)
      BY <1>1, <1>2, <1>11, PlainCallIs
  <2>2. recs \in Seq(Rec) /\ Emit(recs) /\ CallsOf(recs) = acc \o new /\ acc' = <<>>
      BY <1>4, <2>1 DEF PlainFacts
  <2>3. CASE inGroup
    <3>1. buffer' = buffer \o recs /\ logged' = logged
        BY <2>2, <2>3 DEF Emit
    <3>2. CallsOf(buffer \o recs) = c \o (acc \o new)
        BY <1>3, <2>2, CallsConcat DEF c
    <3>3. Pending' = (p \o new) \o <<>> /\ Published' = l
        BY <1>6, <2>2, <3>1, <3>2 DEF Pending, Published, l
    <3> QED BY <1>6, <1>8, <3>3
  <2>4. CASE ~ inGroup
    <3>1. buffer' = buffer /\ logged' = logged \o recs /\ buffer = <<>>
        BY <2>2, <2>4 DEF Emit, PInv, GroupInv
    <3>2. c = <<>>
        BY <3>1, CallsEmpty DEF c
    <3>3. p = acc
        BY <1>3, <1>5, <3>2
    <3>4. CallsOf(logged \o recs) = l \o (acc \o new)
        BY <1>3, <2>2, CallsConcat DEF l, Published
    <3>5. <<>> \o <<>> = <<>>
        OBVIOUS
    <3>6. Pending' = <<>>
        BY <2>2, <3>1, <3>5, CallsEmpty DEF Pending
    <3>7. Published' = l \o (p \o new)
        BY <3>1, <3>3, <3>4 DEF Published
    <3> QED BY <1>9, <3>6, <3>7
  <2> QED BY <1>3, <2>3, <2>4
<1> QED BY <1>10, <1>11

(* A step that moves no call.                                              *)
LEMMA NoRecord ==
    ASSUME PInv, UNCHANGED <<issued, buffer, acc, logged>>
    PROVE  Log!Record(<<>>)
<1> DEFINE out == <<>>
           rest == Pending
<1>1. Pending \in Seq(Nat) /\ Published \in Seq(Nat) /\ issued \in Nat
    BY CallsHeld DEF PInv, PTypes
<1> DEFINE p == Pending
           l == Published
<1> HIDE DEF p, l
<1>2. p \o <<>> = <<>> \o p /\ l \o <<>> = l
    BY <1>1 DEF p, l
<1>3. Pending' = Pending /\ Published' = Published
    BY DEF Pending, Published
<1>4. <<>> \in Seq(Nat) /\ Len(<<>>) = 0 /\ issued + 0 = issued
    BY <1>1
<1>5. Pending \o <<>> = out \o rest /\ Published' = Published \o out /\ Pending' = rest /\ out \in Seq(Nat)
    BY <1>2, <1>3, <1>4 DEF p, l
<1>6. issued' = issued + Len(<<>>)
    BY <1>4
<1> HIDE DEF out
<1> QED BY <1>1, <1>4, <1>5, <1>6, RecordStep

(* The end of a group publishes the calls of the buffer, or drops calls    *)
(* that were all stranded.                                                 *)
LEMMA GroupEndFullRecords ==
    ASSUME PInv, issued' = issued, NEW t, GroupEndFull(t),
           t # <<>> => t = <<timer, issued>> /\ t \in Nat \X Nat /\ mode # STATE_MONITOR,
           (mode = STATE_PROFILE /\ hasEvents) => t = <<timer, issued>>
    PROVE  Log!Record(<<>>) \/ Log!Lose
<1> DEFINE F == Flushed(t)
           c == CallsOf(buffer)
           p == Pending
           l == Published
<1>1. logged' = logged \o F /\ buffer' = <<>> /\ acc' = acc
    BY DEF GroupEndFull, accVars
<1>2. FlushFacts(t, F)
    BY FlushedIs
<1>3. F \in Seq(Rec) /\ logged \in Seq(Rec) /\ buffer \in Seq(Rec) /\ acc \in Seq(Nat) /\ issued \in Nat
    BY <1>2 DEF FlushFacts, PInv, PTypes
<1>4. c \in Seq(Nat) /\ p \in Seq(Nat) /\ l \in Seq(Nat) /\ p = c \o acc
    BY CallsHeld DEF Pending
<1> HIDE DEF F, c, p, l
<1>5. CallsOf(logged \o F) = l \o CallsOf(F)
    BY <1>3, CallsConcat DEF l, Published
<1>6. Published' = l \o CallsOf(F)
    BY <1>1, <1>5 DEF Published
<1>7. Pending' = acc
  <2>1. <<>> \o acc = acc
      BY <1>3
  <2> QED BY <1>1, <2>1, CallsEmpty DEF Pending
<1>8. <<>> \in Seq(Nat) /\ Len(<<>>) = 0 /\ issued + 0 = issued /\ p \o <<>> = c \o acc /\ l \o <<>> = l
    BY <1>3, <1>4
<1>9. issued' = issued + Len(<<>>)
    BY <1>8
<1>10. CASE CallsOf(F) = c
  <2>1. Published' = Published \o c
      BY <1>6, <1>10 DEF l
  <2>2. Pending \o <<>> = c \o acc
      BY <1>8 DEF p
  <2>3. Log!Record(<<>>)
      BY <1>3, <1>4, <1>7, <1>8, <1>9, <2>1, <2>2, RecordStep
  <2> QED BY <2>3
<1>11. CASE CallsOf(F) # c
  <2>1. mode # STATE_MONITOR /\ t = <<>> /\ CallsOf(F) = <<>>
      BY <1>2, <1>11 DEF FlushFacts, c
  <2>2. Published' = Published /\ c # <<>>
      BY <1>6, <1>8, <1>11, <2>1 DEF l
  <2>3. mode = STATE_PROFILE /\ <<timer, issued>> # <<>>
      BY <2>1 DEF PInv, PTypes, Modes
  <2>4. ~ hasEvents
      BY <2>1, <2>3
  <2>5. \A e \in CallSet(Elems(buffer)) : e \in stranded
      BY <2>3, <2>4 DEF PInv, GroupInv
  <2>6. ASSUME NEW i \in 1 .. Len(c) PROVE c[i] \in stranded
    <3>1. \E j \in DOMAIN buffer : \E k \in DOMAIN buffer[j].calls : c[i] = buffer[j].calls[k]
        BY <1>3, <2>6, CallsComeFrom DEF c
    <3>2. c[i] \in CallSet(Elems(buffer))
        BY <3>1 DEF CallSet, Elems
    <3> QED BY <2>5, <3>2
  <2>7. Pending = c \o acc
      BY <1>4 DEF p
  <2>8. Log!Lose
      BY <1>3, <1>4, <1>7, <2>2, <2>6, <2>7, LoseStep
  <2> QED BY <2>8
<1> QED BY <1>10, <1>11

(* Every step is a step of CallLog, or leaves all it talks about alone.    *)
LEMMA ProbeStep ==
    ASSUME PInv, PInv', [Next]_vars
    PROVE  [Log!Next]_(Log!vars)
<1>1. stranded' \subseteq 1 .. issued'
    BY DEF PInv, IssuedInv
<1>2. CASE \E op \in Ops, comm \in Comms : Call(op, comm)
  <2>1. PICK op \in Ops, comm \in Comms : Call(op, comm)
      BY <1>2
  <2>2. stranded \subseteq stranded'
      BY <2>1 DEF Call
  <2>3. Log!Record(<<issued + 1>>)
      BY <2>1, CallRecords
  <2> QED BY <1>1, <2>2, <2>3 DEF Log!Next
<1>3. CASE CheckRequest \/ UNCHANGED vars \/ \E comm \in Comms : CommInitRank(comm)
  <2>1. UNCHANGED <<issued, buffer, acc, logged, stranded>>
      BY <1>3 DEF CheckRequest, CommInitRank, vars, accVars, recordVars
  <2>2. UNCHANGED Log!vars
      BY <2>1 DEF Log!vars
  <2> QED BY <2>2
<1>4. CASE GroupStart
  <2>1. UNCHANGED <<issued, buffer, acc, logged>> /\ stranded \subseteq stranded'
      BY <1>4 DEF GroupStart, accVars, recordVars
  <2> QED BY <1>1, <2>1, NoRecord DEF Log!Next
<1>5. CASE GroupEnd
  <2>1. issued' = issued
      BY <1>5 DEF GroupEnd
  <2>2. PICK t :
          /\ t # <<>> => t = <<timer, issued>> /\ t \in Nat \X Nat /\ mode # STATE_MONITOR
          /\ (mode = STATE_PROFILE /\ hasEvents) => t = <<timer, issued>>
          /\ (t # <<>> /\ GroupEndCompressed(t)) \/ GroupEndFull(t)
      BY <1>5, GroupEndIs
  <2>3. CASE GroupEndCompressed(t)
    <3>1. UNCHANGED <<issued, buffer, acc, logged>> /\ stranded \subseteq stranded'
        BY <2>1, <2>3 DEF GroupEndCompressed, recordVars
    <3> QED BY <1>1, <3>1, NoRecord DEF Log!Next
  <2>4. CASE GroupEndFull(t)
    <3>1. stranded' = stranded
        BY <2>4 DEF GroupEndFull
    <3>2. Log!Record(<<>>) \/ Log!Lose
        BY <2>1, <2>2, <2>4, GroupEndFullRecords
    <3> QED BY <1>1, <3>1, <3>2 DEF Log!Next
  <2> QED BY <2>2, <2>3, <2>4
<1> QED BY <1>2, <1>3, <1>4, <1>5 DEF Next

(* The probe starts as CallLog does.                                       *)
LEMMA ProbeStart == Init => Log!Init
<1>1. <<>> \o <<>> = <<>>
    OBVIOUS
<1> QED BY <1>1, CallsEmpty DEF Init, Log!Init

(* Through compression, group buffers, mode switches and early returns,    *)
(* the records reach the ring in the order of the calls and at most once,  *)
(* and the end of a group only ever drops calls of a group that an early   *)
(* return left open or a nested GroupStart reopened.                       *)
THEOREM ProbeImplementsCallLog == Spec => Refines
<1>1. PInv /\ PInv' /\ [Next]_vars => [Log!Next]_(Log!vars)
    BY ProbeStep
<1> QED BY <1>1, ProbeStart, PInvInductive, PTL DEF Spec, Refines, Log!Spec
=============================================================================
