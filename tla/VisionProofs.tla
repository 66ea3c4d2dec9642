---------------------------- MODULE VisionProofs ----------------------------
(***************************************************************************)
(* Theorems about the vision server, for every number of clients, auctions *)
(* and other tasks: what the operations of its heap keep, where an auction *)
(* and its work are, and what is written down of an image.                 *)
(***************************************************************************)
EXTENDS VisionAuctions, VisionRecords, FiniteSetTheorems, SequenceTheorems,
        WellFoundedInduction, TLAPS

-----------------------------------------------------------------------------
(* Induction over numbers, stated about sets of them.                      *)

Below == {ss \in Nat \X Nat : ss[1] < ss[2]}

LEMMA BelowIsWellFounded == IsWellFoundedOn(Below, Nat)
<1>1. OpToRel(<, Nat) = Below
  BY DEF OpToRel, Below
<1>2. QED
  BY <1>1, NatLessThanWellFounded

\* Induction: a set with 0 and the successor of each of its numbers has all.
LEMMA NaturalsFromZero ==
  ASSUME NEW S, 0 \in S, \A n \in Nat : n \in S => n + 1 \in S
  PROVE  Nat \subseteq S
<1> DEFINE T == Nat \ S
<1>1. SUFFICES ASSUME T # {} PROVE FALSE
  OBVIOUS
<1>2. T \subseteq Nat
  OBVIOUS
<1>3. PICK x \in T : \A y \in T : ~(<<y, x>> \in Below)
  <2> HIDE DEF T
  <2>1. QED
    BY <1>1, <1>2, BelowIsWellFounded, WFMin
<1>4. x # 0 /\ x \in Nat /\ x - 1 \in Nat /\ x - 1 < x /\ x = (x - 1) + 1
  OBVIOUS
<1>5. <<x - 1, x>> \in Below
  BY <1>4 DEF Below
<1>6. x - 1 \in T
  BY <1>4
<1>7. QED
  BY <1>3, <1>5, <1>6

\* Induction from n down to 1.
LEMMA NaturalsDownwards ==
  ASSUME NEW n \in Nat, NEW S, S \subseteq 1 .. n,
         \A i \in 1 .. n : (\A j \in i + 1 .. n : j \in S) => i \in S
  PROVE  1 .. n \subseteq S
<1> DEFINE T == {k \in Nat : \A i \in 1 .. n : i > n - k => i \in S}
<1>1. 0 \in T
  OBVIOUS
<1>2. ASSUME NEW k \in Nat, k \in T PROVE k + 1 \in T
  <2>1. SUFFICES ASSUME NEW i \in 1 .. n, i > n - (k + 1) PROVE i \in S
    OBVIOUS
  <2>2. \A j \in i + 1 .. n : j \in 1 .. n /\ j > n - k
    BY <2>1
  <2>3. \A j \in i + 1 .. n : j \in S
    BY <2>2, <1>2
  <2>4. QED
    BY <2>3
<1>3. Nat \subseteq T
  <2> HIDE DEF T
  <2>1. QED
    BY <1>1, <1>2, NaturalsFromZero
<1>4. n \in T
  BY <1>3
<1>5. QED
  BY <1>4

-----------------------------------------------------------------------------
(* The heap: what it does to a list is to put its items in another order.  *)

\* q says where the items of new were in old.
Reorders(q, new, old) ==
  /\ q \in Injection(1 .. Len(old), 1 .. Len(old))
  /\ new = [i \in 1 .. Len(old) |-> old[q[i]]]

\* r tells which positions the item at pos gets to.
Reaches(r, heap, pos) ==
  r = [i \in 1 .. Len(heap) |->
        \/ i = pos
        \/ \E child \in {2 * i, 2 * i + 1} :
             child <= Len(heap) /\ r[child] /\ Climbs(heap, pos, child)]

LEMMA ReachesExists ==
  ASSUME NEW heap, Len(heap) \in Nat, NEW pos
  PROVE  \E r : Reaches(r, heap, pos)
<1> DEFINE n == Len(heap)
           Value(f, i) == \/ i = pos
                          \/ \E child \in {2 * i, 2 * i + 1} :
                               child <= n /\ f[child] /\ Climbs(heap, pos, child)
           From(k) == {i \in 1 .. n : i > n - k}
           Part(f, k) == f = [i \in From(k) |-> Value(f, i)]
           T == {k \in Nat : \E f : Part(f, k)}
<1>1. 0 \in T
  <2>1. Part(<<>>, 0)
    <3>1. From(0) = {}
      OBVIOUS
    <3>2. QED
      BY <3>1
  <2>2. QED
    BY <2>1
<1>2. ASSUME NEW k \in Nat, k \in T PROVE k + 1 \in T
  <2>1. PICK f : Part(f, k)
    BY <1>2
  <2> DEFINE g == [i \in From(k + 1) |-> IF i \in From(k) THEN f[i] ELSE Value(f, i)]
  <2>2. ASSUME NEW i \in From(k + 1) PROVE g[i] = Value(g, i)
    <3>1. \A child \in {2 * i, 2 * i + 1} :
            child <= n => child \in From(k) /\ child \in From(k + 1)
      OBVIOUS
    <3>2. \A child \in {2 * i, 2 * i + 1} : child <= n => g[child] = f[child]
      BY <3>1
    <3>3. Value(g, i) = Value(f, i)
      BY <3>2
    <3>4. g[i] = Value(f, i)
      <4>1. i \in From(k) => f[i] = Value(f, i)
        BY <2>1
      <4> HIDE DEF Value, From
      <4>2. QED
        BY <4>1
    <3>5. QED
      BY <3>3, <3>4
  <2>3. Part(g, k + 1)
    <3> DEFINE h == [i \in From(k + 1) |-> Value(g, i)]
    <3>1. DOMAIN g = From(k + 1) /\ DOMAIN h = From(k + 1)
      OBVIOUS
    <3>2. \A i \in From(k + 1) : g[i] = h[i]
      BY <2>2, Zenon
    <3>3. g = h
      <4> HIDE DEF Value, From
      <4>1. QED
        BY <3>1, <3>2
    <3>4. QED
      BY <3>3, Zenon
  <2>4. QED
    <3> HIDE DEF Part, g
    <3>1. QED
      BY <2>3
<1>3. Nat \subseteq T
  <2> HIDE DEF T
  <2>1. QED
    BY <1>1, <1>2, NaturalsFromZero
<1>4. PICK f : Part(f, n)
  BY <1>3
<1>5. From(n) = 1 .. n
  OBVIOUS
<1>6. QED
  BY <1>4, <1>5 DEF Reaches

\* SiftDown of such an r.
LEMMA SiftDownReaches ==
  ASSUME NEW heap, Len(heap) \in Nat, NEW pos
  PROVE  \E r : /\ Reaches(r, heap, pos)
                /\ SiftDown(heap, pos) =
                     [i \in 1 .. Len(heap) |->
                       IF ~r[i] THEN heap[i]
                       ELSE IF Climbs(heap, pos, i) THEN heap[i \div 2]
                       ELSE heap[pos]]
<1> DEFINE J(h) == h = [i \in 1 .. Len(heap) |->
                         \/ i = pos
                         \/ \E child \in {2 * i, 2 * i + 1} :
                              child <= Len(heap) /\ h[child]
                                /\ Climbs(heap, pos, child)]
           g == CHOOSE h : J(h)
<1>1. \E h : J(h)
  <2>1. PICK r : Reaches(r, heap, pos)
    BY ReachesExists
  <2>2. J(r)
    BY <2>1 DEF Reaches
  <2> HIDE DEF J
  <2>3. QED
    BY <2>2
<1>2. J(g)
  <2> HIDE DEF J
  <2>1. QED
    BY <1>1
<1>3. SiftDown(heap, pos) =
         [i \in 1 .. Len(heap) |->
           IF ~g[i] THEN heap[i]
           ELSE IF Climbs(heap, pos, i) THEN heap[i \div 2]
           ELSE heap[pos]]
  BY Zenon DEF SiftDown
<1>4. Reaches(g, heap, pos)
  <2> HIDE DEF g
  <2>1. QED
    BY <1>2 DEF Reaches
<1>5. QED
  <2> HIDE DEF g
  <2>1. QED
    BY <1>3, <1>4

\* The positions that the item at pos gets to lie above one another.
IsPath(R, heap, pos) ==
  /\ R \subseteq 1 .. pos /\ pos \in R
  /\ \A i \in R : Climbs(heap, pos, i) => i \div 2 \in R
  /\ \A i, j \in R : i < j => i <= j \div 2 /\ Climbs(heap, pos, j)

LEMMA ReachedIsAPath ==
  ASSUME NEW heap, Len(heap) \in Nat, NEW pos \in 1 .. Len(heap),
         NEW r, Reaches(r, heap, pos)
  PROVE  IsPath({i \in 1 .. Len(heap) : r[i]}, heap, pos)
<1> DEFINE n == Len(heap)
           C == {i \in 1 .. n : Climbs(heap, pos, i)}
           R == {i \in 1 .. n : r[i]}
<1>1. \A i \in 1 .. n :
        r[i] <=> \/ i = pos
                 \/ \E child \in {2 * i, 2 * i + 1} :
                      child <= n /\ r[child] /\ Climbs(heap, pos, child)
  BY DEF Reaches
<1>2. \A i \in 1 .. n :
        i \in R <=> \/ i = pos
                    \/ \E child \in R \cap C : child = 2 * i \/ child = 2 * i + 1
  <2>1. SUFFICES ASSUME NEW i \in 1 .. n
                 PROVE  i \in R <=>
                          \/ i = pos
                          \/ \E child \in R \cap C :
                               child = 2 * i \/ child = 2 * i + 1
    OBVIOUS
  <2>2. \A child \in {2 * i, 2 * i + 1} :
          child \in R \cap C <=>
            child <= n /\ r[child] /\ Climbs(heap, pos, child)
    OBVIOUS
  <2>3. QED
    BY <1>1, <2>2
<1>3. R \subseteq 1 .. n /\ C \subseteq 1 .. n /\ n \in Nat /\ pos \in R
  BY <1>2
<1>4. \A i \in R : i > 1 /\ i \in C => i \div 2 \in R
  <2>1. SUFFICES ASSUME NEW i \in R, i > 1, i \in C PROVE i \div 2 \in R
    OBVIOUS
  <2>2. i \div 2 \in 1 .. n /\ (i = 2 * (i \div 2) \/ i = 2 * (i \div 2) + 1)
    BY <1>3, <2>1
  <2> HIDE DEF R, C
  <2>3. QED
    BY <1>2, <2>1, <2>2
<1> HIDE DEF R, C, n
<1>5. 1 .. n \subseteq {i \in 1 .. n : i \in R => i <= pos}
  <2> DEFINE S == {i \in 1 .. n : i \in R => i <= pos}
  <2>1. ASSUME NEW i \in 1 .. n, \A j \in i + 1 .. n : j \in S
        PROVE  i \in S
    <3>1. SUFFICES ASSUME i \in R, i # pos PROVE i <= pos
      OBVIOUS
    <3>2. PICK child \in R \cap C : child = 2 * i \/ child = 2 * i + 1
      BY <1>2, <3>1
    <3>3. child \in i + 1 .. n /\ child > i
      BY <1>3, <3>2
    <3>4. QED
      BY <2>1, <3>2, <3>3, <1>3
  <2>2. S \subseteq 1 .. n
    OBVIOUS
  <2> HIDE DEF S
  <2>3. 1 .. n \subseteq S
    BY <2>1, <2>2, <1>3, NaturalsDownwards
  <2>4. QED
    BY <2>3 DEF S
<1>6. 1 .. n \subseteq
        {i \in 1 .. n :
           i \in R => \A j \in R : i < j => i <= j \div 2 /\ j \in C}
  <2> DEFINE S == {i \in 1 .. n :
                     i \in R => \A j \in R : i < j => i <= j \div 2 /\ j \in C}
  <2>1. ASSUME NEW i \in 1 .. n, \A j \in i + 1 .. n : j \in S
        PROVE  i \in S
    <3>1. SUFFICES ASSUME i \in R, NEW j \in R, i < j
                   PROVE  i <= j \div 2 /\ j \in C
      OBVIOUS
    <3>2. i # pos /\ j \in 1 .. n
      BY <3>1, <1>3, <1>5
    <3>3. PICK child \in R \cap C : child = 2 * i \/ child = 2 * i + 1
      BY <1>2, <3>1, <3>2
    <3>4. child \in i + 1 .. n /\ child \div 2 = i
      BY <1>3, <3>3
    <3>5. CASE j = child
      BY <3>3, <3>4, <3>5
    <3>6. CASE child < j
      <4>1. child <= j \div 2 /\ j \in C
        BY <2>1, <3>1, <3>3, <3>4, <3>6
      <4>2. QED
        BY <4>1, <3>2, <3>4
    <3>7. CASE j < child
      <4>1. j \in i + 1 .. n
        BY <3>1, <3>2, <1>3
      <4>2. j <= child \div 2
        BY <2>1, <3>1, <3>3, <4>1, <3>7
      <4>3. QED
        BY <4>2, <3>1, <3>2, <3>4
    <3>8. QED
      BY <3>2, <3>4, <3>5, <3>6, <3>7
  <2>2. S \subseteq 1 .. n
    OBVIOUS
  <2> HIDE DEF S
  <2>3. 1 .. n \subseteq S
    BY <2>1, <2>2, <1>3, NaturalsDownwards
  <2>4. QED
    BY <2>3 DEF S
<1>7. \A i \in 1 .. n : i \in C <=> Climbs(heap, pos, i)
  BY DEF C
<1>8. R \subseteq 1 .. pos
  BY <1>3, <1>5, pos \in 1 .. n DEF n
<1>9. IsPath(R, heap, pos)
  <2>1. \A i \in R : Climbs(heap, pos, i) => i \div 2 \in R
    BY <1>3, <1>4, <1>7 DEF Climbs
  <2>2. \A i, j \in R : i < j => i <= j \div 2 /\ Climbs(heap, pos, j)
    BY <1>3, <1>6, <1>7
  <2>3. QED
    BY <1>3, <1>8, <2>1, <2>2 DEF IsPath
<1>10. QED
  BY <1>9 DEF R, n

\* _siftdown puts the items in another order.
LEMMA SiftDownReorders ==
  ASSUME NEW heap, Len(heap) \in Nat, NEW pos \in 1 .. Len(heap)
  PROVE  \E q : Reorders(q, SiftDown(heap, pos), heap)
<1> DEFINE n == Len(heap)
<1>1. PICK r : /\ Reaches(r, heap, pos)
               /\ SiftDown(heap, pos) =
                    [i \in 1 .. n |->
                      IF ~r[i] THEN heap[i]
                      ELSE IF Climbs(heap, pos, i) THEN heap[i \div 2]
                      ELSE heap[pos]]
  BY SiftDownReaches
<1> DEFINE R == {i \in 1 .. n : r[i]}
           q == [i \in 1 .. n |->
                  IF i \notin R THEN i
                  ELSE IF Climbs(heap, pos, i) THEN i \div 2 ELSE pos]
<1>2. IsPath(R, heap, pos)
  BY <1>1, ReachedIsAPath
<1>3. SiftDown(heap, pos) = [i \in 1 .. n |-> heap[q[i]]]
  BY <1>1
<1> HIDE DEF R, n
<1>5. R \subseteq 1 .. pos /\ pos \in R /\ pos \in 1 .. n /\ n \in Nat
  BY <1>2 DEF IsPath, n
<1>6. \A i \in 1 .. n : q[i] \in 1 .. n /\ (q[i] \in R <=> i \in R)
  <2>1. SUFFICES ASSUME NEW i \in 1 .. n
                 PROVE  q[i] \in 1 .. n /\ (q[i] \in R <=> i \in R)
    OBVIOUS
  <2>2. Climbs(heap, pos, i) /\ i \in R => i \div 2 \in R
    BY <1>2 DEF IsPath
  <2>3. QED
    BY <1>5, <2>2
<1>7. ASSUME NEW i \in R, NEW j \in R, i < j PROVE q[i] # q[j]
  <2>1. i <= j \div 2 /\ Climbs(heap, pos, j) /\ i \in 1 .. n /\ j \in 1 .. n
    BY <1>2, <1>5, <1>7 DEF IsPath
  <2>2. q[j] = j \div 2 /\ j \div 2 < j /\ j <= pos
    BY <2>1, <1>5
  <2>3. q[i] = i \div 2 \/ q[i] = pos
    BY <2>1
  <2>4. i \div 2 < i
    BY <2>1
  <2>5. QED
    BY <2>1, <2>2, <2>3, <2>4, <1>5
<1>8. ASSUME NEW i \in 1 .. n, NEW j \in 1 .. n, q[i] = q[j] PROVE i = j
  <2>1. i \in R <=> j \in R
    BY <1>6, <1>8
  <2>2. CASE i \in R
    <3> HIDE DEF q
    <3>1. ~(i < j) /\ ~(j < i)
      BY <2>1, <2>2, <1>7, <1>8
    <3>2. QED
      BY <3>1, <1>5
  <2>3. CASE i \notin R
    BY <2>1, <2>3, <1>8
  <2>4. QED
    BY <2>2, <2>3
<1>9. q \in Injection(1 .. n, 1 .. n)
  <2>1. q \in [1 .. n -> 1 .. n]
    BY <1>6
  <2> HIDE DEF q
  <2>2. QED
    BY <2>1, <1>8 DEF Injection, IsInjective
<1>10. Reorders(q, SiftDown(heap, pos), heap)
  <2> HIDE DEF q
  <2>1. QED
    BY <1>3, <1>9 DEF Reorders, n
<1>11. QED
  BY <1>10

\* f tells the leaf that the smaller children of each position lead to.
SmallerChildOf(heap, p) ==
  IF 2 * p < Len(heap) /\ ~(heap[2 * p].key < heap[2 * p + 1].key)
  THEN 2 * p + 1 ELSE 2 * p

LeadsTo(f, heap) ==
  f = [p \in 1 .. Len(heap) |->
        IF 2 * p > Len(heap) THEN p ELSE f[SmallerChildOf(heap, p)]]

LEMMA LeadsToExists ==
  ASSUME NEW heap, Len(heap) \in Nat
  PROVE  \E f : LeadsTo(f, heap)
<1> DEFINE n == Len(heap)
           Value(f, i) == IF 2 * i > n THEN i ELSE f[SmallerChildOf(heap, i)]
           From(k) == {i \in 1 .. n : i > n - k}
           Part(f, k) == f = [i \in From(k) |-> Value(f, i)]
           T == {k \in Nat : \E f : Part(f, k)}
<1>1. 0 \in T
  <2>1. Part(<<>>, 0)
    <3>1. From(0) = {}
      OBVIOUS
    <3>2. QED
      BY <3>1
  <2>2. QED
    BY <2>1
<1>2. ASSUME NEW k \in Nat, k \in T PROVE k + 1 \in T
  <2>1. PICK f : Part(f, k)
    BY <1>2
  <2> DEFINE g == [i \in From(k + 1) |->
                    IF i \in From(k) THEN f[i] ELSE Value(f, i)]
  <2>2. ASSUME NEW i \in From(k + 1) PROVE g[i] = Value(g, i)
    <3>1. ~(2 * i > n) => /\ SmallerChildOf(heap, i) \in From(k)
                          /\ SmallerChildOf(heap, i) \in From(k + 1)
      BY DEF SmallerChildOf
    <3>2. Value(g, i) = Value(f, i)
      BY <3>1
    <3>3. g[i] = Value(f, i)
      <4>1. i \in From(k) => f[i] = Value(f, i)
        BY <2>1
      <4> HIDE DEF Value, From
      <4>2. QED
        BY <4>1
    <3>4. QED
      BY <3>2, <3>3
  <2>3. Part(g, k + 1)
    <3> DEFINE h == [i \in From(k + 1) |-> Value(g, i)]
    <3>1. DOMAIN g = From(k + 1) /\ DOMAIN h = From(k + 1)
      OBVIOUS
    <3>2. \A i \in From(k + 1) : g[i] = h[i]
      BY <2>2, Zenon
    <3>3. g = h
      <4> HIDE DEF Value, From
      <4>1. QED
        BY <3>1, <3>2
    <3>4. QED
      BY <3>3, Zenon
  <2>4. QED
    <3> HIDE DEF Part, g
    <3>1. QED
      BY <2>3
<1>3. Nat \subseteq T
  <2> HIDE DEF T
  <2>1. QED
    BY <1>1, <1>2, NaturalsFromZero
<1>4. PICK f : Part(f, n)
  BY <1>3
<1>5. From(n) = 1 .. n
  OBVIOUS
<1>6. QED
  BY <1>4, <1>5 DEF LeadsTo

LEMMA LeafIsAPosition ==
  ASSUME NEW heap, Len(heap) \in Nat, NEW f, LeadsTo(f, heap)
  PROVE  \A p \in 1 .. Len(heap) : f[p] \in 1 .. Len(heap)
<1> DEFINE n == Len(heap)
           S == {p \in 1 .. n : f[p] \in 1 .. n}
<1>1. ASSUME NEW p \in 1 .. n, \A j \in p + 1 .. n : j \in S
      PROVE  p \in S
  <2>1. CASE 2 * p > n
    BY <2>1 DEF LeadsTo
  <2>2. CASE ~(2 * p > n)
    <3>1. SmallerChildOf(heap, p) \in p + 1 .. n
      BY <2>2 DEF SmallerChildOf
    <3>2. f[p] = f[SmallerChildOf(heap, p)]
      BY <2>2 DEF LeadsTo
    <3>3. QED
      BY <3>1, <3>2, <1>1
  <2>3. QED
    BY <2>1, <2>2
<1>2. S \subseteq 1 .. n /\ n \in Nat
  OBVIOUS
<1>3. 1 .. n \subseteq S
  <2> HIDE DEF S, n
  <2>1. QED
    BY <1>1, <1>2, NaturalsDownwards
<1>4. QED
  BY <1>3

LEMMA SiftUpLeadsTo ==
  ASSUME NEW heap, Len(heap) \in Nat
  PROVE  \E f : /\ LeadsTo(f, heap)
                /\ SiftUp(heap) =
                     SiftDown([i \in 1 .. Len(heap) |->
                                IF ~(f[i] = f[1]) THEN heap[i]
                                ELSE IF i = f[1] THEN heap[1]
                                ELSE heap[SmallerChildOf(heap, i)]],
                              f[1])
<1> DEFINE Smaller(p) ==
             IF 2 * p < Len(heap) /\ ~(heap[2 * p].key < heap[2 * p + 1].key)
             THEN 2 * p + 1 ELSE 2 * p
           J(h) == h = [p \in 1 .. Len(heap) |->
                         IF 2 * p > Len(heap) THEN p ELSE h[Smaller(p)]]
           g == CHOOSE h : J(h)
<1>1. \E h : J(h)
  <2>1. PICK f : LeadsTo(f, heap)
    BY LeadsToExists
  <2>2. J(f)
    BY <2>1 DEF LeadsTo, SmallerChildOf
  <2> HIDE DEF J
  <2>3. QED
    BY <2>2
<1>2. J(g)
  <2> HIDE DEF J
  <2>1. QED
    BY <1>1
<1>3. SiftUp(heap) =
         SiftDown([i \in 1 .. Len(heap) |->
                    IF ~(g[i] = g[1]) THEN heap[i]
                    ELSE IF i = g[1] THEN heap[1]
                    ELSE heap[Smaller(i)]],
                  g[1])
  BY Zenon DEF SiftUp
<1>4. LeadsTo(g, heap)
  <2> HIDE DEF g
  <2>1. QED
    BY <1>2 DEF LeadsTo, SmallerChildOf
<1>5. QED
  <2> HIDE DEF g
  <2>1. QED
    BY <1>3, <1>4 DEF SmallerChildOf

LEMMA ReordersOfReorders ==
  ASSUME NEW a, NEW b, NEW c, Len(b) = Len(c), Len(c) \in Nat,
         NEW p, Reorders(p, a, b), NEW q, Reorders(q, b, c)
  PROVE  \E r : Reorders(r, a, c)
<1> DEFINE n == Len(c)
           r == [i \in 1 .. n |-> q[p[i]]]
<1>1. r \in Injection(1 .. n, 1 .. n)
  <2>1. /\ p \in [1 .. n -> 1 .. n] /\ q \in [1 .. n -> 1 .. n]
        /\ \A i, j \in 1 .. n : p[i] = p[j] => i = j
        /\ \A i, j \in 1 .. n : q[i] = q[j] => i = j
    BY DEF Reorders, Injection, IsInjective
  <2>2. r \in [1 .. n -> 1 .. n]
    BY <2>1
  <2>3. \A i, j \in 1 .. n : r[i] = r[j] => i = j
    BY <2>1
  <2> HIDE DEF r
  <2>4. QED
    BY <2>2, <2>3 DEF Injection, IsInjective
<1>2. a = [i \in 1 .. n |-> c[r[i]]]
  BY DEF Reorders, Injection
<1>3. Reorders(r, a, c)
  BY <1>1, <1>2 DEF Reorders
<1>4. QED
  BY <1>3

\* _siftup puts the items in another order.
LEMMA SiftUpReorders ==
  ASSUME NEW heap, Len(heap) \in Nat, Len(heap) > 0
  PROVE  \E q : Reorders(q, SiftUp(heap), heap)
<1> DEFINE n == Len(heap)
<1>1. PICK f : /\ LeadsTo(f, heap)
               /\ SiftUp(heap) =
                    SiftDown([i \in 1 .. n |->
                               IF ~(f[i] = f[1]) THEN heap[i]
                               ELSE IF i = f[1] THEN heap[1]
                               ELSE heap[SmallerChildOf(heap, i)]],
                             f[1])
  BY SiftUpLeadsTo
<1> DEFINE mid == [i \in 1 .. n |->
                    IF ~(f[i] = f[1]) THEN heap[i]
                    ELSE IF i = f[1] THEN heap[1]
                    ELSE heap[SmallerChildOf(heap, i)]]
           q == [i \in 1 .. n |->
                    IF ~(f[i] = f[1]) THEN i
                    ELSE IF i = f[1] THEN 1
                    ELSE SmallerChildOf(heap, i)]
<1>2. \A i \in 1 .. n : f[i] \in 1 .. n
  BY <1>1, LeafIsAPosition
<1>3. ASSUME NEW i \in 1 .. n, f[i] = f[1], i # f[1]
      PROVE  /\ SmallerChildOf(heap, i) \in 2 .. n
             /\ f[SmallerChildOf(heap, i)] = f[1]
             /\ SmallerChildOf(heap, i) \div 2 = i
  <2>1. 2 * i <= n /\ f[i] = f[SmallerChildOf(heap, i)]
    <3>1. f[i] = IF 2 * i > n THEN i ELSE f[SmallerChildOf(heap, i)]
      BY <1>1 DEF LeadsTo
    <3>2. QED
      BY <3>1, <1>3
  <2>2. QED
    BY <2>1, <1>3 DEF SmallerChildOf
<1>4. \A i \in 1 .. n : q[i] \in 1 .. n /\ (f[q[i]] = f[1] <=> f[i] = f[1])
  BY <1>2, <1>3
<1>5. ASSUME NEW i \in 1 .. n, NEW j \in 1 .. n, q[i] = q[j] PROVE i = j
  <2>1. f[i] = f[1] <=> f[j] = f[1]
    BY <1>4, <1>5
  <2>2. CASE f[i] # f[1]
    BY <2>1, <2>2, <1>5
  <2>3. CASE f[i] = f[1]
    <3>1. \A k \in {i, j} : \/ k = f[1] /\ q[k] = 1
                            \/ k # f[1] /\ q[k] \in 2 .. n /\ q[k] \div 2 = k
      BY <2>1, <2>3, <1>3
    <3> HIDE DEF q
    <3>2. QED
      BY <3>1, <1>5
  <2>4. QED
    BY <2>2, <2>3
<1>6. q \in Injection(1 .. n, 1 .. n)
  <2>1. q \in [1 .. n -> 1 .. n]
    BY <1>4
  <2> HIDE DEF q
  <2>2. QED
    BY <2>1, <1>5 DEF Injection, IsInjective
<1>7. mid = [i \in 1 .. n |-> heap[q[i]]]
  OBVIOUS
<1>8. Len(mid) = n
  OBVIOUS
<1>9. Reorders(q, mid, heap)
  <2> HIDE DEF q, mid
  <2>1. QED
    BY <1>6, <1>7 DEF Reorders
<1>10. PICK p : Reorders(p, SiftDown(mid, f[1]), mid)
  <2>1. f[1] \in 1 .. Len(mid) /\ Len(mid) \in Nat
    BY <1>2, <1>8
  <2> HIDE DEF mid
  <2>2. QED
    BY <2>1, SiftDownReorders
<1>11. SiftUp(heap) = SiftDown(mid, f[1])
  BY <1>1
<1>12. QED
  <2> HIDE DEF q, mid
  <2>1. QED
    BY <1>8, <1>9, <1>10, <1>11, ReordersOfReorders

\* How many of the tasks in a heap are in P.
CountOf(heap, P) == Cardinality({i \in DOMAIN heap : heap[i] \in P})

LEMMA ReorderedCount ==
  ASSUME NEW S, NEW old \in Seq(S), NEW new, NEW q, Reorders(q, new, old)
  PROVE  /\ new \in Seq(S) /\ Len(new) = Len(old)
         /\ \A P : CountOf(new, P) = CountOf(old, P)
<1> DEFINE n == Len(old)
<1>1. n \in Nat /\ DOMAIN old = 1 .. n /\ \A i \in 1 .. n : old[i] \in S
  BY LenProperties, ElementOfSeq
<1>2. q \in [1 .. n -> 1 .. n] /\ \A i, j \in 1 .. n : q[i] = q[j] => i = j
  BY DEF Reorders, Injection, IsInjective
<1>3. new = [i \in 1 .. n |-> old[q[i]]]
  BY DEF Reorders
<1>4. new \in [1 .. n -> S]
  BY <1>1, <1>2, <1>3
<1>5. new \in Seq(S) /\ Len(new) = n
  BY <1>1, <1>4
<1>6. q \in Surjection(1 .. n, 1 .. n)
  <2>1. IsFiniteSet(1 .. n)
    BY <1>1, FS_Interval
  <2>2. q \in Injection(1 .. n, 1 .. n)
    BY DEF Reorders
  <2>3. QED
    BY <2>1, <2>2, FS_Injection
<1>7. \A j \in 1 .. n : \E i \in 1 .. n : q[i] = j
  BY <1>6 DEF Surjection
<1>8. ASSUME NEW P PROVE CountOf(new, P) = CountOf(old, P)
  <2> DEFINE A == {i \in 1 .. n : new[i] \in P}
             B == {i \in 1 .. n : old[i] \in P}
             f == [i \in A |-> q[i]]
  <2>1. IsFiniteSet(B)
    <3>1. IsFiniteSet(1 .. n) /\ B \in SUBSET (1 .. n)
      BY <1>1, FS_Interval
    <3> HIDE DEF B
    <3>2. QED
      BY <3>1, FS_Subset
  <2>2. f \in [A -> B] /\ \A i, j \in A : f[i] = f[j] => i = j
    BY <1>2, <1>3
  <2>3. \A j \in B : \E i \in A : f[i] = j
    BY <1>2, <1>3, <1>7
  <2> HIDE DEF A, B, f
  <2>4. f \in Injection(A, B) /\ f \in Surjection(A, B)
    BY <2>2, <2>3 DEF Injection, IsInjective, Surjection
  <2>5. Cardinality(A) = Cardinality(B)
    BY <2>1, <2>4, FS_Injection
  <2>6. DOMAIN new = 1 .. n
    BY <1>3
  <2>7. QED
    BY <1>1, <2>5, <2>6 DEF CountOf, A, B
<1>9. QED
  BY <1>5, <1>8

LEMMA CountIsANumber ==
  ASSUME NEW S, NEW heap \in Seq(S), NEW P
  PROVE  /\ CountOf(heap, P) \in Nat
         /\ IsFiniteSet({i \in DOMAIN heap : heap[i] \in P})
<1>1. Len(heap) \in Nat /\ DOMAIN heap = 1 .. Len(heap)
  BY LenProperties
<1>2. IsFiniteSet(1 .. Len(heap))
  BY <1>1, FS_Interval
<1>3. IsFiniteSet({i \in DOMAIN heap : heap[i] \in P})
  BY <1>1, <1>2, FS_Subset
<1>4. QED
  BY <1>3, FS_CardinalityType DEF CountOf

\* One more at the end of a list.
LEMMA AppendAdds ==
  ASSUME NEW S, NEW list \in Seq(S), NEW x \in S
  PROVE  /\ Append(list, x) \in Seq(S)
         /\ \A P : CountOf(Append(list, x), P)
                   = CountOf(list, P) + (IF x \in P THEN 1 ELSE 0)
<1> DEFINE n == Len(list)
           longer == Append(list, x)
<1>1. /\ n \in Nat /\ DOMAIN list = 1 .. n
      /\ longer \in Seq(S) /\ Len(longer) = n + 1 /\ DOMAIN longer = 1 .. n + 1
      /\ longer[n + 1] = x /\ \A i \in 1 .. n : longer[i] = list[i]
  BY LenProperties, AppendProperties
<1> HIDE DEF longer
<1>2. ASSUME NEW P
      PROVE  CountOf(longer, P) = CountOf(list, P) + (IF x \in P THEN 1 ELSE 0)
  <2> DEFINE A == {i \in DOMAIN list : list[i] \in P}
             B == {i \in DOMAIN longer : longer[i] \in P}
  <2>1. B = IF x \in P THEN A \union {n + 1} ELSE A
    BY <1>1
  <2>2. n + 1 \notin A
    BY <1>1
  <2>3. IsFiniteSet(A) /\ Cardinality(A) \in Nat
    BY CountIsANumber DEF CountOf
  <2> HIDE DEF A, B
  <2>4. Cardinality(B) = Cardinality(A) + (IF x \in P THEN 1 ELSE 0)
    <3>1. Cardinality(A \union {n + 1}) = Cardinality(A) + 1
      BY <2>2, <2>3, FS_AddElement
    <3>2. QED
      BY <2>1, <2>3, <3>1
  <2>5. QED
    BY <2>4 DEF CountOf, A, B
<1>3. QED
  BY <1>1, <1>2 DEF longer

\* heappush adds its item.
LEMMA PutAdds ==
  ASSUME NEW S, NEW heap \in Seq(S), NEW task \in S
  PROVE  /\ Put(heap, task) \in Seq(S)
         /\ \A P : CountOf(Put(heap, task), P)
                   = CountOf(heap, P) + (IF task \in P THEN 1 ELSE 0)
<1> DEFINE n == Len(heap)
           longer == Append(heap, task)
<1>1. n \in Nat /\ longer \in Seq(S) /\ Len(longer) = n + 1
  BY LenProperties, AppendProperties
<1>2. Put(heap, task) = SiftDown(longer, n + 1)
  BY DEF Put
<1>3. \A P : CountOf(longer, P) = CountOf(heap, P) + (IF task \in P THEN 1 ELSE 0)
  BY AppendAdds
<1> HIDE DEF longer
<1>4. PICK q : Reorders(q, SiftDown(longer, n + 1), longer)
  BY <1>1, SiftDownReorders
<1>5. /\ SiftDown(longer, n + 1) \in Seq(S)
      /\ \A P : CountOf(SiftDown(longer, n + 1), P) = CountOf(longer, P)
  BY <1>1, <1>4, ReorderedCount
<1>6. QED
  BY <1>2, <1>3, <1>5

\* The n places of a list but the first go on to those of a shorter one.
GoOnTo(to, short, long, n) ==
  /\ DOMAIN short = 1 .. n - 1 /\ to \in [2 .. n -> 1 .. n - 1]
  /\ \A i, j \in 2 .. n : to[i] = to[j] => i = j
  /\ \A j \in 1 .. n - 1 : \E i \in 2 .. n : to[i] = j
  /\ \A i \in 2 .. n : short[to[i]] = long[i]

\* How many of a longer list's items in P are in a shorter one.
OneLess(short, long) ==
  \A P : CountOf(short, P)
            = CountOf(long, P) - (IF long[1] \in P THEN 1 ELSE 0)

LEMMA WithoutTheFirst ==
  ASSUME NEW S, NEW long \in Seq(S), long # <<>>,
         NEW short, NEW to, GoOnTo(to, short, long, Len(long))
  PROVE  OneLess(short, long)
<1> DEFINE n == Len(long)
<1>1. n \in Nat /\ n > 0 /\ DOMAIN long = 1 .. n
  BY LenProperties, EmptySeq
<1> SUFFICES ASSUME NEW P
             PROVE  CountOf(short, P)
                      = CountOf(long, P) - (IF long[1] \in P THEN 1 ELSE 0)
  BY DEF OneLess
<1> DEFINE A == {i \in DOMAIN long : long[i] \in P}
           B == {i \in DOMAIN short : short[i] \in P}
           f == [i \in A \ {1} |-> to[i]]
<1>2. A \ {1} \subseteq 2 .. n
  BY <1>1
<1>3. f \in [A \ {1} -> B] /\ \A i, j \in A \ {1} : f[i] = f[j] => i = j
  BY <1>2 DEF GoOnTo
<1>4. \A j \in B : \E i \in A \ {1} : f[i] = j
  <2>1. SUFFICES ASSUME NEW j \in B PROVE \E i \in A \ {1} : f[i] = j
    OBVIOUS
  <2>2. j \in 1 .. n - 1 /\ short[j] \in P
    BY DEF GoOnTo
  <2>3. PICK i \in 2 .. n : to[i] = j
    BY <2>2 DEF GoOnTo
  <2>4. i \in A \ {1}
    BY <1>1, <2>2, <2>3 DEF GoOnTo
  <2>5. QED
    BY <2>3, <2>4
<1>5. IsFiniteSet(A) /\ Cardinality(A) \in Nat
  BY CountIsANumber DEF CountOf
<1>6. 1 \in A <=> long[1] \in P
  BY <1>1
<1>7. B \subseteq 1 .. n - 1
  BY DEF GoOnTo
<1> HIDE DEF A, B, f, n
<1>8. f \in Injection(A \ {1}, B) /\ f \in Surjection(A \ {1}, B)
  BY <1>3, <1>4 DEF Injection, IsInjective, Surjection
<1>9. IsFiniteSet(B)
  <2>1. n - 1 \in Int /\ 1 \in Int
    BY <1>1
  <2>2. IsFiniteSet(1 .. n - 1)
    BY <2>1, FS_Interval
  <2>3. QED
    BY <2>2, <1>7, FS_Subset
<1>10. Cardinality(A \ {1}) = Cardinality(B)
  BY <1>8, <1>9, FS_Injection
<1>11. Cardinality(A \ {1})
         = Cardinality(A) - (IF long[1] \in P THEN 1 ELSE 0)
  <2>1. Cardinality(A \ {1})
          = IF 1 \in A THEN Cardinality(A) - 1 ELSE Cardinality(A)
    BY <1>5, FS_RemoveElement
  <2>2. QED
    BY <1>5, <1>6, <2>1
<1>12. QED
  BY <1>10, <1>11 DEF CountOf, A, B

\* A list without its head.
LEMMA TailLacksTheHead ==
  ASSUME NEW S, NEW list \in Seq(S), list # <<>>
  PROVE  /\ Head(list) \in S /\ Tail(list) \in Seq(S)
         /\ \A P : CountOf(Tail(list), P)
                   = CountOf(list, P) - (IF Head(list) \in P THEN 1 ELSE 0)
<1> DEFINE n == Len(list)
           to == [i \in 2 .. n |-> i - 1]
           short == Tail(list)
<1>1. /\ n \in Nat /\ n > 0 /\ Head(list) = list[1] /\ Head(list) \in S
      /\ short \in Seq(S) /\ Len(short) = n - 1
      /\ \A i \in 1 .. n - 1 : short[i] = list[i + 1]
  BY LenProperties, EmptySeq, HeadTailProperties
<1> HIDE DEF short
<1>2. DOMAIN short = 1 .. n - 1
  BY <1>1, LenProperties
<1>3. to \in [2 .. n -> 1 .. n - 1]
  BY <1>1
<1>4. \A i, j \in 2 .. n : to[i] = to[j] => i = j
  BY <1>1
<1>5. \A j \in 1 .. n - 1 : \E i \in 2 .. n : to[i] = j
  <2>1. \A j \in 1 .. n - 1 : j + 1 \in 2 .. n /\ to[j + 1] = j
    BY <1>1
  <2>2. QED
    BY <2>1
<1>6. \A i \in 2 .. n : short[to[i]] = list[i]
  BY <1>1
<1> HIDE DEF to
<1>7. GoOnTo(to, short, list, n)
  BY <1>2, <1>3, <1>4, <1>5, <1>6 DEF GoOnTo
<1>8. OneLess(short, list)
  BY <1>7, WithoutTheFirst
<1>9. QED
  BY <1>1, <1>8 DEF short, OneLess

\* heappop takes the root.
LEMMA RestLacksTheRoot ==
  ASSUME NEW S, NEW heap \in Seq(S), heap # <<>>
  PROVE  /\ heap[1] \in S /\ Rest(heap) \in Seq(S)
         /\ \A P : CountOf(Rest(heap), P)
                   = CountOf(heap, P) - (IF heap[1] \in P THEN 1 ELSE 0)
<1> DEFINE n == Len(heap)
           mid == [i \in 1 .. n - 1 |-> IF i = 1 THEN heap[n] ELSE heap[i]]
           to == [i \in 2 .. n |-> IF i = n THEN 1 ELSE i]
<1>1. /\ n \in Nat /\ n > 0 /\ DOMAIN heap = 1 .. n
      /\ \A i \in 1 .. n : heap[i] \in S
  BY LenProperties, EmptySeq, ElementOfSeq
<1> HIDE DEF n
<1>2. \A P : CountOf(mid, P) = CountOf(heap, P) - (IF heap[1] \in P THEN 1 ELSE 0)
  <2>1. DOMAIN mid = 1 .. n - 1
    OBVIOUS
  <2>2. to \in [2 .. n -> 1 .. n - 1]
    BY <1>1
  <2>3. \A i, j \in 2 .. n : to[i] = to[j] => i = j
    BY <1>1
  <2>4. \A j \in 1 .. n - 1 : \E i \in 2 .. n : to[i] = j
    <3>1. SUFFICES ASSUME NEW j \in 1 .. n - 1
                   PROVE  \E i \in 2 .. n : to[i] = j
      OBVIOUS
    <3>2. CASE j = 1
      <4>1. n \in 2 .. n /\ to[n] = j
        BY <1>1, <3>1, <3>2
      <4>2. QED
        BY <4>1
    <3>3. CASE j # 1
      <4>1. j \in 2 .. n /\ to[j] = j
        BY <1>1, <3>1, <3>3
      <4>2. QED
        BY <4>1
    <3>4. QED
      BY <3>2, <3>3
  <2>5. \A i \in 2 .. n : mid[to[i]] = heap[i]
    BY <1>1
  <2> HIDE DEF to, mid
  <2>6. GoOnTo(to, mid, heap, n)
    BY <2>1, <2>2, <2>3, <2>4, <2>5 DEF GoOnTo
  <2>7. OneLess(mid, heap)
    BY <2>6, WithoutTheFirst DEF n
  <2>8. QED
    BY <2>7 DEF OneLess
<1>3. CASE n = 1
  <2>1. Rest(heap) = <<>>
    BY <1>3 DEF Rest, n
  <2>2. mid = <<>>
    BY <1>1, <1>3
  <2> HIDE DEF mid
  <2>3. QED
    BY <1>1, <1>2, <2>1, <2>2
<1>4. CASE n # 1
  <2>1. Rest(heap) = SiftUp(mid)
    BY <1>4 DEF Rest, n
  <2>2. mid \in [1 .. n - 1 -> S] /\ n - 1 \in Nat /\ n - 1 > 0
    BY <1>1, <1>4
  <2>3. mid \in Seq(S) /\ Len(mid) = n - 1
    <3>1. DOMAIN mid = 1 .. n - 1
      OBVIOUS
    <3> HIDE DEF mid
    <3>2. QED
      BY <2>2, <3>1
  <2> HIDE DEF mid
  <2>4. PICK q : Reorders(q, SiftUp(mid), mid)
    BY <2>2, <2>3, SiftUpReorders
  <2>5. /\ SiftUp(mid) \in Seq(S)
        /\ \A P : CountOf(SiftUp(mid), P) = CountOf(mid, P)
    BY <2>3, <2>4, ReorderedCount
  <2>6. QED
    BY <1>1, <1>2, <2>1, <2>5
<1>5. QED
  BY <1>3, <1>4

-----------------------------------------------------------------------------
(* Lists that count an item once, and the least of numbers.                *)

LEMMA CountedOnce ==
  ASSUME NEW S, NEW list \in Seq(S), NEW x, CountOf(list, {x}) <= 1,
         NEW i \in DOMAIN list, NEW j \in DOMAIN list, list[i] = x, list[j] = x
  PROVE  i = j
<1> DEFINE A == {k \in DOMAIN list : list[k] \in {x}}
<1>1. IsFiniteSet(A) /\ Cardinality(A) \in Nat /\ Cardinality(A) <= 1
  BY CountIsANumber DEF CountOf
<1>2. i \in A /\ j \in A
  OBVIOUS
<1> HIDE DEF A
<1>3. SUFFICES ASSUME i # j PROVE FALSE
  OBVIOUS
<1>4. IsFiniteSet({i}) /\ Cardinality({i}) = 1
  BY FS_Singleton
<1> DEFINE B == {i} \union {j}
<1>5. Cardinality(B) = 2
  <2>1. j \notin {i}
    BY <1>3
  <2>2. Cardinality(B) = IF j \in {i} THEN Cardinality({i}) ELSE Cardinality({i}) + 1
    BY <1>4, FS_AddElement
  <2> HIDE DEF B
  <2>3. QED
    BY <1>4, <2>1, <2>2
<1>6. B \in SUBSET A
  BY <1>2
<1> HIDE DEF B
<1>7. Cardinality(B) <= Cardinality(A)
  BY <1>1, <1>6, FS_Subset
<1>8. QED
  BY <1>1, <1>5, <1>7

LEMMA CountedNever ==
  ASSUME NEW S, NEW list \in Seq(S), NEW P
  PROVE  CountOf(list, P) = 0 <=> \A i \in DOMAIN list : list[i] \notin P
<1> DEFINE A == {i \in DOMAIN list : list[i] \in P}
<1>1. IsFiniteSet(A)
  BY CountIsANumber
<1>2. A = {} <=> \A i \in DOMAIN list : list[i] \notin P
  OBVIOUS
<1> HIDE DEF A
<1>3. Cardinality(A) = 0 <=> A = {}
  BY <1>1, FS_EmptySet
<1>4. QED
  BY <1>2, <1>3 DEF CountOf, A

LEMMA NothingIsCounted ==
  \A P : CountOf(<<>>, P) = 0
<1>1. \A P : {i \in DOMAIN <<>> : <<>>[i] \in P} = {}
  OBVIOUS
<1>2. QED
  BY <1>1, FS_EmptySet DEF CountOf

LEMMA HasALeast ==
  ASSUME NEW S, S \subseteq Nat, S # {}
  PROVE  \E x \in S : \A y \in S : x <= y
<1>1. PICK x \in S : \A y \in S : ~(<<y, x>> \in Below)
  BY BelowIsWellFounded, WFMin
<1>2. ASSUME NEW y \in S PROVE x <= y
  <2>1. x \in Nat /\ y \in Nat
    OBVIOUS
  <2>2. ~(<<y, x>> \in Below)
    BY <1>1
  <2>3. ~(y < x)
    BY <2>1, <2>2 DEF Below
  <2>4. QED
    BY <2>1, <2>3
<1>3. QED
  BY <1>2

\* The bid that wins is one of those received, and none is lower.
LEMMA LowestBidIsLowest ==
  ASSUME NEW received \in Seq(BidType), received # <<>>
  PROVE  \E i \in DOMAIN received :
           /\ LowestBid(received) = received[i]
           /\ \A j \in DOMAIN received : received[i].workload <= received[j].workload
<1> DEFINE D == DOMAIN received
           Load(i) == received[i].workload
           Best(i) == \A j \in D : /\ Load(i) <= Load(j)
                                   /\ j < i => Load(i) < Load(j)
           W == {Load(i) : i \in D}
<1>1. D \subseteq Nat /\ D # {} /\ \A i \in D : received[i] \in BidType
  BY LenProperties, EmptySeq, ElementOfSeq
<1>2. \A i \in D : Load(i) \in Nat
  BY <1>1 DEF BidType
<1>3. PICK w \in W : \A v \in W : w <= v
  <2>1. W \subseteq Nat /\ W # {}
    BY <1>1, <1>2
  <2> HIDE DEF W
  <2>2. QED
    BY <2>1, HasALeast
<1> DEFINE L == {i \in D : Load(i) = w}
<1>4. PICK i \in L : \A j \in L : i <= j
  <2>1. L \subseteq Nat /\ L # {}
    BY <1>1, <1>3
  <2> HIDE DEF L
  <2>2. QED
    BY <2>1, HasALeast
<1>5. i \in D /\ Load(i) = w
  OBVIOUS
<1>6. ASSUME NEW j \in D PROVE Load(i) <= Load(j) /\ (j < i => Load(i) < Load(j))
  <2>1. w <= Load(j)
    BY <1>3
  <2>2. Load(j) = w => i <= j
    BY <1>4
  <2>3. i \in Nat /\ j \in Nat /\ Load(j) \in Nat /\ w \in Nat
    BY <1>1, <1>2, <1>5
  <2> HIDE DEF Load, D
  <2>4. QED
    BY <1>5, <2>1, <2>2, <2>3
<1>7. Best(i)
  BY <1>6
<1> DEFINE k == CHOOSE x \in D : Best(x)
<1>8. k \in D /\ Best(k)
  <2> HIDE DEF D, Best
  <2>1. QED
    BY <1>5, <1>7
<1>9. LowestBid(received) = received[k]
  BY Zenon DEF LowestBid
<1>10. QED
  <2> HIDE DEF k
  <2>1. QED
    BY <1>8, <1>9

-----------------------------------------------------------------------------
(* Auctions: where each one is, and its work.                              *)

Tasks ==
  [key : 0 .. 2, type : {"auction", "timeout"}, auction : Auctions]
    \union [key : 0 .. 2, type : {"record"}, auction : {None}]
Messages == [type : {"auction", "task"}, auction : Auctions]
Of(type, n) == {task \in Tasks : task.type = type /\ task.auction = n}
WorkMessage(n) == [type |-> "task", auction |-> n]

One(condition) == IF condition THEN 1 ELSE 0
NumberOf(type, n) == CountOf(task_queue, Of(type, n))
WorkIn(messages, list, n) ==
  CountOf(messages, {WorkMessage(n)}) + CountOf(list, {n})
Works(n) == [c \in Clients |-> WorkIn(toClient[c], work_queue[c], n)]

AuctionsTypes ==
  /\ task_queue \in Seq(Tasks)
  /\ asked \in 0 .. MaxAuctions /\ announcing \in Auctions \union {None}
  /\ active_auctions \subseteq Auctions /\ due \subseteq active_auctions
  /\ bids \in [Auctions -> Seq(BidType)]
  /\ taken_auctions \in [Auctions -> Clients \union {None}]
  /\ running \in [Clients -> {"waits", "runs", "ended"}]
  /\ toClient \in [Clients -> Seq(Messages)]
  /\ toServer \in [Clients -> Seq(BidType)]
  /\ work_queue \in [Clients -> Seq(Auctions)]
  /\ begun \in [Auctions -> Nat]

\* An auction that was asked for is in one place; its timeout waits exactly
\* while it is listed.
AuctionsArePlaced ==
  \A n \in Auctions :
    /\ NumberOf("timeout", n) = One(n \in active_auctions)
    /\ NumberOf("auction", n) + One(announcing = n) + One(n \in active_auctions)
         + One(taken_auctions[n] # None) = One(n <= asked)

\* Nobody but the winner has an auction's work, and the winner has it once, or
\* has begun it once, unless it has ended.
IsPlaced(winner, works, started, state) ==
  /\ \A c \in Clients : c # winner => works[c] = 0
  /\ winner = None => started = 0
  /\ winner # None => started + works[winner] <= 1
  /\ winner # None /\ state[winner] = "runs" => started + works[winner] = 1

WorkIsPlaced ==
  \A n \in Auctions : IsPlaced(taken_auctions[n], Works(n), begun[n], running)

\* Messages and work are of clients that run, bids of clients that ran.
WhoIsGone ==
  /\ \A c \in Clients :
       running[c] # "runs" => toClient[c] = <<>> /\ work_queue[c] = <<>>
  /\ \A c \in Clients : \A i \in DOMAIN toServer[c] :
       running[toServer[c][i].client] # "waits"
  /\ \A n \in Auctions : \A i \in DOMAIN bids[n] :
       running[bids[n][i].client] # "waits"

\* Who got an auction had bid for it, and nobody less.
TakenByTheLowest ==
  \A n \in Auctions : taken_auctions[n] # None =>
    \E i \in DOMAIN bids[n] :
      /\ bids[n][i].client = taken_auctions[n]
      /\ \A j \in DOMAIN bids[n] : bids[n][i].workload <= bids[n][j].workload

AuctionsInv ==
  /\ AuctionsTypes /\ AuctionsArePlaced /\ WorkIsPlaced /\ WhoIsGone
  /\ TakenByTheLowest

\* The tasks that wait, as numbers.
LEMMA NumbersAreNumbers ==
  ASSUME NEW heap \in Seq(Tasks), NEW type, NEW n
  PROVE  CountOf(heap, Of(type, n)) \in Nat
BY CountIsANumber

LEMMA HeadIsATask ==
  ASSUME AuctionsTypes, NEW type \in {"auction", "timeout", "record"},
         NextTask(type)
  PROVE  /\ task_queue[1] \in Tasks /\ task_queue[1].type = type
         /\ task_queue # <<>> /\ announcing = None
         /\ type # "record" =>
              /\ task_queue[1].auction \in Auctions
              /\ task_queue[1] \in Of(type, task_queue[1].auction)
<1>1. task_queue[1] \in Tasks
  BY RestLacksTheRoot DEF AuctionsTypes, NextTask
<1>2. QED
  BY <1>1 DEF NextTask, Of, Tasks

\* Taking a task for an auction, or not for one.
LEMMA TakenTasks ==
  ASSUME AuctionsTypes, NEW type \in {"auction", "timeout", "record"},
         NextTask(type)
  PROVE  /\ Rest(task_queue) \in Seq(Tasks)
         /\ \A t \in {"auction", "timeout"}, n \in Auctions :
              CountOf(Rest(task_queue), Of(t, n))
                = NumberOf(t, n) - One(t = type /\ n = task_queue[1].auction)
<1>1. task_queue \in Seq(Tasks) /\ task_queue # <<>>
  BY DEF AuctionsTypes, NextTask
<1>2. /\ Rest(task_queue) \in Seq(Tasks)
      /\ \A P : CountOf(Rest(task_queue), P)
                = CountOf(task_queue, P) - (IF task_queue[1] \in P THEN 1 ELSE 0)
  BY <1>1, RestLacksTheRoot
<1>3. \A t \in {"auction", "timeout"}, n \in Auctions :
        task_queue[1] \in Of(t, n) <=> t = type /\ n = task_queue[1].auction
  BY HeadIsATask DEF Of
<1>4. QED
  BY <1>2, <1>3 DEF NumberOf, One

LEMMA PutTasks ==
  ASSUME NEW heap \in Seq(Tasks), NEW task \in Tasks
  PROVE  /\ Put(heap, task) \in Seq(Tasks)
         /\ \A t \in {"auction", "timeout"}, n \in Auctions :
              CountOf(Put(heap, task), Of(t, n))
                = CountOf(heap, Of(t, n)) + One(t = task.type /\ n = task.auction)
<1>1. /\ Put(heap, task) \in Seq(Tasks)
      /\ \A P : CountOf(Put(heap, task), P)
                = CountOf(heap, P) + (IF task \in P THEN 1 ELSE 0)
  BY PutAdds
<1>2. \A t \in {"auction", "timeout"}, n \in Auctions :
        task \in Of(t, n) <=> t = task.type /\ n = task.auction
  BY DEF Of
<1>3. QED
  BY <1>1, <1>2 DEF One

\* new has one task of an auction more than old.
HasOneMore(new, old, type, m) ==
  \A t \in {"auction", "timeout"}, n \in Auctions :
    CountOf(new, Of(t, n)) = CountOf(old, Of(t, n)) + One(t = type /\ n = m)

\* Asking for a task of an auction, or for another.
LEMMA NewTask ==
  ASSUME NEW heap \in Seq(Tasks), NEW key \in 0 .. 2,
         NEW type \in {"auction", "timeout"}, NEW m \in Auctions
  PROVE  /\ Put(heap, Task(key, type, m)) \in Seq(Tasks)
         /\ HasOneMore(Put(heap, Task(key, type, m)), heap, type, m)
<1> DEFINE task == Task(key, type, m)
<1>1. task \in Tasks /\ task.type = type /\ task.auction = m
  BY DEF Tasks, Task
<1> HIDE DEF task
<1>2. /\ Put(heap, task) \in Seq(Tasks)
      /\ \A t \in {"auction", "timeout"}, n \in Auctions :
           CountOf(Put(heap, task), Of(t, n))
             = CountOf(heap, Of(t, n)) + One(t = task.type /\ n = task.auction)
  BY <1>1, PutTasks
<1>3. QED
  BY <1>1, <1>2 DEF task, HasOneMore

LEMMA NewRecord ==
  ASSUME NEW heap \in Seq(Tasks), NEW key \in 0 .. 2
  PROVE  /\ Put(heap, Task(key, "record", None)) \in Seq(Tasks)
         /\ \A t \in {"auction", "timeout"}, n \in Auctions :
              CountOf(Put(heap, Task(key, "record", None)), Of(t, n))
                = CountOf(heap, Of(t, n))
<1> DEFINE task == Task(key, "record", None)
<1>1. task \in Tasks /\ task.type = "record"
  BY DEF Tasks, Task
<1> HIDE DEF task
<1>2. /\ Put(heap, task) \in Seq(Tasks)
      /\ \A t \in {"auction", "timeout"}, n \in Auctions :
           CountOf(Put(heap, task), Of(t, n))
             = CountOf(heap, Of(t, n)) + One(t = task.type /\ n = task.auction)
  BY <1>1, PutTasks
<1>3. \A t \in {"auction", "timeout"}, n \in Auctions :
        CountOf(heap, Of(t, n)) + One(t = task.type /\ n = task.auction)
          = CountOf(heap, Of(t, n))
  BY <1>1, NumbersAreNumbers DEF One
<1>4. QED
  BY <1>2, <1>3 DEF task

-----------------------------------------------------------------------------
(* Where auctions are.                                                     *)

\* A move of auctions, from the numbers of tasks before it and after it.
LEMMA PlacesInit == AuctionsAssumption /\ AuctionsInit => AuctionsArePlaced
<1> SUFFICES ASSUME AuctionsAssumption, AuctionsInit PROVE AuctionsArePlaced
  OBVIOUS
<1>1. \A type, n : NumberOf(type, n) = 0
  BY NothingIsCounted DEF AuctionsInit, NumberOf
<1>2. QED
  BY <1>1 DEF AuctionsInit, AuctionsArePlaced, One, Auctions, None,
     AuctionsAssumption

LEMMA PlacesNext ==
  ASSUME AuctionsAssumption, AuctionsTypes, AuctionsArePlaced,
         [AuctionsNext]_auctionsVars
  PROVE  AuctionsArePlaced'
<1> DEFINE Of2 == {"auction", "timeout"}
<1>0. \A t \in Of2, n \in Auctions : NumberOf(t, n) \in Nat
  BY NumbersAreNumbers DEF AuctionsTypes, NumberOf
<1>n. \A n \in Auctions : n \in Nat /\ n # None /\ n <= MaxAuctions
  BY DEF Auctions, None, AuctionsAssumption
<1>a. asked \in Nat /\ MaxAuctions \in Nat /\ active_auctions \subseteq Auctions
  BY DEF AuctionsTypes, AuctionsAssumption
<1>1. ASSUME NEW key \in 0 .. 2, AskForAuction(key) PROVE AuctionsArePlaced'
  <2>1. asked + 1 \in Auctions /\ asked' = asked + 1
    BY <1>1, <1>a DEF AskForAuction, Auctions
  <2>2. \A t \in Of2, n \in Auctions :
          NumberOf(t, n)' = NumberOf(t, n) + One(t = "auction" /\ n = asked + 1)
    <3>1. task_queue \in Seq(Tasks)
      BY DEF AuctionsTypes
    <3>2. HasOneMore(Put(task_queue, Task(key, "auction", asked + 1)), task_queue,
                     "auction", asked + 1)
      BY <2>1, <3>1, NewTask
    <3>3. QED
      BY <1>1, <3>2 DEF AskForAuction, NumberOf, HasOneMore
  <2>3. QED
    BY <1>1, <1>0, <1>n, <1>a, <2>1, <2>2
       DEF AskForAuction, AuctionsArePlaced, One
<1>2. ASSUME NEW key \in 0 .. 2, AskForRecord(key) PROVE AuctionsArePlaced'
  <2>1. \A t \in Of2, n \in Auctions : NumberOf(t, n)' = NumberOf(t, n)
    <3>1. task_queue \in Seq(Tasks)
      BY DEF AuctionsTypes
    <3>2. \A t \in Of2, n \in Auctions :
            CountOf(Put(task_queue, Task(key, "record", None)), Of(t, n))
              = CountOf(task_queue, Of(t, n))
      BY <3>1, NewRecord
    <3>3. QED
      BY <1>2, <3>2 DEF AskForRecord, NumberOf
  <2>2. QED
    BY <1>2, <2>1 DEF AskForRecord, AuctionsArePlaced, One
<1>3. CASE AnnounceAuction
  <2>1. NextTask("auction") /\ task_queue[1].auction \in Auctions
        /\ announcing = None
    BY <1>3, HeadIsATask DEF AnnounceAuction
  <2>2. \A t \in Of2, n \in Auctions :
          NumberOf(t, n)' = NumberOf(t, n)
                              - One(t = "auction" /\ n = task_queue[1].auction)
    BY <1>3, <2>1, TakenTasks DEF AnnounceAuction, NumberOf
  <2>3. QED
    BY <1>3, <1>0, <1>n, <2>1, <2>2
       DEF AnnounceAuction, AuctionsArePlaced, One
<1>4. CASE ListAuction
  <2>1. announcing \in Auctions
    BY <1>4 DEF ListAuction, AuctionsTypes
  <2>2. \A t \in Of2, n \in Auctions :
          NumberOf(t, n)' = NumberOf(t, n) + One(t = "timeout" /\ n = announcing)
    <3>1. task_queue \in Seq(Tasks) /\ 2 \in 0 .. 2
      BY DEF AuctionsTypes
    <3>2. HasOneMore(Put(task_queue, Task(2, "timeout", announcing)), task_queue,
                     "timeout", announcing)
      BY <2>1, <3>1, NewTask
    <3>3. QED
      BY <1>4, <3>2 DEF ListAuction, NumberOf, HasOneMore
  <2>3. announcing \notin active_auctions
    <3>1. NumberOf("auction", announcing) \in Nat
      BY <1>0, <2>1
    <3>2. NumberOf("auction", announcing) + One(announcing = announcing)
            + One(announcing \in active_auctions)
            + One(taken_auctions[announcing] # None) = One(announcing <= asked)
      BY <2>1 DEF AuctionsArePlaced
    <3>3. QED
      BY <3>1, <3>2 DEF One
  <2>4. QED
    BY <1>4, <1>0, <1>n, <2>1, <2>2, <2>3
       DEF ListAuction, AuctionsArePlaced, One
<1>5. CASE DoRecord
  <2>1. \A t \in Of2, n \in Auctions : NumberOf(t, n)' = NumberOf(t, n)
    BY <1>0, <1>5, TakenTasks DEF DoRecord, NumberOf, One
  <2>2. QED
    BY <1>5, <2>1 DEF DoRecord, AuctionsArePlaced, One
<1>6. CASE SellAuction
  <2> DEFINE n0 == task_queue[1].auction
  <2>1. NextTask("timeout") /\ n0 \in Auctions
    BY <1>6, HeadIsATask DEF SellAuction
  <2>2. \A t \in Of2, n \in Auctions :
          NumberOf(t, n)' = NumberOf(t, n) - One(t = "timeout" /\ n = n0)
    BY <1>6, <2>1, TakenTasks DEF SellAuction, NumberOf
  <2>3. /\ n0 \in active_auctions /\ active_auctions' = active_auctions \ {n0}
        /\ bids[n0] # <<>>
        /\ taken_auctions' = [taken_auctions EXCEPT ![n0] = LowestBid(bids[n0]).client]
    BY <1>6 DEF SellAuction, AuctionsTypes
  <2>4. LowestBid(bids[n0]).client # None
    <3>1. bids[n0] \in Seq(BidType)
      BY <2>1 DEF AuctionsTypes
    <3>2. PICK i \in DOMAIN bids[n0] : LowestBid(bids[n0]) = bids[n0][i]
      BY <2>3, <3>1, LowestBidIsLowest
    <3>3. bids[n0][i] \in BidType
      BY <3>1, <3>2, ElementOfSeq, LenProperties
    <3>4. QED
      BY <3>2, <3>3 DEF BidType, AuctionsAssumption, None
  <2> HIDE DEF n0
  <2>5. \A n \in Auctions :
          taken_auctions'[n] = IF n = n0 THEN LowestBid(bids[n0]).client
                               ELSE taken_auctions[n]
    BY <2>3 DEF AuctionsTypes
  <2>6. asked' = asked /\ announcing' = announcing
    BY <1>6 DEF SellAuction
  <2>7. taken_auctions[n0] = None
    BY <1>0, <2>1, <2>3, <1>n, <1>a DEF AuctionsArePlaced, One
  <2>8. ASSUME NEW n \in Auctions
        PROVE  /\ NumberOf("timeout", n)' = One(n \in active_auctions')
               /\ NumberOf("auction", n)' + One(announcing' = n)
                    + One(n \in active_auctions')
                    + One(taken_auctions'[n] # None) = One(n <= asked')
    <3>1. /\ NumberOf("timeout", n) = One(n \in active_auctions)
          /\ NumberOf("auction", n) + One(announcing = n)
               + One(n \in active_auctions) + One(taken_auctions[n] # None)
               = One(n <= asked)
          /\ NumberOf("timeout", n) \in Nat /\ NumberOf("auction", n) \in Nat
      BY <1>0 DEF AuctionsArePlaced
    <3>2. /\ NumberOf("timeout", n)' = NumberOf("timeout", n) - One(n = n0)
          /\ NumberOf("auction", n)' = NumberOf("auction", n)
      BY <2>2, <3>1 DEF One
    <3>3. n \in active_auctions' <=> n \in active_auctions /\ n # n0
      BY <2>3
    <3>4. CASE n = n0
      BY <2>3, <2>4, <2>5, <2>6, <2>7, <3>1, <3>2, <3>3, <3>4 DEF One
    <3>5. CASE n # n0
      BY <2>5, <2>6, <3>1, <3>2, <3>3, <3>5 DEF One
    <3>6. QED
      BY <3>4, <3>5
  <2>9. QED
    BY <2>8 DEF AuctionsArePlaced
<1>7. CASE WaitForBids
  <2> DEFINE n0 == task_queue[1].auction
  <2>1. /\ NextTask("timeout") /\ n0 \in Auctions /\ task_queue[1] \in Tasks
        /\ task_queue[1].type = "timeout"
    BY <1>7, HeadIsATask DEF WaitForBids
  <2>2. /\ Rest(task_queue) \in Seq(Tasks)
        /\ \A t \in Of2, n \in Auctions :
             CountOf(Rest(task_queue), Of(t, n))
               = NumberOf(t, n) - One(t = "timeout" /\ n = n0)
    BY <2>1, TakenTasks
  <2>3. \A t \in Of2, n \in Auctions :
          CountOf(Put(Rest(task_queue), task_queue[1]), Of(t, n))
            = CountOf(Rest(task_queue), Of(t, n)) + One(t = "timeout" /\ n = n0)
    BY <2>1, <2>2, PutTasks
  <2>4. \A t \in Of2, n \in Auctions : NumberOf(t, n)' = NumberOf(t, n)
    <3>1. task_queue' = Put(Rest(task_queue), task_queue[1])
      BY <1>7 DEF WaitForBids
    <3> HIDE DEF n0
    <3>2. QED
      BY <1>0, <2>2, <2>3, <3>1 DEF NumberOf, One
  <2>5. QED
    BY <1>7, <2>4 DEF WaitForBids, AuctionsArePlaced, One
<1>8. CASE UNCHANGED <<task_queue, asked, announcing, active_auctions,
                       taken_auctions>>
  BY <1>8 DEF AuctionsArePlaced, NumberOf, One
<1>9. ASSUME NEW n \in Auctions, TimePasses(n) PROVE AuctionsArePlaced'
  BY <1>8, <1>9 DEF TimePasses
<1>10. ASSUME NEW c \in Clients,
              ReceiveBid(c) \/ ClientConnects(c) \/ ClientEnds(c)
                \/ ClientHandles(c) \/ BeginWork(c)
       PROVE  AuctionsArePlaced'
  <2>1. UNCHANGED serverVars /\ UNCHANGED asked
    BY <1>10 DEF ReceiveBid, ClientConnects, ClientEnds, ClientHandles, BeginWork
  <2>2. QED
    BY <2>1, <1>8 DEF serverVars
<1>11. CASE UNCHANGED auctionsVars
  BY <1>8, <1>11 DEF auctionsVars, serverVars
<1>12. QED
  BY <1>1, <1>2, <1>3, <1>4, <1>5, <1>6, <1>7, <1>9, <1>10, <1>11
     DEF AuctionsNext, WorkerNext

LEMMA ListedIsNotTaken ==
  ASSUME AuctionsTypes, AuctionsArePlaced, NEW n \in active_auctions
  PROVE  n \in Auctions /\ taken_auctions[n] = None
<1>1. n \in Auctions /\ task_queue \in Seq(Tasks)
  BY DEF AuctionsTypes
<1>2. NumberOf("auction", n) \in Nat
  BY <1>1, NumbersAreNumbers DEF NumberOf
<1>3. NumberOf("auction", n) + One(announcing = n) + One(n \in active_auctions)
        + One(taken_auctions[n] # None) = One(n <= asked)
  BY <1>1 DEF AuctionsArePlaced
<1>4. QED
  BY <1>1, <1>2, <1>3 DEF One

-----------------------------------------------------------------------------
(* Who is gone, and who got an auction.                                    *)

\* The first of a list, what is left of it, and one more.
LEMMA ListItems ==
  ASSUME NEW S, NEW list \in Seq(S)
  PROVE  /\ \A x \in S : /\ Append(list, x) \in Seq(S) /\ Append(list, x) # <<>>
                         /\ \A i \in DOMAIN Append(list, x) :
                              Append(list, x)[i] = x
                                \/ (i \in DOMAIN list /\ Append(list, x)[i] = list[i])
                         /\ \A i \in DOMAIN list :
                              /\ i \in DOMAIN Append(list, x)
                              /\ Append(list, x)[i] = list[i]
         /\ list # <<>> =>
              /\ Head(list) \in S /\ Tail(list) \in Seq(S)
              /\ 1 \in DOMAIN list /\ Head(list) = list[1]
              /\ \A i \in DOMAIN Tail(list) :
                   i + 1 \in DOMAIN list /\ Tail(list)[i] = list[i + 1]
<1>1. Len(list) \in Nat /\ DOMAIN list = 1 .. Len(list)
  BY LenProperties
<1>2. ASSUME NEW x \in S
      PROVE  /\ Append(list, x) \in Seq(S) /\ Append(list, x) # <<>>
             /\ \A i \in DOMAIN Append(list, x) :
                  Append(list, x)[i] = x
                    \/ (i \in DOMAIN list /\ Append(list, x)[i] = list[i])
             /\ \A i \in DOMAIN list :
                  /\ i \in DOMAIN Append(list, x)
                  /\ Append(list, x)[i] = list[i]
  <2> DEFINE t == Append(list, x)
  <2>1. /\ t \in Seq(S) /\ t # <<>> /\ Len(t) = Len(list) + 1
        /\ \A i \in 1 .. Len(list) : t[i] = list[i]
        /\ t[Len(list) + 1] = x
    BY AppendProperties
  <2> HIDE DEF t
  <2>2. DOMAIN t = 1 .. Len(list) + 1
    BY <2>1, LenProperties
  <2>3. QED
    BY <1>1, <2>1, <2>2 DEF t
<1>3. ASSUME list # <<>>
      PROVE  /\ Head(list) \in S /\ Tail(list) \in Seq(S)
             /\ 1 \in DOMAIN list /\ Head(list) = list[1]
             /\ \A i \in DOMAIN Tail(list) :
                  i + 1 \in DOMAIN list /\ Tail(list)[i] = list[i + 1]
  <2> DEFINE t == Tail(list)
  <2>1. /\ Head(list) \in S /\ t \in Seq(S) /\ Len(t) = Len(list) - 1
        /\ \A i \in 1 .. Len(t) : t[i] = list[i + 1]
        /\ Head(list) = list[1] /\ Len(list) # 0
    BY <1>3, HeadTailProperties, EmptySeq
  <2> HIDE DEF t
  <2>2. DOMAIN t = 1 .. Len(list) - 1
    BY <2>1, LenProperties
  <2>3. QED
    BY <1>1, <2>1, <2>2 DEF t
<1>4. QED
  BY <1>2, <1>3

\* Whoever works on auctions has no more of them than there are.
LEMMA QueueIsShort ==
  ASSUME AuctionsAssumption, AuctionsTypes, WorkIsPlaced, NEW c \in Clients
  PROVE  Len(work_queue[c]) \in 0 .. MaxAuctions
<1> DEFINE list == work_queue[c]
           n == Len(list)
<1>1. list \in Seq(Auctions) /\ toClient[c] \in Seq(Messages)
  BY DEF AuctionsTypes
<1> HIDE DEF list
<1>2. n \in Nat /\ DOMAIN list = 1 .. n /\ \A i \in 1 .. n : list[i] \in Auctions
  BY <1>1, LenProperties, ElementOfSeq
<1>3. ASSUME NEW m \in Auctions PROVE CountOf(list, {m}) <= 1
  <2>1. CountOf(list, {m}) \in Nat /\ CountOf(toClient[c], {WorkMessage(m)}) \in Nat
    BY <1>1, CountIsANumber
  <2>2. Works(m)[c] = CountOf(toClient[c], {WorkMessage(m)}) + CountOf(list, {m})
    BY DEF Works, WorkIn, list
  <2>3. begun[m] \in Nat /\ taken_auctions[m] \in Clients \union {None}
    BY DEF AuctionsTypes
  <2>4. /\ c # taken_auctions[m] => Works(m)[c] = 0
        /\ taken_auctions[m] # None => begun[m] + Works(m)[taken_auctions[m]] <= 1
    BY DEF WorkIsPlaced, IsPlaced
  <2>5. c # None
    BY DEF AuctionsAssumption, None
  <2>6. Works(m)[c] <= 1
    <3>1. Works(m)[c] \in Nat
      BY <2>1, <2>2
    <3>2. QED
      BY <3>1, <2>3, <2>4, <2>5
  <2>7. QED
    BY <2>1, <2>2, <2>6
<1>4. ASSUME NEW i \in 1 .. n, NEW j \in 1 .. n, list[i] = list[j] PROVE i = j
  <2> DEFINE m == list[i]
  <2>1. m \in Auctions /\ list[i] = m /\ list[j] = m /\ i \in DOMAIN list /\ j \in DOMAIN list
    BY <1>2, <1>4
  <2> HIDE DEF m, n
  <2>2. CountOf(list, {m}) <= 1
    BY <1>3, <2>1
  <2>3. QED
    BY <1>1, <2>1, <2>2, CountedOnce
<1>5. list \in Injection(1 .. n, Auctions)
  <2>1. list \in [1 .. n -> Auctions]
    BY <1>1, <1>2, SeqDef
  <2> HIDE DEF n
  <2>2. QED
    BY <2>1, <1>4 DEF Injection, IsInjective
<1> HIDE DEF n
<1>6. IsFiniteSet(Auctions) /\ Cardinality(Auctions) = MaxAuctions
  BY FS_Interval DEF Auctions, AuctionsAssumption
<1>7. Cardinality(1 .. n) = n
  BY <1>2, FS_Interval
<1>8. n <= MaxAuctions
  BY <1>5, <1>6, <1>7, FS_Injection
<1>9. QED
  BY <1>2, <1>8 DEF n, list, AuctionsAssumption

LEMMA GoneNext ==
  ASSUME AuctionsAssumption, AuctionsTypes, WhoIsGone, WorkIsPlaced,
         [AuctionsNext]_auctionsVars
  PROVE  WhoIsGone'
<1> DEFINE Silent == /\ \A c \in Clients :
                          running[c] # "runs" => toClient[c] = <<>> /\ work_queue[c] = <<>>
           Sent == \A c \in Clients : \A i \in DOMAIN toServer[c] :
                     running[toServer[c][i].client] # "waits"
           Bid == \A n \in Auctions : \A i \in DOMAIN bids[n] :
                    running[bids[n][i].client] # "waits"
<1>0. Silent /\ Sent /\ Bid /\ (WhoIsGone' <=> Silent' /\ Sent' /\ Bid')
  BY DEF WhoIsGone
<1>t. /\ \A c \in Clients : toClient[c] \in Seq(Messages) /\ toServer[c] \in Seq(BidType)
      /\ \A n \in Auctions : bids[n] \in Seq(BidType)
      /\ DOMAIN running = Clients /\ DOMAIN toClient = Clients
      /\ DOMAIN toServer = Clients /\ DOMAIN work_queue = Clients
      /\ DOMAIN bids = Auctions
  BY DEF AuctionsTypes
<1>1. CASE UNCHANGED <<running, toClient, work_queue, toServer, bids>>
  BY <1>1 DEF WhoIsGone
<1>2. CASE AnnounceAuction
  <2>1. \A c \in Clients : running[c] # "runs" => toClient'[c] = toClient[c]
    BY <1>2, <1>t DEF AnnounceAuction, Broadcast
  <2>2. UNCHANGED <<running, work_queue, toServer, bids>>
    BY <1>2 DEF AnnounceAuction, clientVars
  <2>3. QED
    BY <1>0, <2>1, <2>2
<1>3. CASE SellAuction
  <2>1. \A c \in Clients : running[c] # "runs" => toClient'[c] = toClient[c]
    BY <1>3, <1>t DEF SellAuction
  <2>2. UNCHANGED <<running, work_queue, toServer, bids>>
    BY <1>3 DEF SellAuction, clientVars
  <2>3. QED
    BY <1>0, <2>1, <2>2
<1>4. ASSUME NEW c \in Clients, ReceiveBid(c) PROVE WhoIsGone'
  <2>1. UNCHANGED <<running, toClient, work_queue>>
    BY <1>4 DEF ReceiveBid, clientVars
  <2>2. /\ toServer[c] # <<>> /\ toServer[c] \in Seq(BidType)
        /\ toServer' = [toServer EXCEPT ![c] = Tail(toServer[c])]
    BY <1>4, <1>t DEF ReceiveBid
  <2>3. /\ \A i \in DOMAIN Tail(toServer[c]) :
             i + 1 \in DOMAIN toServer[c] /\ Tail(toServer[c])[i] = toServer[c][i + 1]
        /\ 1 \in DOMAIN toServer[c] /\ Head(toServer[c]) = toServer[c][1]
        /\ Head(toServer[c]) \in BidType
    BY <2>2, ListItems
  <2>4. Sent'
    BY <1>0, <1>t, <2>1, <2>2, <2>3
  <2>5. running[Head(toServer[c]).client] # "waits"
    BY <1>0, <2>3
  <2>6. ASSUME NEW n \in Auctions, NEW i \in DOMAIN bids'[n]
        PROVE  \/ bids'[n][i] = Head(toServer[c])
               \/ i \in DOMAIN bids[n] /\ bids'[n][i] = bids[n][i]
    <3>1. bids'[n] = bids[n] \/ bids'[n] = Append(bids[n], Head(toServer[c]))
      BY <1>4, <1>t DEF ReceiveBid
    <3>2. CASE bids'[n] = bids[n]
      BY <3>2
    <3>3. CASE bids'[n] = Append(bids[n], Head(toServer[c]))
      <4>1. bids[n] \in Seq(BidType)
        BY <1>t
      <4>2. \A k \in DOMAIN Append(bids[n], Head(toServer[c])) :
              \/ Append(bids[n], Head(toServer[c]))[k] = Head(toServer[c])
              \/ /\ k \in DOMAIN bids[n]
                 /\ Append(bids[n], Head(toServer[c]))[k] = bids[n][k]
        BY <2>3, <4>1, ListItems
      <4>3. QED
        BY <3>3, <4>2
    <3>4. QED
      BY <3>1, <3>2, <3>3
  <2>7. Bid'
    BY <1>0, <2>1, <2>5, <2>6
  <2>8. QED
    BY <1>0, <2>1, <2>4, <2>7
<1>5. ASSUME NEW c \in Clients, ClientConnects(c) PROVE WhoIsGone'
  <2>1. /\ UNCHANGED <<toClient, work_queue, toServer, bids>>
        /\ running' = [running EXCEPT ![c] = "runs"]
    BY <1>5 DEF ClientConnects
  <2>2. \A x : running[x] # "waits" => running'[x] # "waits"
    BY <2>1, <1>t
  <2>3. \A x \in Clients : running'[x] # "runs" => running[x] # "runs"
    BY <2>1, <1>t
  <2>4. QED
    BY <1>0, <2>1, <2>2, <2>3
<1>6. ASSUME NEW c \in Clients, ClientEnds(c) PROVE WhoIsGone'
  <2>1. /\ UNCHANGED <<toServer, bids>>
        /\ running' = [running EXCEPT ![c] = "ended"]
        /\ toClient' = [toClient EXCEPT ![c] = <<>>]
        /\ work_queue' = [work_queue EXCEPT ![c] = <<>>]
    BY <1>6 DEF ClientEnds
  <2>2. \A x : running[x] # "waits" => running'[x] # "waits"
    BY <2>1, <1>t
  <2>3. Silent'
    BY <1>0, <1>t, <2>1
  <2>4. QED
    BY <1>0, <2>1, <2>2, <2>3
<1>7. ASSUME NEW c \in Clients, ClientHandles(c) PROVE WhoIsGone'
  <2>1. UNCHANGED <<running, bids>> /\ toClient[c] # <<>>
    BY <1>7 DEF ClientHandles
  <2>2. running[c] = "runs"
    BY <1>0, <2>1
  <2>3. \A x \in Clients : x # c => toClient'[x] = toClient[x] /\ work_queue'[x] = work_queue[x]
    BY <1>7, <1>t DEF ClientHandles
  <2>4. Silent'
    BY <1>0, <2>1, <2>2, <2>3
  <2>5. toServer' = toServer
          \/ \E bid : /\ bid.client = c /\ bid \in BidType
                     /\ toServer' = [toServer EXCEPT ![c] = Append(toServer[c], bid)]
    <3>1. CASE Head(toClient[c]).type = "task"
      BY <1>7, <3>1 DEF ClientHandles
    <3>2. CASE Head(toClient[c]).type # "task"
      <4> DEFINE bid == [auction |-> Head(toClient[c]).auction, client |-> c,
                         workload |-> Len(work_queue[c])]
      <4>1. toServer' = [toServer EXCEPT ![c] = Append(toServer[c], bid)]
        BY <1>7, <3>2 DEF ClientHandles
      <4>2. bid \in BidType
        <5>1. Head(toClient[c]) \in Messages
          BY <1>t, <2>1, ListItems
        <5>2. Len(work_queue[c]) \in 0 .. MaxAuctions
          BY QueueIsShort
        <5>3. QED
          BY <5>1, <5>2 DEF Messages, BidType
      <4>3. bid.client = c
        OBVIOUS
      <4> HIDE DEF bid
      <4>4. QED
        BY <4>1, <4>2, <4>3
    <3>3. QED
      BY <3>1, <3>2
  <2>6. Sent'
    <3>1. CASE toServer' = toServer
      BY <1>0, <2>1, <3>1
    <3>2. ASSUME NEW bid, bid.client = c, bid \in BidType,
                 toServer' = [toServer EXCEPT ![c] = Append(toServer[c], bid)]
          PROVE  Sent'
      <4>1. \A i \in DOMAIN Append(toServer[c], bid) :
              Append(toServer[c], bid)[i] = bid
                \/ (i \in DOMAIN toServer[c]
                      /\ Append(toServer[c], bid)[i] = toServer[c][i])
        BY <1>t, <3>2, ListItems
      <4>2. QED
        BY <1>0, <1>t, <2>1, <2>2, <3>2, <4>1
    <3>3. QED
      BY <2>5, <3>1, <3>2
  <2>7. QED
    BY <1>0, <2>1, <2>4, <2>6
<1>8. ASSUME NEW c \in Clients, BeginWork(c) PROVE WhoIsGone'
  <2>1. UNCHANGED <<running, bids, toClient, toServer>> /\ work_queue[c] # <<>>
    BY <1>8 DEF BeginWork
  <2>2. running[c] = "runs"
    BY <1>0, <2>1
  <2>3. \A x \in Clients : x # c => work_queue'[x] = work_queue[x]
    BY <1>8, <1>t DEF BeginWork
  <2>4. QED
    BY <1>0, <2>1, <2>2, <2>3
<1>9. CASE UNCHANGED auctionsVars
  BY <1>1, <1>9 DEF auctionsVars, clientVars
<1>10. ASSUME \/ \E key \in {0, 2} : AskForAuction(key)
              \/ \E key \in 0 .. 2 : AskForRecord(key)
              \/ ListAuction \/ DoRecord \/ WaitForBids
              \/ \E n \in Auctions : TimePasses(n)
       PROVE  WhoIsGone'
  <2>1. UNCHANGED <<running, toClient, work_queue, toServer, bids>>
    BY <1>10 DEF AskForAuction, AskForRecord, ListAuction, DoRecord,
       WaitForBids, TimePasses, clientVars
  <2>2. QED
    BY <1>1, <2>1
<1>11. QED
  BY <1>2, <1>3, <1>4, <1>5, <1>6, <1>7, <1>8, <1>9, <1>10
     DEF AuctionsNext, WorkerNext

LEMMA TakenNext ==
  ASSUME AuctionsAssumption, AuctionsTypes, AuctionsArePlaced,
         TakenByTheLowest, [AuctionsNext]_auctionsVars
  PROVE  TakenByTheLowest'
<1> DEFINE Got(n) ==
             \E i \in DOMAIN bids[n] :
               /\ bids[n][i].client = taken_auctions[n]
               /\ \A j \in DOMAIN bids[n] : bids[n][i].workload <= bids[n][j].workload
<1>1. CASE UNCHANGED <<bids, taken_auctions>>
  BY <1>1 DEF TakenByTheLowest
<1>2. CASE SellAuction
  <2> DEFINE n0 == task_queue[1].auction
  <2>1. n0 \in Auctions
    BY <1>2, HeadIsATask DEF SellAuction
  <2>2. /\ taken_auctions' = [taken_auctions EXCEPT ![n0] = LowestBid(bids[n0]).client]
        /\ bids[n0] # <<>> /\ bids' = bids
    BY <1>2 DEF SellAuction
  <2>3. bids[n0] \in Seq(BidType) /\ DOMAIN taken_auctions = Auctions
    BY <2>1 DEF AuctionsTypes
  <2> HIDE DEF n0
  <2>4. ASSUME NEW n \in Auctions, taken_auctions'[n] # None
        PROVE  Got(n)'
    <3>1. CASE n = n0
      <4>1. taken_auctions'[n] = LowestBid(bids[n0]).client
        BY <2>1, <2>2, <2>3, <3>1
      <4>2. PICK i \in DOMAIN bids[n0] :
              /\ LowestBid(bids[n0]) = bids[n0][i]
              /\ \A j \in DOMAIN bids[n0] :
                   bids[n0][i].workload <= bids[n0][j].workload
        BY <2>2, <2>3, LowestBidIsLowest
      <4>3. QED
        BY <2>2, <3>1, <4>1, <4>2
    <3>2. CASE n # n0
      <4>1. taken_auctions'[n] = taken_auctions[n]
        BY <2>2, <3>2
      <4>2. Got(n)
        BY <2>4, <4>1 DEF TakenByTheLowest
      <4>3. QED
        BY <2>2, <4>1, <4>2
    <3>3. QED
      BY <3>1, <3>2
  <2>5. QED
    BY <2>4 DEF TakenByTheLowest
<1>3. ASSUME NEW c \in Clients, ReceiveBid(c) PROVE TakenByTheLowest'
  <2>1. taken_auctions' = taken_auctions
    BY <1>3 DEF ReceiveBid, serverVars
  <2>2. ASSUME NEW n \in Auctions, taken_auctions[n] # None
        PROVE  bids'[n] = bids[n]
    <3>1. n \notin active_auctions
      BY <2>2, ListedIsNotTaken
    <3>2. DOMAIN bids = Auctions
      BY DEF AuctionsTypes
    <3>3. QED
      BY <1>3, <3>1, <3>2 DEF ReceiveBid
  <2>3. QED
    BY <2>1, <2>2 DEF TakenByTheLowest
<1>4. CASE UNCHANGED auctionsVars
  BY <1>1, <1>4 DEF auctionsVars, serverVars
<1>5. ASSUME \/ \E key \in {0, 2} : AskForAuction(key)
             \/ \E key \in 0 .. 2 : AskForRecord(key)
             \/ AnnounceAuction \/ ListAuction \/ DoRecord \/ WaitForBids
             \/ \E n \in Auctions : TimePasses(n)
             \/ \E c \in Clients : \/ ClientConnects(c) \/ ClientEnds(c)
                                   \/ ClientHandles(c) \/ BeginWork(c)
      PROVE  TakenByTheLowest'
  <2>1. UNCHANGED <<bids, taken_auctions>>
    BY <1>5 DEF AskForAuction, AskForRecord, AnnounceAuction, ListAuction,
       DoRecord, WaitForBids, TimePasses, ClientConnects, ClientEnds,
       ClientHandles, BeginWork, serverVars
  <2>2. QED
    BY <1>1, <2>1
<1>6. QED
  BY <1>2, <1>3, <1>4, <1>5 DEF AuctionsNext, WorkerNext

-----------------------------------------------------------------------------
(* Types.                                                                  *)

LEMMA AuctionsTypesNext ==
  ASSUME AuctionsAssumption, AuctionsTypes, WorkIsPlaced,
         [AuctionsNext]_auctionsVars
  PROVE  AuctionsTypes'
<1>t. /\ task_queue \in Seq(Tasks)
      /\ \A c \in Clients : /\ toClient[c] \in Seq(Messages)
                            /\ toServer[c] \in Seq(BidType)
                            /\ work_queue[c] \in Seq(Auctions)
      /\ \A n \in Auctions : bids[n] \in Seq(BidType)
  BY DEF AuctionsTypes
<1>1. ASSUME NEW key \in 0 .. 2, AskForAuction(key) PROVE AuctionsTypes'
  <2>1. asked + 1 \in Auctions /\ asked' \in 0 .. MaxAuctions
    BY <1>1 DEF AskForAuction, Auctions, AuctionsTypes, AuctionsAssumption
  <2>2. task_queue' \in Seq(Tasks)
    BY <1>1, <1>t, <2>1, NewTask DEF AskForAuction
  <2>3. QED
    BY <1>1, <2>1, <2>2 DEF AskForAuction, AuctionsTypes, clientVars
<1>2. ASSUME NEW key \in 0 .. 2, AskForRecord(key) PROVE AuctionsTypes'
  <2>1. task_queue' \in Seq(Tasks)
    BY <1>2, <1>t, NewRecord DEF AskForRecord
  <2>2. QED
    BY <1>2, <2>1 DEF AskForRecord, AuctionsTypes, clientVars
<1>3. CASE AnnounceAuction
  <2>1. NextTask("auction") /\ task_queue[1].auction \in Auctions
    BY <1>3, HeadIsATask DEF AnnounceAuction
  <2>2. task_queue' \in Seq(Tasks)
    BY <1>3, <2>1, TakenTasks DEF AnnounceAuction
  <2> DEFINE message == [type |-> "auction", auction |-> task_queue[1].auction]
  <2>3. message \in Messages
    BY <2>1 DEF Messages
  <2>4. toClient' = [c \in Clients |-> IF running[c] = "runs"
                                      THEN Append(toClient[c], message)
                                      ELSE toClient[c]]
    BY <1>3 DEF AnnounceAuction, Broadcast
  <2> HIDE DEF message
  <2>5. \A c \in Clients : Append(toClient[c], message) \in Seq(Messages)
    BY <1>t, <2>3, ListItems
  <2>6. toClient' \in [Clients -> Seq(Messages)]
    BY <1>t, <2>4, <2>5
  <2>7. QED
    BY <1>3, <2>1, <2>2, <2>6 DEF AnnounceAuction, AuctionsTypes, clientVars
<1>4. CASE ListAuction
  <2>1. announcing \in Auctions /\ 2 \in 0 .. 2
    BY <1>4 DEF ListAuction, AuctionsTypes
  <2>2. task_queue' \in Seq(Tasks)
    BY <1>4, <1>t, <2>1, NewTask DEF ListAuction
  <2>3. QED
    BY <1>4, <2>1, <2>2 DEF ListAuction, AuctionsTypes, clientVars
<1>5. CASE DoRecord
  <2>1. task_queue' \in Seq(Tasks)
    BY <1>5, TakenTasks DEF DoRecord
  <2>2. QED
    BY <1>5, <2>1 DEF DoRecord, AuctionsTypes, clientVars
<1>6. CASE SellAuction
  <2> DEFINE n0 == task_queue[1].auction
             winner == LowestBid(bids[n0]).client
  <2>1. NextTask("timeout") /\ n0 \in Auctions /\ bids[n0] # <<>>
    BY <1>6, HeadIsATask DEF SellAuction
  <2>2. task_queue' \in Seq(Tasks)
    BY <1>6, <2>1, TakenTasks DEF SellAuction
  <2>3. winner \in Clients
    <3>1. PICK i \in DOMAIN bids[n0] : LowestBid(bids[n0]) = bids[n0][i]
      BY <1>t, <2>1, LowestBidIsLowest
    <3>2. bids[n0][i] \in BidType
      BY <1>t, <2>1, <3>1, ElementOfSeq, LenProperties
    <3>3. QED
      BY <3>1, <3>2 DEF BidType
  <2>4. /\ taken_auctions' = [taken_auctions EXCEPT ![n0] = winner]
        /\ toClient' = IF running[winner] = "runs"
                       THEN [toClient EXCEPT ![winner] =
                               Append(@, WorkMessage(n0))]
                       ELSE toClient
        /\ active_auctions' = active_auctions \ {n0}
        /\ due' = due \ {n0}
    BY <1>6 DEF SellAuction, WorkMessage
  <2>5. WorkMessage(n0) \in Messages
    BY <2>1 DEF WorkMessage, Messages
  <2> HIDE DEF n0, winner
  <2>6. toClient' \in [Clients -> Seq(Messages)]
    <3>1. Append(toClient[winner], WorkMessage(n0)) \in Seq(Messages)
      BY <1>t, <2>3, <2>5, ListItems
    <3>2. toClient \in [Clients -> Seq(Messages)]
      BY DEF AuctionsTypes
    <3>3. QED
      BY <2>3, <2>4, <3>1, <3>2
  <2>7. /\ taken_auctions' \in [Auctions -> Clients \union {None}]
        /\ active_auctions' \subseteq Auctions /\ due' \subseteq active_auctions'
    BY <2>3, <2>4 DEF AuctionsTypes
  <2>8. UNCHANGED <<asked, announcing, bids, toServer, running, work_queue, begun>>
    BY <1>6 DEF SellAuction, clientVars
  <2>9. QED
    BY <2>2, <2>6, <2>7, <2>8 DEF AuctionsTypes
<1>7. CASE WaitForBids
  <2>1. NextTask("timeout") /\ task_queue[1] \in Tasks
    BY <1>7, HeadIsATask DEF WaitForBids
  <2>2. Rest(task_queue) \in Seq(Tasks)
    BY <2>1, TakenTasks
  <2>3. task_queue' \in Seq(Tasks)
    BY <1>7, <2>1, <2>2, PutTasks DEF WaitForBids
  <2>4. QED
    BY <1>7, <2>3 DEF WaitForBids, AuctionsTypes, clientVars
<1>8. ASSUME NEW n \in Auctions, TimePasses(n) PROVE AuctionsTypes'
  BY <1>8 DEF TimePasses, AuctionsTypes, clientVars
<1>9. ASSUME NEW c \in Clients, ReceiveBid(c) PROVE AuctionsTypes'
  <2>1. Head(toServer[c]) \in BidType /\ Tail(toServer[c]) \in Seq(BidType)
    BY <1>9, <1>t, ListItems DEF ReceiveBid
  <2>2. toServer' \in [Clients -> Seq(BidType)]
    BY <1>9, <2>1 DEF ReceiveBid, AuctionsTypes
  <2>3. \A n \in Auctions : Append(bids[n], Head(toServer[c])) \in Seq(BidType)
    BY <1>t, <2>1, ListItems
  <2>4. bids' \in [Auctions -> Seq(BidType)]
    BY <1>9, <2>3 DEF ReceiveBid, AuctionsTypes
  <2>5. QED
    BY <1>9, <2>2, <2>4 DEF ReceiveBid, AuctionsTypes, serverVars, clientVars
<1>10. ASSUME NEW c \in Clients, ClientConnects(c) PROVE AuctionsTypes'
  BY <1>10 DEF ClientConnects, AuctionsTypes, serverVars
<1>11. ASSUME NEW c \in Clients, ClientEnds(c) PROVE AuctionsTypes'
  <2>1. <<>> \in Seq(Messages) /\ <<>> \in Seq(Auctions)
    OBVIOUS
  <2>2. QED
    BY <1>11, <2>1 DEF ClientEnds, AuctionsTypes, serverVars
<1>12. ASSUME NEW c \in Clients, ClientHandles(c) PROVE AuctionsTypes'
  <2> DEFINE message == Head(toClient[c])
             bid == [auction |-> message.auction, client |-> c,
                     workload |-> Len(work_queue[c])]
  <2>1. message \in Messages /\ Tail(toClient[c]) \in Seq(Messages)
    BY <1>12, <1>t, ListItems DEF ClientHandles
  <2>2. bid \in BidType
    BY <2>1, QueueIsShort DEF Messages, BidType
  <2>3. toClient' \in [Clients -> Seq(Messages)]
    BY <1>12, <2>1 DEF ClientHandles, AuctionsTypes
  <2>4. /\ toServer' = toServer \/ toServer' = [toServer EXCEPT ![c] = Append(@, bid)]
        /\ work_queue' = work_queue
             \/ work_queue' = [work_queue EXCEPT ![c] = Append(@, message.auction)]
    BY <1>12 DEF ClientHandles
  <2>5. message.auction \in Auctions
    BY <2>1 DEF Messages
  <2> HIDE DEF message, bid
  <2>6. /\ Append(toServer[c], bid) \in Seq(BidType)
        /\ Append(work_queue[c], message.auction) \in Seq(Auctions)
    BY <1>t, <2>2, <2>5, ListItems
  <2>7. /\ toServer' \in [Clients -> Seq(BidType)]
        /\ work_queue' \in [Clients -> Seq(Auctions)]
    BY <2>4, <2>6 DEF AuctionsTypes
  <2>8. UNCHANGED <<task_queue, announcing, active_auctions, due, taken_auctions,
                    asked, bids, running, begun>>
    BY <1>12 DEF ClientHandles, serverVars
  <2>9. QED
    BY <2>3, <2>7, <2>8 DEF AuctionsTypes
<1>13. ASSUME NEW c \in Clients, BeginWork(c) PROVE AuctionsTypes'
  <2>1. Head(work_queue[c]) \in Auctions /\ Tail(work_queue[c]) \in Seq(Auctions)
    BY <1>13, <1>t, ListItems DEF BeginWork
  <2>2. work_queue' \in [Clients -> Seq(Auctions)]
    BY <1>13, <2>1 DEF BeginWork, AuctionsTypes
  <2>3. begun' \in [Auctions -> Nat]
    <3>1. begun \in [Auctions -> Nat]
      BY DEF AuctionsTypes
    <3>2. begun' = [begun EXCEPT ![Head(work_queue[c])] = @ + 1]
      BY <1>13 DEF BeginWork
    <3> HIDE DEF AuctionsTypes
    <3>3. begun[Head(work_queue[c])] + 1 \in Nat
      BY <2>1, <3>1
    <3>4. QED
      BY <2>1, <3>1, <3>2, <3>3
  <2>4. QED
    BY <1>13, <2>2, <2>3 DEF BeginWork, AuctionsTypes, serverVars
<1>14. CASE UNCHANGED auctionsVars
  BY <1>14 DEF auctionsVars, AuctionsTypes, serverVars, clientVars
<1>15. QED
  BY <1>1, <1>2, <1>3, <1>4, <1>5, <1>6, <1>7, <1>8, <1>9, <1>10, <1>11,
     <1>12, <1>13, <1>14 DEF AuctionsNext, WorkerNext

-----------------------------------------------------------------------------
(* Where an auction's work is.                                             *)

LEMMA WorkNext ==
  ASSUME AuctionsAssumption, AuctionsTypes, AuctionsArePlaced, WorkIsPlaced,
         WhoIsGone, TakenByTheLowest, [AuctionsNext]_auctionsVars
  PROVE  WorkIsPlaced'
<1>t. /\ \A c \in Clients : /\ toClient[c] \in Seq(Messages)
                            /\ work_queue[c] \in Seq(Auctions)
      /\ DOMAIN toClient = Clients /\ DOMAIN work_queue = Clients
      /\ DOMAIN running = Clients /\ DOMAIN taken_auctions = Auctions
      /\ begun \in [Auctions -> Nat]
      /\ \A n \in Auctions : taken_auctions[n] \in Clients \union {None}
      /\ \A c \in Clients : c # None
  BY DEF AuctionsTypes, AuctionsAssumption, None
<1>c. ASSUME NEW c \in Clients, NEW n \in Auctions
      PROVE  /\ CountOf(toClient[c], {WorkMessage(n)}) \in Nat
             /\ CountOf(work_queue[c], {n}) \in Nat
  BY <1>t, CountIsANumber
<1>w. ASSUME NEW n \in Auctions
      PROVE  /\ Works(n) \in [Clients -> Nat]
             /\ begun[n] \in Nat
             /\ IsPlaced(taken_auctions[n], Works(n), begun[n], running)
             /\ \A c \in Clients : Works(n)[c] = WorkIn(toClient[c], work_queue[c], n)
             /\ \A c \in Clients : Works(n)'[c] = WorkIn(toClient'[c], work_queue'[c], n)
             /\ DOMAIN Works(n)' = Clients
  <2>1. ASSUME NEW c \in Clients
        PROVE  WorkIn(toClient[c], work_queue[c], n) \in Nat
    <3>1. /\ CountOf(toClient[c], {WorkMessage(n)}) \in Nat
          /\ CountOf(work_queue[c], {n}) \in Nat
      BY <1>c
    <3>2. QED
      BY <3>1 DEF WorkIn
  <2>2. QED
    BY <1>t, <2>1 DEF Works, WorkIsPlaced
<1>1. ASSUME NEW n \in Auctions,
             \A c \in Clients : WorkIn(toClient'[c], work_queue'[c], n)
                                  = WorkIn(toClient[c], work_queue[c], n)
      PROVE  Works(n)' = Works(n)
  BY <1>1 DEF Works
<1>2. ASSUME \A n \in Auctions : Works(n)' = Works(n),
             UNCHANGED <<begun, taken_auctions, running>>
      PROVE  WorkIsPlaced'
  BY <1>2 DEF WorkIsPlaced
<1>3. CASE AnnounceAuction
  <2> DEFINE message == [type |-> "auction", auction |-> task_queue[1].auction]
  <2>1. message \in Messages /\ \A n : message # WorkMessage(n)
    <3>1. task_queue[1].auction \in Auctions
      BY <1>3, HeadIsATask DEF AnnounceAuction
    <3>2. \A n : message.type # WorkMessage(n).type
      BY DEF WorkMessage
    <3>3. message \in Messages
      BY <3>1 DEF Messages
    <3> HIDE DEF message
    <3>4. QED
      BY <3>2, <3>3
  <2>2. \A c \in Clients : toClient'[c] = toClient[c]
                             \/ toClient'[c] = Append(toClient[c], message)
    BY <1>3 DEF AnnounceAuction, Broadcast
  <2>3. UNCHANGED <<work_queue, begun, taken_auctions, running>>
    BY <1>3 DEF AnnounceAuction, clientVars
  <2> HIDE DEF message
  <2>4. ASSUME NEW n \in Auctions, NEW c \in Clients
        PROVE  CountOf(toClient'[c], {WorkMessage(n)})
                 = CountOf(toClient[c], {WorkMessage(n)})
    <3>1. CASE toClient'[c] = toClient[c]
      BY <3>1
    <3>2. CASE toClient'[c] = Append(toClient[c], message)
      <4>1. CountOf(Append(toClient[c], message), {WorkMessage(n)})
              = CountOf(toClient[c], {WorkMessage(n)})
                  + (IF message \in {WorkMessage(n)} THEN 1 ELSE 0)
        BY <1>t, <2>1, AppendAdds
      <4>2. (IF message \in {WorkMessage(n)} THEN 1 ELSE 0) = 0
        BY <2>1
      <4>3. CountOf(toClient[c], {WorkMessage(n)}) \in Nat
        BY <1>c
      <4>4. CountOf(toClient[c], {WorkMessage(n)})
              + (IF message \in {WorkMessage(n)} THEN 1 ELSE 0)
              = CountOf(toClient[c], {WorkMessage(n)})
        BY <4>2, <4>3
      <4>5. QED
        BY <3>2, <4>1, <4>4
    <3>3. QED
      BY <2>2, <3>1, <3>2
  <2>5. \A n \in Auctions : Works(n)' = Works(n)
    BY <1>1, <2>3, <2>4 DEF WorkIn
  <2>6. QED
    BY <1>2, <2>3, <2>5
<1>4. CASE SellAuction
  <2> DEFINE n0 == task_queue[1].auction
             winner == LowestBid(bids[n0]).client
  <2>1. /\ n0 \in Auctions /\ bids[n0] # <<>> /\ n0 \in active_auctions
        /\ taken_auctions' = [taken_auctions EXCEPT ![n0] = winner]
        /\ toClient' = IF running[winner] = "runs"
                       THEN [toClient EXCEPT ![winner] =
                               Append(@, WorkMessage(n0))]
                       ELSE toClient
    BY <1>4, HeadIsATask DEF SellAuction, WorkMessage, AuctionsTypes
  <2>2. winner \in Clients
    <3>1. bids[n0] \in Seq(BidType)
      BY <2>1 DEF AuctionsTypes
    <3>2. PICK i \in DOMAIN bids[n0] : LowestBid(bids[n0]) = bids[n0][i]
      BY <3>1, <2>1, LowestBidIsLowest
    <3>3. bids[n0][i] \in BidType
      BY <3>1, <3>2, ElementOfSeq, LenProperties
    <3>4. QED
      BY <3>2, <3>3 DEF BidType
  <2>3. WorkMessage(n0) \in Messages
    BY <2>1 DEF WorkMessage, Messages
  <2> HIDE DEF n0, winner
  <2>4. taken_auctions[n0] = None
    BY <2>1, ListedIsNotTaken
  <2>5. /\ \A c \in Clients : Works(n0)[c] = 0
        /\ begun[n0] = 0
    BY <1>t, <1>w, <2>1, <2>4 DEF IsPlaced
  <2>6. UNCHANGED <<work_queue, begun, running>>
    BY <1>4 DEF SellAuction, clientVars
  <2>7. ASSUME NEW c \in Clients, NEW n \in Auctions
        PROVE  Works(n)'[c] = Works(n)[c]
                 + One(c = winner /\ n = n0 /\ running[winner] = "runs")
    <3>0. /\ CountOf(toClient[c], {WorkMessage(n)}) \in Nat
          /\ CountOf(work_queue[c], {n}) \in Nat
      BY <1>c
    <3>1. CASE c = winner /\ running[winner] = "runs"
      <4>1. toClient'[c] = Append(toClient[c], WorkMessage(n0))
        BY <1>t, <2>1, <2>2, <3>1
      <4>2. CountOf(Append(toClient[c], WorkMessage(n0)), {WorkMessage(n)})
              = CountOf(toClient[c], {WorkMessage(n)})
                  + (IF WorkMessage(n0) \in {WorkMessage(n)} THEN 1 ELSE 0)
        BY <1>t, <2>3, AppendAdds
      <4>3. WorkMessage(n0) = WorkMessage(n) <=> n = n0
        <5>1. WorkMessage(n0).auction = n0 /\ WorkMessage(n).auction = n
          BY DEF WorkMessage
        <5>2. QED
          BY <5>1
      <4>4. WorkMessage(n0) \in {WorkMessage(n)} <=> n = n0
        BY <4>3
      <4>5. CountOf(toClient'[c], {WorkMessage(n)})
              = CountOf(toClient[c], {WorkMessage(n)}) + One(n = n0)
        BY <4>1, <4>2, <4>4 DEF One
      <4>6. Works(n)[c] = CountOf(toClient[c], {WorkMessage(n)})
                            + CountOf(work_queue[c], {n})
        BY <1>w DEF WorkIn
      <4>7. Works(n)'[c] = CountOf(toClient'[c], {WorkMessage(n)})
                             + CountOf(work_queue[c], {n})
        <5>1. Works(n)'[c] = WorkIn(toClient'[c], work_queue'[c], n)
          BY <1>w
        <5>2. QED
          BY <2>6, <5>1 DEF WorkIn
      <4>8. /\ One(c = winner /\ n = n0 /\ running[winner] = "runs") = One(n = n0)
            /\ One(n = n0) \in Nat
        BY <3>1 DEF One
      <4> HIDE DEF One
      <4>9. QED
        BY <3>0, <4>5, <4>6, <4>7, <4>8
    <3>2. CASE ~(c = winner /\ running[winner] = "runs")
      <4>1. toClient'[c] = toClient[c]
        BY <1>t, <2>1, <3>2
      <4>2. Works(n)'[c] = Works(n)[c] /\ Works(n)[c] \in Nat
        BY <1>w, <2>6, <4>1
      <4>3. QED
        BY <3>2, <4>2 DEF One
    <3>3. QED
      BY <3>1, <3>2
  <2>8. ASSUME NEW n \in Auctions
        PROVE  IsPlaced(taken_auctions'[n], Works(n)', begun'[n], running')
    <3>1. CASE n = n0
      <4>1. taken_auctions'[n] = winner
        BY <1>t, <2>1, <3>1
      <4>2. \A c \in Clients : Works(n)'[c] = One(c = winner /\ running[winner] = "runs")
        BY <2>5, <2>7, <3>1 DEF One
      <4>3. begun'[n] = 0 /\ running' = running
        BY <2>5, <2>6, <3>1
      <4>4. winner # None
        BY <1>t, <2>2
      <4>5. QED
        BY <2>2, <4>1, <4>2, <4>3, <4>4 DEF One, IsPlaced
    <3>2. CASE n # n0
      <4>1. taken_auctions'[n] = taken_auctions[n]
        BY <2>1, <3>2
      <4>2. ASSUME NEW c \in Clients PROVE Works(n)'[c] = Works(n)[c]
        <5>1. Works(n)[c] \in Nat
          BY <1>w
        <5>2. QED
          BY <2>7, <3>2, <5>1 DEF One
      <4>3. Works(n)' = Works(n)
        BY <1>w, <4>2 DEF Works
      <4>4. QED
        BY <1>w, <2>6, <4>1, <4>3
    <3>3. QED
      BY <3>1, <3>2
  <2>9. QED
    BY <2>8 DEF WorkIsPlaced
<1>5. ASSUME NEW c \in Clients, ClientConnects(c) PROVE WorkIsPlaced'
  <2>1. /\ running[c] = "waits" /\ running' = [running EXCEPT ![c] = "runs"]
        /\ UNCHANGED <<toClient, work_queue, begun, taken_auctions>>
    BY <1>5 DEF ClientConnects, serverVars
  <2>2. \A n \in Auctions : taken_auctions[n] # None => taken_auctions[n] # c
    BY <2>1 DEF TakenByTheLowest, WhoIsGone
  <2>3. ASSUME NEW n \in Auctions
        PROVE  IsPlaced(taken_auctions'[n], Works(n)', begun'[n], running')
    <3>1. taken_auctions[n] # None =>
            running'[taken_auctions[n]] = running[taken_auctions[n]]
      BY <1>t, <2>1, <2>2
    <3>2. Works(n)' = Works(n)
      BY <2>1 DEF Works
    <3>3. QED
      BY <1>w, <2>1, <3>1, <3>2 DEF IsPlaced
  <2>4. QED
    BY <2>3 DEF WorkIsPlaced
<1>6. ASSUME NEW c \in Clients, ClientEnds(c) PROVE WorkIsPlaced'
  <2>1. /\ running' = [running EXCEPT ![c] = "ended"]
        /\ toClient' = [toClient EXCEPT ![c] = <<>>]
        /\ work_queue' = [work_queue EXCEPT ![c] = <<>>]
        /\ UNCHANGED <<begun, taken_auctions>>
    BY <1>6 DEF ClientEnds, serverVars
  <2>2. running'[c] = "ended" /\ toClient'[c] = <<>> /\ work_queue'[c] = <<>>
    BY <1>t, <2>1
  <2>3. ASSUME NEW n \in Auctions
        PROVE  IsPlaced(taken_auctions'[n], Works(n)', begun'[n], running')
    <3>1. Works(n)'[c] = 0
      <4>1. Works(n)'[c] = WorkIn(toClient'[c], work_queue'[c], n)
        BY <1>w
      <4>2. WorkIn(<<>>, <<>>, n) = 0
        BY NothingIsCounted DEF WorkIn
      <4>3. QED
        BY <2>2, <4>1, <4>2
    <3>2. \A d \in Clients : d # c => /\ Works(n)'[d] = Works(n)[d]
                                      /\ running'[d] = running[d]
      BY <1>t, <1>w, <2>1
    <3>3. /\ IsPlaced(taken_auctions[n], Works(n), begun[n], running)
          /\ Works(n)[c] \in Nat /\ begun[n] \in Nat
          /\ taken_auctions[n] \in Clients \union {None}
          /\ taken_auctions'[n] = taken_auctions[n] /\ begun'[n] = begun[n]
      BY <1>t, <1>w, <2>1
    <3>4. CASE taken_auctions[n] = c
      BY <2>2, <3>1, <3>2, <3>3, <3>4 DEF IsPlaced
    <3>5. CASE taken_auctions[n] # c
      BY <3>1, <3>2, <3>3, <3>5 DEF IsPlaced
    <3>6. QED
      BY <3>4, <3>5
  <2>4. QED
    BY <2>3 DEF WorkIsPlaced
<1>7. ASSUME NEW c \in Clients, ClientHandles(c) PROVE WorkIsPlaced'
  <2> DEFINE message == Head(toClient[c])
             m == message.auction
  <2>1. /\ toClient[c] # <<>> /\ toClient' = [toClient EXCEPT ![c] = Tail(@)]
        /\ \/ message.type = "auction" /\ work_queue' = work_queue
           \/ /\ message.type = "task"
              /\ work_queue' = [work_queue EXCEPT ![c] = Append(@, m)]
        /\ UNCHANGED <<begun, taken_auctions, running>>
    BY <1>7 DEF ClientHandles, serverVars
  <2>2. message \in Messages
    BY <1>t, <2>1, ListItems
  <2>3. \A P : CountOf(Tail(toClient[c]), P)
               = CountOf(toClient[c], P) - (IF message \in P THEN 1 ELSE 0)
    BY <1>t, <2>1, TailLacksTheHead
  <2> HIDE DEF message
  <2>4. m \in Auctions
    BY <2>2 DEF Messages
  <2>5. \A n \in Auctions : message = WorkMessage(n) <=> message.type = "task" /\ m = n
    BY <2>2 DEF Messages, WorkMessage
  <2> HIDE DEF m
  <2>6. \A P : CountOf(Append(work_queue[c], m), P)
               = CountOf(work_queue[c], P) + (IF m \in P THEN 1 ELSE 0)
    BY <1>t, <2>4, AppendAdds
  <2>7. ASSUME NEW n \in Auctions
        PROVE  WorkIn(toClient'[c], work_queue'[c], n)
                 = WorkIn(toClient[c], work_queue[c], n)
    <3>1. CountOf(toClient'[c], {WorkMessage(n)})
            = CountOf(toClient[c], {WorkMessage(n)})
                - One(message.type = "task" /\ m = n)
      <4>1. toClient'[c] = Tail(toClient[c])
        BY <1>t, <2>1
      <4>2. message \in {WorkMessage(n)} <=> message.type = "task" /\ m = n
        BY <2>5
      <4>3. QED
        BY <2>3, <4>1, <4>2 DEF One
    <3>2. CountOf(work_queue'[c], {n})
            = CountOf(work_queue[c], {n}) + One(message.type = "task" /\ m = n)
      <4>1. CASE message.type = "task"
        <5>1. work_queue'[c] = Append(work_queue[c], m)
          BY <1>t, <2>1, <4>1
        <5>2. m \in {n} <=> m = n
          OBVIOUS
        <5>3. QED
          BY <2>6, <4>1, <5>1, <5>2 DEF One
      <4>2. CASE message.type # "task"
        <5>1. work_queue'[c] = work_queue[c] /\ CountOf(work_queue[c], {n}) \in Nat
          BY <1>c, <2>1, <4>2
        <5>2. QED
          BY <4>2, <5>1 DEF One
      <4>3. QED
        BY <4>1, <4>2
    <3>3. /\ CountOf(toClient[c], {WorkMessage(n)}) \in Nat
          /\ CountOf(work_queue[c], {n}) \in Nat
      BY <1>c
    <3>4. QED
      BY <3>1, <3>2, <3>3 DEF WorkIn, One
  <2>8. \A d \in Clients : d # c => toClient'[d] = toClient[d]
                                      /\ work_queue'[d] = work_queue[d]
    BY <1>t, <2>1
  <2>9. \A n \in Auctions : Works(n)' = Works(n)
    BY <1>1, <2>7, <2>8
  <2>10. QED
    BY <1>2, <2>1, <2>9
<1>8. ASSUME NEW c \in Clients, BeginWork(c) PROVE WorkIsPlaced'
  <2> DEFINE m == Head(work_queue[c])
  <2>1. /\ work_queue[c] # <<>> /\ work_queue' = [work_queue EXCEPT ![c] = Tail(@)]
        /\ begun' = [begun EXCEPT ![m] = @ + 1]
        /\ UNCHANGED <<toClient, taken_auctions, running>>
    BY <1>8 DEF BeginWork, serverVars
  <2>2. /\ m \in Auctions
        /\ \A P : CountOf(Tail(work_queue[c]), P)
                  = CountOf(work_queue[c], P) - (IF m \in P THEN 1 ELSE 0)
    BY <1>t, <2>1, TailLacksTheHead
  <2>3. work_queue'[c] = Tail(work_queue[c])
    BY <1>t, <2>1
  <2>4. CountOf(Tail(work_queue[c]), {m}) \in Nat
    <3>1. Tail(work_queue[c]) \in Seq(Auctions)
      BY <1>t, <2>1, ListItems
    <3>2. QED
      BY <3>1, CountIsANumber
  <2> HIDE DEF m
  <2>5. ASSUME NEW n \in Auctions PROVE Works(n)'[c] = Works(n)[c] - One(n = m)
    <3>1. CountOf(work_queue'[c], {n}) = CountOf(work_queue[c], {n}) - One(n = m)
      <4>1. m \in {n} <=> n = m
        OBVIOUS
      <4>2. QED
        BY <2>2, <2>3, <4>1 DEF One
    <3>2. /\ Works(n)'[c] = CountOf(toClient[c], {WorkMessage(n)})
                              + CountOf(work_queue'[c], {n})
          /\ Works(n)[c] = CountOf(toClient[c], {WorkMessage(n)})
                              + CountOf(work_queue[c], {n})
      BY <1>w, <2>1 DEF WorkIn
    <3>3. /\ CountOf(toClient[c], {WorkMessage(n)}) \in Nat
          /\ CountOf(work_queue[c], {n}) \in Nat
      BY <1>c
    <3>4. QED
      BY <3>1, <3>2, <3>3 DEF One
  <2>6. \A d \in Clients, n \in Auctions : d # c => Works(n)'[d] = Works(n)[d]
    BY <1>t, <1>w, <2>1
  <2>7. Works(m)[c] >= 1
    <3>1. CountOf(Tail(work_queue[c]), {m}) = CountOf(work_queue[c], {m}) - 1
      BY <2>2
    <3>2. Works(m)[c] = CountOf(toClient[c], {WorkMessage(m)})
                          + CountOf(work_queue[c], {m})
      BY <1>w, <2>2 DEF WorkIn
    <3>3. /\ CountOf(toClient[c], {WorkMessage(m)}) \in Nat
          /\ CountOf(work_queue[c], {m}) \in Nat
      BY <1>c, <2>2
    <3>4. QED
      BY <2>4, <3>1, <3>2, <3>3
  <2>8. taken_auctions[m] = c
    <3>1. IsPlaced(taken_auctions[m], Works(m), begun[m], running)
      BY <1>w, <2>2
    <3>2. QED
      BY <2>7, <3>1 DEF IsPlaced
  <2>9. ASSUME NEW n \in Auctions
        PROVE  IsPlaced(taken_auctions'[n], Works(n)', begun'[n], running')
    <3>1. /\ IsPlaced(taken_auctions[n], Works(n), begun[n], running)
          /\ Works(n)[c] \in Nat /\ begun[n] \in Nat
          /\ taken_auctions' = taken_auctions /\ running' = running
      BY <1>t, <1>w, <2>1
    <3>2. CASE n = m
      <4>1. begun'[n] = begun[n] + 1 /\ Works(n)'[c] = Works(n)[c] - 1
        BY <1>t, <2>1, <2>5, <3>2 DEF One
      <4>2. taken_auctions[n] = c /\ c # None
        BY <1>t, <2>8, <3>2
      <4>3. QED
        BY <2>6, <3>1, <4>1, <4>2 DEF IsPlaced
    <3>3. CASE n # m
      <4>1. Works(n)'[c] = Works(n)[c]
        BY <2>5, <3>1, <3>3 DEF One
      <4>2. Works(n)' = Works(n)
        BY <1>w, <2>6, <4>1 DEF Works
      <4>3. begun'[n] = begun[n]
        BY <1>t, <2>1, <3>3
      <4>4. QED
        BY <3>1, <4>2, <4>3
    <3>4. QED
      BY <3>2, <3>3
  <2>10. QED
    BY <2>9 DEF WorkIsPlaced
<1>9. CASE UNCHANGED auctionsVars
  BY <1>9 DEF auctionsVars, serverVars, clientVars, WorkIsPlaced, Works
<1>10. ASSUME \/ \E key \in {0, 2} : AskForAuction(key)
              \/ \E key \in 0 .. 2 : AskForRecord(key)
              \/ ListAuction \/ DoRecord \/ WaitForBids
              \/ \E n \in Auctions : TimePasses(n)
              \/ \E c \in Clients : ReceiveBid(c)
       PROVE  WorkIsPlaced'
  <2>1. UNCHANGED <<toClient, work_queue, begun, taken_auctions, running>>
    BY <1>10 DEF AskForAuction, AskForRecord, ListAuction, DoRecord,
       WaitForBids, TimePasses, ReceiveBid, serverVars, clientVars
  <2>2. QED
    BY <2>1 DEF WorkIsPlaced, Works
<1>11. QED
  BY <1>3, <1>4, <1>5, <1>6, <1>7, <1>8, <1>9, <1>10
     DEF AuctionsNext, WorkerNext

-----------------------------------------------------------------------------
(* The invariant, and what the vision server promises.                     *)

LEMMA AuctionsStart ==
  ASSUME AuctionsAssumption, AuctionsInit PROVE AuctionsInv
<1>1. AuctionsTypes
  BY EmptySeq DEF AuctionsInit, AuctionsTypes, None, AuctionsAssumption
<1>2. AuctionsArePlaced
  BY PlacesInit
<1>3. WorkIsPlaced
  <2>1. \A n : WorkIn(<<>>, <<>>, n) = 0
    BY NothingIsCounted DEF WorkIn
  <2>2. \A n \in Auctions : \A c \in Clients : Works(n)[c] = 0
    BY <2>1 DEF AuctionsInit, Works
  <2>3. QED
    BY <2>2 DEF AuctionsInit, WorkIsPlaced, IsPlaced
<1>4. WhoIsGone /\ TakenByTheLowest
  BY DEF AuctionsInit, WhoIsGone, TakenByTheLowest
<1>5. QED
  BY <1>1, <1>2, <1>3, <1>4 DEF AuctionsInv

LEMMA AuctionsStep ==
  ASSUME AuctionsAssumption, AuctionsInv, [AuctionsNext]_auctionsVars
  PROVE  AuctionsInv'
BY AuctionsTypesNext, PlacesNext, WorkNext, GoneNext, TakenNext DEF AuctionsInv

\* The invariant of the auctions holds in every state.
THEOREM AuctionsRun ==
  ASSUME AuctionsAssumption PROVE AuctionsSpec => []AuctionsInv
BY AuctionsStart, AuctionsStep, PTL DEF AuctionsSpec

\* Where an item is, in lists of which all but one lack it.
PlacesIn(lists, x) ==
  {p \in UNION {{c} \X DOMAIN lists[c] : c \in Clients} : lists[p[1]][p[2]] = x}

LEMMA PlacesOfAnItem ==
  ASSUME NEW S, NEW lists \in [Clients -> Seq(S)], NEW x, NEW w \in Clients,
         \A c \in Clients : c # w => CountOf(lists[c], {x}) = 0
  PROVE  Cardinality(PlacesIn(lists, x)) = CountOf(lists[w], {x})
<1> DEFINE A == {i \in DOMAIN lists[w] : lists[w][i] \in {x}}
<1> DEFINE P == PlacesIn(lists, x)
<1>1. IsFiniteSet(A) /\ Cardinality(A) \in Nat /\ CountOf(lists[w], {x}) = Cardinality(A)
  <2>1. lists[w] \in Seq(S)
    OBVIOUS
  <2>2. IsFiniteSet(A)
    BY <2>1, CountIsANumber
  <2>3. QED
    BY <2>2, FS_CardinalityType DEF CountOf
<1>2. ASSUME NEW p \in P PROVE p = <<w, p[2]>> /\ p[2] \in A
  <2>1. PICK c \in Clients : p \in {c} \X DOMAIN lists[c]
    BY DEF PlacesIn
  <2>2. p = <<c, p[2]>> /\ p[1] = c /\ p[2] \in DOMAIN lists[c] /\ lists[c][p[2]] = x
    BY <2>1 DEF PlacesIn
  <2>3. c = w
    <3>1. SUFFICES ASSUME c # w PROVE FALSE
      OBVIOUS
    <3>2. lists[c] \in Seq(S) /\ CountOf(lists[c], {x}) = 0
      BY <3>1
    <3>3. \A i \in DOMAIN lists[c] : lists[c][i] \notin {x}
      BY <3>2, CountedNever
    <3>4. QED
      BY <2>2, <3>3
  <2>4. QED
    BY <2>2, <2>3
<1>3. ASSUME NEW i \in A PROVE <<w, i>> \in P
  BY DEF PlacesIn
<1> HIDE DEF A, P
<1> DEFINE f == [p \in P |-> p[2]]
           g == [i \in A |-> <<w, i>>]
<1>4. f \in Injection(P, A)
  <2>1. f \in [P -> A]
    BY <1>2
  <2>2. ASSUME NEW p \in P, NEW q \in P, f[p] = f[q] PROVE p = q
    BY <1>2, <2>2
  <2> HIDE DEF f
  <2>3. QED
    BY <2>1, <2>2 DEF Injection, IsInjective
<1>5. IsFiniteSet(P) /\ Cardinality(P) <= Cardinality(A)
  <2> HIDE DEF f
  <2>1. QED
    BY <1>1, <1>4, FS_Injection
<1>6. g \in Injection(A, P)
  <2>1. g \in [A -> P]
    BY <1>3
  <2>2. ASSUME NEW i \in A, NEW j \in A, g[i] = g[j] PROVE i = j
    BY <2>2
  <2> HIDE DEF g
  <2>3. QED
    BY <2>1, <2>2 DEF Injection, IsInjective
<1>7. Cardinality(A) <= Cardinality(P)
  <2> HIDE DEF g
  <2>1. QED
    BY <1>5, <1>6, FS_Injection
<1>8. Cardinality(P) \in Nat
  BY <1>5, FS_CardinalityType
<1>9. QED
  BY <1>1, <1>5, <1>7, <1>8 DEF P

LEMMA PlacesOfNone ==
  ASSUME NEW S, NEW lists \in [Clients -> Seq(S)], NEW x,
         \A c \in Clients : CountOf(lists[c], {x}) = 0
  PROVE  Cardinality(PlacesIn(lists, x)) = 0
<1>1. ASSUME NEW p \in PlacesIn(lists, x) PROVE FALSE
  <2>1. PICK c \in Clients : p \in {c} \X DOMAIN lists[c]
    BY DEF PlacesIn
  <2>2. p[1] = c /\ p[2] \in DOMAIN lists[c] /\ lists[c][p[2]] = x
    BY <2>1 DEF PlacesIn
  <2>3. lists[c] \in Seq(S) /\ CountOf(lists[c], {x}) = 0
    OBVIOUS
  <2>4. \A i \in DOMAIN lists[c] : lists[c][i] \notin {x}
    BY <2>3, CountedNever
  <2>5. QED
    BY <2>2, <2>4
<1>2. PlacesIn(lists, x) = {}
  BY <1>1
<1>3. QED
  BY <1>2, FS_EmptySet

LEMMA WorkCounts ==
  ASSUME AuctionsAssumption, AuctionsInv, NEW n \in Auctions
  PROVE  /\ toClient \in [Clients -> Seq(Messages)]
         /\ work_queue \in [Clients -> Seq(Auctions)]
         /\ begun[n] \in Nat
         /\ taken_auctions[n] \in Clients \union {None}
         /\ IsPlaced(taken_auctions[n], Works(n), begun[n], running)
         /\ \A c \in Clients :
              /\ Works(n)[c] = CountOf(toClient[c], {WorkMessage(n)})
                                 + CountOf(work_queue[c], {n})
              /\ CountOf(toClient[c], {WorkMessage(n)}) \in Nat
              /\ CountOf(work_queue[c], {n}) \in Nat
<1>1. /\ toClient \in [Clients -> Seq(Messages)]
      /\ work_queue \in [Clients -> Seq(Auctions)]
      /\ begun[n] \in Nat
      /\ taken_auctions[n] \in Clients \union {None}
      /\ IsPlaced(taken_auctions[n], Works(n), begun[n], running)
  BY DEF AuctionsInv, AuctionsTypes, WorkIsPlaced
<1>2. ASSUME NEW c \in Clients
      PROVE  /\ Works(n)[c] = CountOf(toClient[c], {WorkMessage(n)})
                                + CountOf(work_queue[c], {n})
             /\ CountOf(toClient[c], {WorkMessage(n)}) \in Nat
             /\ CountOf(work_queue[c], {n}) \in Nat
  <2>1. toClient[c] \in Seq(Messages) /\ work_queue[c] \in Seq(Auctions)
    BY <1>1
  <2>2. /\ CountOf(toClient[c], {WorkMessage(n)}) \in Nat
        /\ CountOf(work_queue[c], {n}) \in Nat
    BY <2>1, CountIsANumber
  <2>3. QED
    BY <2>2 DEF Works, WorkIn
<1>3. QED
  BY <1>1, <1>2

\* Nobody but the winner has the work of an auction.
LEMMA OthersHaveNone ==
  ASSUME AuctionsAssumption, AuctionsInv, NEW n \in Auctions, NEW c \in Clients,
         c # taken_auctions[n]
  PROVE  /\ CountOf(toClient[c], {WorkMessage(n)}) = 0
         /\ CountOf(work_queue[c], {n}) = 0
<1>1. Works(n)[c] = 0
  BY WorkCounts DEF IsPlaced
<1>2. /\ Works(n)[c] = CountOf(toClient[c], {WorkMessage(n)})
                         + CountOf(work_queue[c], {n})
      /\ CountOf(toClient[c], {WorkMessage(n)}) \in Nat
      /\ CountOf(work_queue[c], {n}) \in Nat
  BY WorkCounts
<1>3. QED
  BY <1>1, <1>2

\* The work of a taken auction is on its way to the winner, waits there or was
\* begun, once only, unless the winner has ended.
LEMMA InvWorksOnce ==
  ASSUME AuctionsAssumption, AuctionsInv PROVE TakenIsWorkedOnOnce
<1> SUFFICES ASSUME NEW n \in Auctions
             PROVE  LET places == begun[n] + Cardinality(OnItsWay(n))
                                    + Cardinality(InQueue(n))
                    IN  IF taken_auctions[n] = None THEN places = 0
                        ELSE /\ places <= 1
                             /\ running[taken_auctions[n]] = "runs" => places = 1
  BY DEF TakenIsWorkedOnOnce
<1>1. /\ OnItsWay(n) = PlacesIn(toClient, WorkMessage(n))
      /\ InQueue(n) = PlacesIn(work_queue, n)
  BY DEF OnItsWay, InQueue, WorkMessage, PlacesIn
<1>2. /\ toClient \in [Clients -> Seq(Messages)]
      /\ work_queue \in [Clients -> Seq(Auctions)]
      /\ begun[n] \in Nat
      /\ taken_auctions[n] \in Clients \union {None}
      /\ IsPlaced(taken_auctions[n], Works(n), begun[n], running)
  BY WorkCounts
<1>3. \A c \in Clients : c # taken_auctions[n] =>
        /\ CountOf(toClient[c], {WorkMessage(n)}) = 0
        /\ CountOf(work_queue[c], {n}) = 0
  BY OthersHaveNone
<1>4. CASE taken_auctions[n] = None
  <2>1. \A c \in Clients : /\ CountOf(toClient[c], {WorkMessage(n)}) = 0
                           /\ CountOf(work_queue[c], {n}) = 0
    BY <1>3, <1>4 DEF AuctionsAssumption, None
  <2>2. Cardinality(OnItsWay(n)) = 0
    BY <1>1, <1>2, <2>1, PlacesOfNone
  <2>3. Cardinality(InQueue(n)) = 0
    BY <1>1, <1>2, <2>1, PlacesOfNone
  <2>4. begun[n] = 0
    BY <1>2, <1>4 DEF IsPlaced
  <2>5. QED
    BY <1>4, <2>2, <2>3, <2>4
<1>5. CASE taken_auctions[n] # None
  <2> DEFINE w == taken_auctions[n]
  <2>1. w \in Clients
    BY <1>2, <1>5
  <2>2. /\ Works(n)[w] = CountOf(toClient[w], {WorkMessage(n)})
                           + CountOf(work_queue[w], {n})
        /\ CountOf(toClient[w], {WorkMessage(n)}) \in Nat
        /\ CountOf(work_queue[w], {n}) \in Nat
    BY <2>1, WorkCounts
  <2>3. /\ begun[n] + Works(n)[w] <= 1
        /\ running[w] = "runs" => begun[n] + Works(n)[w] = 1
    BY <1>2, <1>5 DEF IsPlaced
  <2> HIDE DEF w
  <2>4. Cardinality(OnItsWay(n)) = CountOf(toClient[w], {WorkMessage(n)})
    BY <1>1, <1>2, <1>3, <2>1, PlacesOfAnItem DEF w
  <2>5. Cardinality(InQueue(n)) = CountOf(work_queue[w], {n})
    BY <1>1, <1>2, <1>3, <2>1, PlacesOfAnItem DEF w
  <2>6. /\ begun[n] + Cardinality(OnItsWay(n)) + Cardinality(InQueue(n)) <= 1
        /\ running[w] = "runs" =>
             begun[n] + Cardinality(OnItsWay(n)) + Cardinality(InQueue(n)) = 1
    BY <1>2, <2>2, <2>3, <2>4, <2>5
  <2>7. QED
    BY <1>5, <2>6 DEF w
<1>6. QED
  BY <1>4, <1>5

\* Only the client that got an auction works on it, and no one who was less
\* busy when asked had bid in time.
LEMMA InvWinnersWork ==
  ASSUME AuctionsAssumption, AuctionsInv PROVE WorkIsTheWinners
<1>1. ASSUME NEW c \in Clients, NEW i \in DOMAIN work_queue[c]
      PROVE  taken_auctions[work_queue[c][i]] = c
  <2>1. work_queue[c] \in Seq(Auctions)
    BY DEF AuctionsInv, AuctionsTypes
  <2>2. work_queue[c][i] \in Auctions
    BY <2>1, ElementOfSeq, LenProperties
  <2>3. SUFFICES ASSUME c # taken_auctions[work_queue[c][i]] PROVE FALSE
    OBVIOUS
  <2>4. CountOf(work_queue[c], {work_queue[c][i]}) = 0
    BY <2>2, <2>3, OthersHaveNone
  <2>5. QED
    BY <2>1, <2>4, CountedNever
<1>2. QED
  BY <1>1 DEF WorkIsTheWinners, AuctionsInv, TakenByTheLowest

LEMMA WaitingIsTheNumber ==
  ASSUME AuctionsTypes, NEW type \in {"auction", "timeout"}, NEW n \in Auctions
  PROVE  Cardinality(Waiting(type, n)) = NumberOf(type, n) /\ NumberOf(type, n) \in Nat
<1>1. task_queue \in Seq(Tasks)
  BY DEF AuctionsTypes
<1>2. \A i \in DOMAIN task_queue : task_queue[i] \in Tasks
  BY <1>1, ElementOfSeq, LenProperties
<1>3. Waiting(type, n) = {i \in DOMAIN task_queue : task_queue[i] \in Of(type, n)}
  BY <1>2 DEF Waiting, Of
<1>4. QED
  BY <1>1, <1>3, NumbersAreNumbers DEF NumberOf, CountOf

\* The tasks in the queue are of auctions that are listed, and every listed one
\* is looked in on.
LEMMA InvTimeouts ==
  ASSUME AuctionsInv PROVE TimeoutFindsItsAuction
<1>1. ASSUME NEW n \in Auctions
      PROVE  Cardinality(Waiting("timeout", n))
               = IF n \in active_auctions THEN 1 ELSE 0
  <2>1. Cardinality(Waiting("timeout", n)) = NumberOf("timeout", n)
    BY WaitingIsTheNumber DEF AuctionsInv
  <2>2. NumberOf("timeout", n) = One(n \in active_auctions)
    BY DEF AuctionsInv, AuctionsArePlaced
  <2>3. QED
    BY <2>1, <2>2 DEF One
<1>2. QED
  BY <1>1 DEF TimeoutFindsItsAuction

\* Of three conditions that exclude one another.
LEMMA OneOfThree ==
  ASSUME NEW a \in BOOLEAN, NEW b \in BOOLEAN, NEW c \in BOOLEAN,
         One(a) + One(b) + One(c) <= 1
  PROVE  Cardinality({x \in {"announced", "listed", "taken"} :
                        CASE x = "announced" -> a
                          [] x = "listed" -> b
                          [] x = "taken" -> c}) = One(a) + One(b) + One(c)
<1> DEFINE Places == {x \in {"announced", "listed", "taken"} :
                        CASE x = "announced" -> a
                          [] x = "listed" -> b
                          [] x = "taken" -> c}
<1>1. ~(a /\ b) /\ ~(a /\ c) /\ ~(b /\ c)
  BY DEF One
<1>2. \/ ~a /\ ~b /\ ~c /\ Places = {}
      \/ a /\ ~b /\ ~c /\ Places = {"announced"}
      \/ ~a /\ b /\ ~c /\ Places = {"listed"}
      \/ ~a /\ ~b /\ c /\ Places = {"taken"}
  BY <1>1
<1> HIDE DEF Places
<1>3. /\ Cardinality({}) = 0 /\ Cardinality({"announced"}) = 1
      /\ Cardinality({"listed"}) = 1 /\ Cardinality({"taken"}) = 1
  BY FS_EmptySet, FS_Singleton
<1>4. Cardinality(Places) = One(a) + One(b) + One(c)
  <2>1. CASE ~a /\ ~b /\ ~c /\ Places = {}
    BY <1>3, <2>1 DEF One
  <2>2. CASE a /\ ~b /\ ~c /\ Places = {"announced"}
    BY <1>3, <2>2 DEF One
  <2>3. CASE ~a /\ b /\ ~c /\ Places = {"listed"}
    BY <1>3, <2>3 DEF One
  <2>4. CASE ~a /\ ~b /\ c /\ Places = {"taken"}
    BY <1>3, <2>4 DEF One
  <2>5. QED
    BY <1>2, <2>1, <2>2, <2>3, <2>4
<1>5. QED
  BY <1>4 DEF Places

\* An auction that was asked for is to be announced, is being announced, is
\* listed or is taken, and is in one of these places only.
LEMMA InvNoneIsLost ==
  ASSUME AuctionsAssumption, AuctionsInv PROVE NoAuctionIsLost
<1>1. ASSUME NEW n \in 1 .. asked
      PROVE  Cardinality(Waiting("auction", n))
               + Cardinality({x \in {"announced", "listed", "taken"} :
                                CASE x = "announced" -> announcing = n
                                  [] x = "listed"    -> n \in active_auctions
                                  [] x = "taken"     -> taken_auctions[n] # None}) = 1
  <2>1. n \in Auctions /\ n <= asked
    BY DEF AuctionsInv, AuctionsTypes, Auctions, AuctionsAssumption
  <2> DEFINE a == announcing = n
             b == n \in active_auctions
             c == taken_auctions[n] # None
             sum == One(a) + One(b) + One(c)
  <2>2. /\ Cardinality(Waiting("auction", n)) = NumberOf("auction", n)
        /\ NumberOf("auction", n) \in Nat
    BY <2>1, WaitingIsTheNumber DEF AuctionsInv
  <2>3. NumberOf("auction", n) + One(a) + One(b) + One(c) = 1
    BY <2>1 DEF AuctionsInv, AuctionsArePlaced, One
  <2>4. One(a) \in Nat /\ One(b) \in Nat /\ One(c) \in Nat
    BY DEF One
  <2>5. NumberOf("auction", n) + sum = 1 /\ sum <= 1
    <3> HIDE DEF a, b, c
    <3>1. QED
      BY <2>2, <2>3, <2>4
  <2>6. a \in BOOLEAN /\ b \in BOOLEAN /\ c \in BOOLEAN
    OBVIOUS
  <2>7. Cardinality({x \in {"announced", "listed", "taken"} :
                        CASE x = "announced" -> a
                          [] x = "listed" -> b
                          [] x = "taken" -> c}) = sum
    <3> HIDE DEF a, b, c
    <3>1. QED
      BY <2>5, <2>6, OneOfThree
  <2>8. QED
    BY <2>2, <2>5, <2>7
<1>2. QED
  BY <1>1 DEF NoAuctionIsLost

\* The types that the runs check.
LEMMA InvTypeOK ==
  ASSUME AuctionsAssumption, AuctionsInv PROVE AuctionsTypeOK
<1>1. Tasks \subseteq TaskType
  BY DEF Tasks, TaskType, Auctions, None, AuctionsAssumption
<1>2. task_queue \in Seq(TaskType)
  <2>1. task_queue \in Seq(Tasks)
    BY DEF AuctionsInv, AuctionsTypes
  <2>2. QED
    BY <1>1, <2>1
<1>3. announcing \in 0 .. MaxAuctions
  BY DEF AuctionsInv, AuctionsTypes, Auctions, None, AuctionsAssumption
<1>4. QED
  BY <1>2, <1>3 DEF AuctionsInv, AuctionsTypes, AuctionsTypeOK

\* The worker is never ended by an auction that it does not find.
THEOREM TimeoutsFindTheirAuctions ==
  ASSUME AuctionsAssumption PROVE AuctionsSpec => []TimeoutFindsItsAuction
BY AuctionsRun, InvTimeouts, PTL

\* An auction that was asked for is in one place until it is taken.
THEOREM AuctionsAreNotLost ==
  ASSUME AuctionsAssumption PROVE AuctionsSpec => []NoAuctionIsLost
BY AuctionsRun, InvNoneIsLost, PTL

\* Work is only done by who got it, for the lowest bid.
THEOREM WinnersWork ==
  ASSUME AuctionsAssumption PROVE AuctionsSpec => []WorkIsTheWinners
BY AuctionsRun, InvWinnersWork, PTL

\* Work is done once, unless its client ends.
THEOREM WorkIsDoneOnce ==
  ASSUME AuctionsAssumption PROVE AuctionsSpec => []TakenIsWorkedOnOnce
BY AuctionsRun, InvWorksOnce, PTL

THEOREM AuctionsTypeCorrect ==
  ASSUME AuctionsAssumption PROVE AuctionsSpec => []AuctionsTypeOK
BY AuctionsRun, InvTypeOK, PTL

-----------------------------------------------------------------------------
(* What is written down of an image.                                       *)

Past(class) == step[class] \notin {"due", "read", "emptied"}

RecordsTypes ==
  /\ info \in (SUBSET Classes) \union {Unreadable}
  /\ step \in [Classes -> Steps]
  /\ copy \in [Classes -> SUBSET Classes]

\* A result that is read, or was, was written by its handler.
ReadWasWritten ==
  /\ info # Unreadable => \A class \in info : Past(class)
  /\ \A class \in Classes : \A other \in copy[class] : Past(other)

\* A handler that found a result found one that was written.
FoundWasWritten ==
  /\ \A class \in Classes :
       /\ step[class] \in {"letter", "done"} => Past("shape")
       /\ step[class] = "done" => Past("letter")
  /\ announced > 0 => Past("shape") /\ Past("letter")

\* Handlers that do not cross write one after the other, each on top of what
\* the other wrote.
OneAfterTheOther ==
  /\ \A class \in Classes :
       /\ step[class] \in {"read", "emptied"} =>
            \A other \in Classes :
              /\ step[other] \in {"read", "emptied"} => other = class
              /\ Past(other) => other \in copy[class]
       /\ step[class] = "read" => info = copy[class]
       /\ step[class] = "emptied" => info = Unreadable
  /\ info = Unreadable => \E class \in Classes : step[class] = "emptied"
  /\ info # Unreadable => \A class \in Classes : Past(class) => class \in info

\* Who writes last goes on to announce the image.
SomebodyTells ==
  (\A class \in Classes : Past(class)) =>
    announced > 0 \/ \E class \in Classes :
                       step[class] \in {"shape", "letter", "done"}

RecordsInv ==
  /\ RecordsTypes /\ announced \in Nat /\ crossed \in BOOLEAN
  /\ ReadWasWritten /\ FoundWasWritten
  /\ ~crossed => OneAfterTheOther /\ SomebodyTells

LEMMA RecordsInvHolds ==
  ASSUME RecordsAssumption
  PROVE  RecordsSpec => []RecordsInv
<1> USE DEF RecordsAssumption
<1>1. RecordsInit => RecordsInv
  <2> SUFFICES ASSUME RecordsInit PROVE RecordsInv
    OBVIOUS
  <2>1. {} \in SUBSET Classes /\ info # Unreadable
    BY DEF RecordsInit
  <2>2. \A class \in Classes :
          step[class] = "due" /\ copy[class] = {} /\ ~Past(class)
    BY DEF RecordsInit, Past
  <2>3. RecordsTypes
    BY DEF RecordsInit, RecordsTypes, Steps
  <2>4. ReadWasWritten /\ FoundWasWritten
    BY <2>2 DEF RecordsInit, ReadWasWritten, FoundWasWritten
  <2>5. OneAfterTheOther /\ SomebodyTells
    BY <2>1, <2>2 DEF RecordsInit, OneAfterTheOther, SomebodyTells, Classes
  <2>6. QED
    BY <2>3, <2>4, <2>5 DEF RecordsInit, RecordsInv
<1>2. RecordsInv /\ [RecordsNext]_recordsVars => RecordsInv'
  <2> SUFFICES ASSUME RecordsInv, [RecordsNext]_recordsVars
               PROVE  RecordsInv'
    OBVIOUS
  <2>1. ASSUME NEW class \in Classes, Read(class) PROVE RecordsInv'
    <3>1. (RecordsTypes /\ announced \in Nat /\ crossed \in BOOLEAN)'
      BY <2>1 DEF Read, Goes, RecordsInv, RecordsTypes, Steps
    <3>2. \A other \in Classes : Past(other)' <=> Past(other) \/ (other = class /\ info = Unreadable)
      BY <2>1 DEF Read, Goes, RecordsInv, RecordsTypes, Past
    <3>3. ReadWasWritten' /\ FoundWasWritten'
      <4>1. info # Unreadable =>
              info \subseteq Classes /\ \A other \in info : Past(other)'
        BY <3>2 DEF RecordsInv, RecordsTypes, ReadWasWritten
      <4>2. \A other \in Classes :
              copy'[other] = copy[other]
                \/ (copy'[other] = info /\ info # Unreadable)
        BY <2>1 DEF Read, RecordsInv, RecordsTypes
      <4>3. \A other \in Classes : \A x \in copy[other] : Past(x)'
        BY <3>2 DEF RecordsInv, RecordsTypes, ReadWasWritten
      <4>4. ReadWasWritten'
        BY <2>1, <4>1, <4>2, <4>3 DEF Read, ReadWasWritten
      <4>5. \A other \in Classes :
              step'[other] \in {"letter", "done"} => step'[other] = step[other]
        BY <2>1 DEF Read, Goes, RecordsInv, RecordsTypes
      <4>6. FoundWasWritten'
        BY <2>1, <3>2, <4>5 DEF Read, RecordsInv, FoundWasWritten, Classes
      <4>7. QED
        BY <4>4, <4>6
    <3>4. ASSUME ~crossed' PROVE OneAfterTheOther' /\ SomebodyTells'
      <4>1. /\ ~crossed /\ OneAfterTheOther /\ SomebodyTells
            /\ \A other \in Classes : step[other] \notin {"read", "emptied"}
        BY <2>1, <3>4 DEF Read, RecordsInv
      <4>2. info # Unreadable
        BY <4>1 DEF OneAfterTheOther
      <4>3. OneAfterTheOther'
        BY <2>1, <3>2, <4>1, <4>2 DEF Read, Goes, RecordsInv, RecordsTypes,
           OneAfterTheOther
      <4>4. SomebodyTells'
        BY <2>1, <3>2, <4>2 DEF SomebodyTells, Past, Read
      <4>5. QED
        BY <4>3, <4>4
    <3>5. QED
      BY <3>1, <3>3, <3>4 DEF RecordsInv
  <2>2. ASSUME NEW class \in Classes, Empty(class) PROVE RecordsInv'
    <3>1. (RecordsTypes /\ announced \in Nat /\ crossed \in BOOLEAN)'
      BY <2>2 DEF Empty, Goes, RecordsInv, RecordsTypes, Steps
    <3>2. \A other \in Classes : Past(other)' <=> Past(other)
      BY <2>2 DEF Empty, Goes, RecordsInv, RecordsTypes, Past
    <3>3. ReadWasWritten' /\ FoundWasWritten'
      BY <2>2, <3>2 DEF Empty, Goes, RecordsInv, RecordsTypes, Classes,
         ReadWasWritten, FoundWasWritten
    <3>4. ASSUME ~crossed PROVE OneAfterTheOther' /\ SomebodyTells'
      <4>1. OneAfterTheOther'
        BY <2>2, <3>2, <3>4 DEF Empty, Goes, RecordsInv, RecordsTypes,
           OneAfterTheOther
      <4>2. SomebodyTells'
        BY <2>2, <3>2 DEF Empty, SomebodyTells, Past, Goes, RecordsInv,
           RecordsTypes
      <4>3. QED
        BY <4>1, <4>2
    <3>5. QED
      BY <2>2, <3>1, <3>3, <3>4 DEF RecordsInv, Empty
  <2>3. ASSUME NEW class \in Classes, Dump(class) PROVE RecordsInv'
    <3>1. (RecordsTypes /\ announced \in Nat /\ crossed \in BOOLEAN)'
      BY <2>3 DEF Dump, Goes, RecordsInv, RecordsTypes, Steps
    <3>2. \A other \in Classes : Past(other)' <=> Past(other) \/ other = class
      BY <2>3 DEF Dump, Goes, RecordsInv, RecordsTypes, Past
    <3>3. ReadWasWritten' /\ FoundWasWritten'
      BY <2>3, <3>2 DEF Dump, Goes, RecordsInv, RecordsTypes, Classes,
         ReadWasWritten, FoundWasWritten
    <3>4. ASSUME ~crossed PROVE OneAfterTheOther' /\ SomebodyTells'
      <4>1. info = Unreadable /\ info' = copy[class] \union {class} /\ info' # Unreadable
        BY <2>3, <3>4 DEF Dump, RecordsInv, RecordsTypes, OneAfterTheOther
      <4>2. OneAfterTheOther'
        BY <2>3, <3>2, <3>4, <4>1 DEF Dump, Goes, RecordsInv, RecordsTypes,
           OneAfterTheOther
      <4>3. SomebodyTells'
        BY <2>3 DEF Dump, SomebodyTells, Goes, RecordsInv, RecordsTypes
      <4>4. QED
        BY <4>2, <4>3
    <3>5. QED
      BY <2>3, <3>1, <3>3, <3>4 DEF RecordsInv, Dump
  <2>4. ASSUME NEW class \in Classes, Check(class) PROVE RecordsInv'
    <3>1. (RecordsTypes /\ announced \in Nat /\ crossed \in BOOLEAN)'
      BY <2>4 DEF Check, Goes, RecordsInv, RecordsTypes, Steps, Classes
    <3>2. \A other \in Classes : Past(other)' <=> Past(other)
      BY <2>4 DEF Check, Goes, RecordsInv, RecordsTypes, Past, Classes
    <3>3. ReadWasWritten'
      BY <2>4, <3>2 DEF Check, Goes, RecordsInv, RecordsTypes, Classes,
         ReadWasWritten
    <3>4. FoundWasWritten'
      BY <2>4, <3>2 DEF Check, Goes, RecordsInv, RecordsTypes, Classes,
         ReadWasWritten, FoundWasWritten
    <3>5. ASSUME ~crossed PROVE OneAfterTheOther' /\ SomebodyTells'
      <4>1. OneAfterTheOther'
        BY <2>4, <3>2, <3>5 DEF Check, Goes, RecordsInv, RecordsTypes,
           OneAfterTheOther, Classes
      <4>2. ASSUME \A other \in Classes : Past(other)'
            PROVE  step'[class] \in {"letter", "done"}
        <5>1. \A other \in Classes : Past(other)
          BY <3>2, <4>2
        <5>2. info # Unreadable /\ Classes \subseteq info
          BY <5>1, <3>5 DEF OneAfterTheOther, Past, RecordsInv
        <5>3. QED
          BY <2>4, <5>2 DEF Check, Goes, RecordsInv, RecordsTypes, Classes
      <4>3. SomebodyTells'
        BY <4>2 DEF SomebodyTells
      <4>4. QED
        BY <4>1, <4>3
    <3>6. QED
      BY <2>4, <3>1, <3>3, <3>4, <3>5 DEF RecordsInv, Check
  <2>5. ASSUME NEW class \in Classes, Announce(class) PROVE RecordsInv'
    <3>1. (RecordsTypes /\ announced \in Nat /\ crossed \in BOOLEAN)'
      BY <2>5 DEF Announce, Goes, RecordsInv, RecordsTypes, Steps
    <3>2. \A other \in Classes : Past(other)' <=> Past(other)
      BY <2>5 DEF Announce, Goes, RecordsInv, RecordsTypes, Past
    <3>3. ReadWasWritten' /\ FoundWasWritten'
      BY <2>5, <3>2 DEF Announce, Goes, RecordsInv, RecordsTypes, Classes,
         ReadWasWritten, FoundWasWritten
    <3>4. ASSUME ~crossed PROVE OneAfterTheOther' /\ SomebodyTells'
      <4>1. OneAfterTheOther'
        BY <2>5, <3>2, <3>4 DEF Announce, Goes, RecordsInv, RecordsTypes,
           OneAfterTheOther
      <4>2. SomebodyTells'
        BY <2>5, <3>1 DEF Announce, SomebodyTells, RecordsInv
      <4>3. QED
        BY <4>1, <4>2
    <3>5. QED
      BY <2>5, <3>1, <3>3, <3>4 DEF RecordsInv, Announce
  <2>6. CASE UNCHANGED recordsVars
    BY <2>6 DEF recordsVars, RecordsInv, RecordsTypes, ReadWasWritten,
       FoundWasWritten, OneAfterTheOther, SomebodyTells, Past
  <2>7. QED
    BY <2>1, <2>2, <2>3, <2>4, <2>5, <2>6 DEF RecordsNext, RecordClass
<1>3. QED
  BY <1>1, <1>2, PTL DEF RecordsSpec

\* An image is said to be classified after both of its results were written.
THEOREM AnnouncedIsClassified ==
  ASSUME RecordsAssumption
  PROVE  RecordsSpec => []AnnouncedWasClassified
<1>1. RecordsInv => AnnouncedWasClassified
  BY DEF RecordsInv, FoundWasWritten, Past, AnnouncedWasClassified, Classes
<1>2. QED
  BY <1>1, RecordsInvHolds, PTL

\* Both results are kept and the image is said to be classified, unless a
\* result was read while the other was being written.
THEOREM ResultsAreAlwaysKept ==
  ASSUME RecordsAssumption
  PROVE  RecordsSpec => []ResultsAreKept
<1>1. RecordsInv => ResultsAreKept
  <2> SUFFICES ASSUME RecordsInv, Over, ~crossed
               PROVE  info = Classes /\ announced > 0
    BY DEF ResultsAreKept
  <2>1. \A class \in Classes : Past(class)
    BY DEF Over, Past
  <2>2. info # Unreadable
    BY DEF RecordsInv, OneAfterTheOther, Over
  <2>3. info = Classes
    BY <2>1, <2>2 DEF RecordsInv, RecordsTypes, OneAfterTheOther
  <2>4. announced > 0
    BY <2>1 DEF RecordsInv, SomebodyTells, Over
  <2>5. QED
    BY <2>3, <2>4
<1>2. QED
  BY <1>1, RecordsInvHolds, PTL

\* The announcements that a handler may have made.
Made(class) == IF step[class] = "ended" THEN 1 ELSE 0

\* The variables have their types, and an image is said to be classified at
\* most once by each of its handlers.
THEOREM RecordsTypeCorrect ==
  ASSUME RecordsAssumption
  PROVE  RecordsSpec => []RecordsTypeOK
<1> DEFINE Bounded == announced <= Made("shape") + Made("letter")
<1>1. RecordsInit => Bounded
  BY DEF RecordsInit, Made, Classes
<1>2. RecordsInv /\ Bounded /\ [RecordsNext]_recordsVars => Bounded'
  <2> SUFFICES ASSUME RecordsInv, Bounded, [RecordsNext]_recordsVars
               PROVE  Bounded'
    OBVIOUS
  <2>1. announced \in Nat /\ step \in [Classes -> Steps]
    BY DEF RecordsInv, RecordsTypes
  <2>2. CASE UNCHANGED recordsVars
    BY <2>2 DEF recordsVars, Made
  <2>3. ASSUME NEW class \in Classes, NEW next, Goes(class, next),
               step[class] # "ended",
               announced' = announced \/ next = "ended",
               announced' = announced \/ announced' = announced + 1
        PROVE  Bounded'
    BY <2>1, <2>3 DEF Goes, Made, Classes
  <2>4. ASSUME NEW class \in Classes, RecordClass(class)
        PROVE  Bounded'
    <3>1. CASE Read(class)
      BY <2>3, <3>1 DEF Read
    <3>2. CASE Empty(class)
      BY <2>3, <3>2 DEF Empty
    <3>3. CASE Dump(class)
      BY <2>3, <3>3 DEF Dump
    <3>4. CASE Check(class)
      BY <2>3, <3>4 DEF Check, Classes
    <3>5. CASE Announce(class)
      BY <2>3, <3>5 DEF Announce
    <3>6. QED
      BY <2>4, <3>1, <3>2, <3>3, <3>4, <3>5 DEF RecordClass
  <2>5. QED
    BY <2>2, <2>4 DEF RecordsNext
<1>3. RecordsInv /\ Bounded => RecordsTypeOK
  <2>1. RecordsInv /\ Bounded => announced \in 0 .. 2
    BY DEF RecordsInv, Made
  <2>2. QED
    BY <2>1 DEF RecordsInv, RecordsTypes, RecordsTypeOK
<1>4. QED
  BY <1>1, <1>2, <1>3, RecordsInvHolds, PTL DEF RecordsSpec
=============================================================================
