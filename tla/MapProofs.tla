------------------------------ MODULE MapProofs ------------------------------
(***************************************************************************)
(* Proofs about the map of the archived ground interface: its links to the *)
(* plan (PlanLinks), the drone (DroneOnMap), what others send              *)
(* (MapDrawings), and the plan's own path (CommandPath); and about the     *)
(* field, which both interfaces show on theirs (GroundProgram).            *)
(***************************************************************************)
EXTENDS PlanLinks, DroneOnMap, MapDrawings, CommandPath, GroundProgram,
        SequenceTheorems, WellFoundedInduction, TLAPS

-----------------------------------------------------------------------------
(* Numbers: induction, and the least and the greatest of a set.            *)

Below == {ss \in Nat \X Nat : ss[1] < ss[2]}

LEMMA BelowIsWellFounded == IsWellFoundedOn(Below, Nat)
<1>1. OpToRel(<, Nat) = Below
  BY DEF OpToRel, Below
<1>2. QED
  BY <1>1, NatLessThanWellFounded

\* Induction: a set with 0 and the successor of each of its numbers has all.
LEMMA NaturalsFromZero ==
  ASSUME NEW S, 0 \in S, \A n \in Nat : n \in S => n + 1 \in S
  PROVE  Nat \subseteq S
<1> DEFINE T == Nat \ S
<1>1. SUFFICES ASSUME T # {} PROVE FALSE
  OBVIOUS
<1>2. T \subseteq Nat
  OBVIOUS
<1>3. PICK x \in T : \A y \in T : ~(<<y, x>> \in Below)
  <2> HIDE DEF T
  <2>1. QED
    BY <1>1, <1>2, BelowIsWellFounded, WFMin
<1>4. x # 0 /\ x \in Nat /\ x - 1 \in Nat /\ x - 1 < x /\ x = (x - 1) + 1
  OBVIOUS
<1>5. <<x - 1, x>> \in Below
  BY <1>4 DEF Below
<1>6. x - 1 \in T
  BY <1>4
<1>7. QED
  BY <1>3, <1>5, <1>6

LEMMA LeastOf ==
  ASSUME NEW S, S \subseteq Nat, S # {}
  PROVE  Min(S) \in S /\ \A x \in S : Min(S) <= x
<1>1. PICK x \in S : \A y \in S : ~(<<y, x>> \in Below)
  BY BelowIsWellFounded, WFMin
<1>2. ASSUME NEW y \in S PROVE x <= y
  <2>1. x \in Nat /\ y \in Nat /\ ~(<<y, x>> \in Below)
    BY <1>1
  <2>2. QED
    BY <2>1 DEF Below
<1>3. QED
  BY <1>2 DEF Min

LEMMA GreatestOf ==
  ASSUME NEW n \in Nat, NEW S, S \subseteq 1 .. n, S # {}
  PROVE  Max(S) \in S /\ \A x \in S : Max(S) >= x
<1> DEFINE T == {x \in Nat : n - x \in S}
<1>1. T \subseteq Nat
  OBVIOUS
<1>2. T # {}
  <2>1. PICK x \in S : TRUE
    OBVIOUS
  <2>2. n - x \in Nat /\ n - (n - x) = x
    BY <2>1
  <2>3. QED
    BY <2>1, <2>2
<1>3. PICK t \in T : \A u \in T : t <= u
  <2> HIDE DEF T
  <2>1. QED
    BY <1>1, <1>2, LeastOf
<1>4. n - t \in S /\ t \in Nat
  OBVIOUS
<1>5. ASSUME NEW y \in S PROVE n - t >= y
  <2>1. y \in 1 .. n /\ n - y \in Nat /\ n - (n - y) = y
    OBVIOUS
  <2>2. n - y \in T
    BY <2>1
  <2>3. t <= n - y
    BY <1>3, <2>2
  <2>4. QED
    BY <1>4, <2>1, <2>3
<1>6. QED
  BY <1>4, <1>5 DEF Max

LEMMA SameGreatest ==
  ASSUME NEW n \in Nat, NEW S, S \subseteq 1 .. n, NEW T, T \subseteq 1 .. n,
         NEW m \in Nat, m \in S, \A x \in Nat : x >= m => (x \in S <=> x \in T)
  PROVE  Max(S) = Max(T)
<1>1. m \in T
  OBVIOUS
<1>2. /\ Max(S) \in S /\ \A x \in S : Max(S) >= x
      /\ Max(T) \in T /\ \A x \in T : Max(T) >= x
  BY <1>1, GreatestOf
<1> DEFINE a == Max(S)
           b == Max(T)
<1> HIDE DEF a, b
<1>3. /\ a \in S /\ (\A x \in S : a >= x) /\ b \in T /\ \A x \in T : b >= x
  BY <1>2 DEF a, b
<1>4. a \in Nat /\ b \in Nat /\ a >= m /\ b >= m
  BY <1>1, <1>3
<1>5. a \in T /\ b \in S
  BY <1>3, <1>4
<1>6. a = b
  BY <1>3, <1>4, <1>5
<1>7. QED
  BY <1>6 DEF a, b

-----------------------------------------------------------------------------
(* Sequences: one more, one less, and FlattenSeq.                          *)

IsJoined(t, s, u) ==
  /\ Len(s) \in Nat /\ Len(u) \in Nat /\ Len(t) = Len(s) + Len(u)
  /\ DOMAIN t = 1 .. Len(s) + Len(u)
  /\ \A i \in 1 .. Len(s) : t[i] = s[i]
  /\ \A i \in 1 .. Len(u) : t[Len(s) + i] = u[i]

LEMMA Joined ==
  ASSUME NEW S, NEW s \in Seq(S), NEW u \in Seq(S)
  PROVE  s \o u \in Seq(S) /\ IsJoined(s \o u, s, u)
  BY DEF IsJoined

\* The sequence t is s without its element at i, or with x inserted there.
IsRemoved(t, s, i) ==
  /\ Len(t) = Len(s) - 1 /\ DOMAIN t = 1 .. Len(s) - 1
  /\ \A j \in 1 .. Len(s) - 1 :
       /\ j < i => t[j] = s[j]
       /\ j >= i => t[j] = s[j + 1]

IsInserted(t, s, i, x) ==
  /\ Len(t) = Len(s) + 1 /\ DOMAIN t = 1 .. Len(s) + 1
  /\ \A j \in 1 .. Len(s) + 1 :
       /\ j < i => t[j] = s[j]
       /\ j = i => t[j] = x
       /\ j > i => t[j] = s[j - 1]

LEMMA Shifted ==
  ASSUME NEW n \in Nat, NEW i \in 1 .. n, NEW j \in 1 .. n - 1, j >= i
  PROVE  j + 1 - i \in 1 .. n - i
  OBVIOUS

LEMMA Removed ==
  ASSUME NEW S, NEW s \in Seq(S), NEW i \in DOMAIN s
  PROVE  RemoveAt(s, i) \in Seq(S) /\ IsRemoved(RemoveAt(s, i), s, i)
<1> DEFINE a == SubSeq(s, 1, i - 1)
           b == SubSeq(s, i + 1, Len(s))
<1>1. /\ a \in Seq(S) /\ Len(a) = i - 1 /\ \A j \in 1 .. i - 1 : a[j] = s[j]
      /\ Len(s) \in Nat /\ i \in 1 .. Len(s)
  OBVIOUS
<1>2. /\ b \in Seq(S) /\ Len(b) = Len(s) - i
      /\ \A j \in 1 .. Len(s) - i : b[j] = s[j + i]
  OBVIOUS
<1> HIDE DEF a, b
<1> DEFINE t == a \o b
<1>3. t \in Seq(S) /\ IsJoined(t, a, b)
  BY <1>1, <1>2, Joined, Zenon
<1> HIDE DEF t
<1>4. Len(a) + Len(b) = Len(s) - 1
  BY <1>1, <1>2
<1>5. ASSUME NEW j \in 1 .. Len(s) - 1
      PROVE  /\ j < i => t[j] = s[j]
             /\ j >= i => t[j] = s[j + 1]
  <2>1. CASE j < i
    BY <1>1, <1>3, <1>4, <2>1 DEF IsJoined
  <2>2. CASE j >= i
    <3> DEFINE k == j + 1 - i
    <3>1. k \in 1 .. Len(s) - i
      BY <1>1, <2>2, Shifted
    <3>4. k + i = j + 1 /\ (i - 1) + k = j
      BY <1>1
    <3> HIDE DEF k
    <3>2. t[j] = b[k]
      BY <1>1, <1>2, <1>3, <3>1, <3>4 DEF IsJoined
    <3>3. QED
      BY <1>1, <1>2, <2>2, <3>1, <3>2, <3>4
  <2>3. QED
    BY <1>1, <2>1, <2>2
<1>6. t \in Seq(S) /\ Len(t) = Len(s) - 1 /\ DOMAIN t = 1 .. Len(s) - 1
  BY <1>3, <1>4 DEF IsJoined
<1>7. RemoveAt(s, i) = t
  BY DEF RemoveAt, t, a, b
<1>8. QED
  BY <1>5, <1>6, <1>7 DEF IsRemoved

LEMMA Inserted ==
  ASSUME NEW S, NEW s \in Seq(S), NEW i \in 1 .. Len(s) + 1, NEW x \in S
  PROVE  /\ InsertAt(s, i, x) \in Seq(S)
         /\ IsInserted(InsertAt(s, i, x), s, i, x)
<1> DEFINE a == SubSeq(s, 1, i - 1)
           b == SubSeq(s, i, Len(s))
           c == <<x>>
<1>1. /\ a \in Seq(S) /\ Len(a) = i - 1 /\ \A j \in 1 .. i - 1 : a[j] = s[j]
      /\ Len(s) \in Nat /\ i \in Nat
  OBVIOUS
<1>2. /\ b \in Seq(S) /\ Len(b) = Len(s) + 1 - i
      /\ \A j \in 1 .. Len(s) + 1 - i : b[j] = s[j + i - 1]
  OBVIOUS
<1>3. c \in Seq(S) /\ Len(c) = 1 /\ c[1] = x
  OBVIOUS
<1> HIDE DEF a, b, c
<1> DEFINE d == a \o c
           t == d \o b
<1>4. /\ d \in Seq(S) /\ Len(d) = i
      /\ \A j \in 1 .. i - 1 : d[j] = s[j]
      /\ d[i] = x
  <2>1. d \in Seq(S) /\ IsJoined(d, a, c)
    BY <1>1, <1>3, Joined, Zenon
  <2> HIDE DEF d
  <2>2. Len(a) + 1 = i /\ 1 \in 1 .. Len(c)
    BY <1>1, <1>3
  <2>3. d[i] = x
    BY <1>3, <2>1, <2>2 DEF IsJoined
  <2>4. d \in Seq(S) /\ Len(d) = i
    BY <1>1, <1>3, <2>1, <2>2 DEF IsJoined
  <2>5. \A j \in 1 .. i - 1 : d[j] = s[j]
    BY <1>1, <2>1 DEF IsJoined
  <2>6. QED
    BY <2>3, <2>4, <2>5
<1> HIDE DEF d
<1>5. t \in Seq(S) /\ IsJoined(t, d, b)
  BY <1>2, <1>4, Joined, Zenon
<1> HIDE DEF t
<1>6. i + Len(b) = Len(s) + 1
  BY <1>1, <1>2
<1>7. ASSUME NEW j \in 1 .. Len(s) + 1
      PROVE  /\ j < i => t[j] = s[j]
             /\ j = i => t[j] = x
             /\ j > i => t[j] = s[j - 1]
  <2>1. CASE j <= i
    BY <1>1, <1>4, <1>5, <2>1 DEF IsJoined
  <2>2. CASE j > i
    <3> DEFINE k == j - i
    <3>1. k \in 1 .. Len(s) + 1 - i /\ k + i - 1 = j - 1 /\ i + k = j
      <4>1. i \in Nat /\ j \in Nat /\ Len(s) \in Nat /\ j <= Len(s) + 1
        BY <1>7
      <4>2. QED
        BY <4>1, <2>2
    <3> HIDE DEF k
    <3>2. t[j] = b[k]
      BY <1>2, <1>4, <1>5, <3>1 DEF IsJoined
    <3>3. QED
      BY <1>1, <1>2, <2>2, <3>1, <3>2
  <2>3. QED
    BY <1>1, <2>1, <2>2
<1>8. InsertAt(s, i, x) = t
  BY DEF InsertAt, t, d, c, a, b
<1>9. t \in Seq(S) /\ Len(t) = Len(s) + 1 /\ DOMAIN t = 1 .. Len(s) + 1
  BY <1>4, <1>5, <1>6 DEF IsJoined
<1>10. QED
  BY <1>7, <1>8, <1>9 DEF IsInserted

\* f has the sequences of seqs up to each one, joined.
Joins(f, seqs) ==
  f = [i \in 1 .. Len(seqs) |->
        IF i = 1 THEN seqs[i] ELSE f[i - 1] \o seqs[i]]

LEMMA JoinsAreSequences ==
  ASSUME NEW S, NEW seqs \in Seq(Seq(S)), NEW f, Joins(f, seqs),
         NEW i \in 1 .. Len(seqs)
  PROVE  f[i] \in Seq(S)
<1> DEFINE T == {k \in Nat : k \in 1 .. Len(seqs) => f[k] \in Seq(S)}
<1>1. Len(seqs) \in Nat /\ \A k \in 1 .. Len(seqs) : seqs[k] \in Seq(S)
  BY LenProperties, ElementOfSeq
<1>2. 0 \in T
  BY <1>1
<1>3. ASSUME NEW n \in Nat, n \in T PROVE n + 1 \in T
  <2>1. SUFFICES ASSUME n + 1 \in 1 .. Len(seqs) PROVE f[n + 1] \in Seq(S)
    BY <1>3
  <2>2. seqs[n + 1] \in Seq(S)
    BY <1>1, <2>1
  <2>3. CASE n = 0
    <3>1. f[n + 1] = seqs[n + 1]
      BY <2>1, <2>3 DEF Joins
    <3>2. QED
      BY <3>1, <2>2
  <2>4. CASE n # 0
    <3>1. n \in 1 .. Len(seqs) /\ n + 1 # 1 /\ (n + 1) - 1 = n
      BY <1>1, <2>1, <2>4
    <3>2. f[n + 1] = f[n] \o seqs[n + 1]
      BY <3>1, <2>1 DEF Joins
    <3>3. f[n] \in Seq(S)
      BY <3>1, <1>3
    <3>4. QED
      BY <3>2, <3>3, <2>2, ConcatProperties
  <2>5. QED
    BY <2>3, <2>4
<1>4. Nat \subseteq T
  <2> HIDE DEF T
  <2>1. QED
    BY <1>2, <1>3, NaturalsFromZero
<1>5. QED
  BY <1>4, <1>1

LEMMA JoinsAreUnique ==
  ASSUME NEW seqs, Len(seqs) \in Nat,
         NEW f, Joins(f, seqs), NEW g, Joins(g, seqs), NEW i \in 1 .. Len(seqs)
  PROVE  f[i] = g[i]
<1> DEFINE T == {k \in Nat : k \in 1 .. Len(seqs) => f[k] = g[k]}
<1>2. 0 \in T
  OBVIOUS
<1>3. ASSUME NEW n \in Nat, n \in T PROVE n + 1 \in T
  <2>1. SUFFICES ASSUME n + 1 \in 1 .. Len(seqs) PROVE f[n + 1] = g[n + 1]
    BY <1>3
  <2>3. CASE n = 0
    BY <2>1, <2>3 DEF Joins
  <2>4. CASE n # 0
    <3>1. n \in 1 .. Len(seqs) /\ n + 1 # 1 /\ (n + 1) - 1 = n
      BY <2>1, <2>4
    <3>2. f[n + 1] = f[n] \o seqs[n + 1] /\ g[n + 1] = g[n] \o seqs[n + 1]
      BY <3>1, <2>1 DEF Joins
    <3>3. f[n] = g[n]
      BY <3>1, <1>3
    <3>4. QED
      BY <3>2, <3>3
  <2>5. QED
    BY <2>3, <2>4
<1>4. Nat \subseteq T
  <2> HIDE DEF T
  <2>1. QED
    BY <1>2, <1>3, NaturalsFromZero
<1>5. QED
  BY <1>4

\* FlattenSeq of the community modules: what joins them all.
LEMMA FlattenIsTheLast ==
  ASSUME NEW seqs, Len(seqs) \in Nat, Len(seqs) # 0, NEW f, Joins(f, seqs)
  PROVE  FlattenSeq(seqs) = f[Len(seqs)]
<1>1. PICK g : /\ Joins(g, seqs)
               /\ FlattenSeq(seqs) = g[Len(seqs)]
  <2> DEFINE J(h) == h = [i \in 1 .. Len(seqs) |->
                           IF i = 1 THEN seqs[i] ELSE h[i - 1] \o seqs[i]]
             g == CHOOSE h : J(h)
  <2>1. J(f)
    BY DEF Joins
  <2>2. J(g)
    <3> HIDE DEF J
    <3>1. QED
      BY <2>1
  <2>3. FlattenSeq(seqs) = g[Len(seqs)]
    BY Zenon DEF FlattenSeq
  <2>4. Joins(g, seqs)
    <3> HIDE DEF g
    <3>1. QED
      BY <2>2 DEF Joins
  <2>5. QED
    <3> HIDE DEF g
    <3>1. QED
      BY <2>3, <2>4
<1>2. Len(seqs) \in 1 .. Len(seqs)
  OBVIOUS
<1>3. QED
  BY <1>1, <1>2, JoinsAreUnique

\* There is such an f.
LEMMA JoinsExist ==
  ASSUME NEW S, NEW seqs \in Seq(Seq(S))
  PROVE  \E f : Joins(f, seqs)
<1> DEFINE Part(f, k) == f = [i \in 1 .. k |->
                IF i = 1 THEN seqs[i] ELSE f[i - 1] \o seqs[i]]
           T == {k \in Nat : \E f : Part(f, k)}
<1>1. 0 \in T
  <2>1. Part(<<>>, 0)
    OBVIOUS
  <2>2. QED
    BY <2>1
<1>2. ASSUME NEW k \in Nat, k \in T PROVE k + 1 \in T
  <2>1. PICK f : Part(f, k)
    BY <1>2
  <2> DEFINE new == IF k + 1 = 1 THEN seqs[k + 1] ELSE f[k] \o seqs[k + 1]
             g == [i \in 1 .. k + 1 |-> IF i \in 1 .. k THEN f[i] ELSE new]
  <2>2. ASSUME NEW i \in 1 .. k + 1
        PROVE  g[i] = (IF i = 1 THEN seqs[i] ELSE g[i - 1] \o seqs[i])
    <3>1. CASE i = k + 1
      <4>1. g[i] = new
        BY <3>1
      <4>2. k # 0 => i # 1 /\ i - 1 = k /\ g[i - 1] = f[k]
        BY <3>1
      <4>3. QED
        BY <4>1, <4>2, <3>1
    <3>2. CASE i # k + 1
      <4>1. i \in 1 .. k /\ g[i] = f[i] /\ (i # 1 => g[i - 1] = f[i - 1])
        BY <3>2
      <4>2. f[i] = (IF i = 1 THEN seqs[i] ELSE f[i - 1] \o seqs[i])
        BY <4>1, <2>1
      <4>3. QED
        BY <4>1, <4>2
    <3>3. QED
      BY <3>1, <3>2
  <2>3. Part(g, k + 1)
    <3> DEFINE h == [i \in 1 .. k + 1 |->
                IF i = 1 THEN seqs[i] ELSE g[i - 1] \o seqs[i]]
    <3>1. DOMAIN g = 1 .. k + 1 /\ DOMAIN h = 1 .. k + 1
      OBVIOUS
    <3>2. \A i \in 1 .. k + 1 : g[i] = h[i]
      BY <2>2, Zenon
    <3>3. g = h
      BY <3>1, <3>2
    <3>4. QED
      BY <3>3, Zenon
  <2>4. QED
    <3> HIDE DEF Part, g
    <3>1. QED
      BY <2>3
<1>3. Nat \subseteq T
  <2> HIDE DEF T
  <2>1. QED
    BY <1>1, <1>2, NaturalsFromZero
<1>4. Len(seqs) \in T
  BY <1>3, LenProperties
<1>5. QED
  BY <1>4 DEF Joins

\* Joining sequences of S gives a sequence of S.
LEMMA FlattenIsASequence ==
  ASSUME NEW S, NEW seqs \in Seq(Seq(S))
  PROVE  FlattenSeq(seqs) \in Seq(S)
<1>1. Len(seqs) \in Nat
  BY LenProperties
<1>2. CASE Len(seqs) = 0
  <2>1. seqs = <<>>
    BY <1>2, EmptySeq
  <2>2. FlattenSeq(seqs) = <<>>
    BY <1>2, <2>1 DEF FlattenSeq
  <2>3. QED
    BY <2>2
<1>3. CASE Len(seqs) # 0
  <2>1. PICK f : Joins(f, seqs)
    BY JoinsExist
  <2>2. FlattenSeq(seqs) = f[Len(seqs)] /\ Len(seqs) \in 1 .. Len(seqs)
    BY <2>1, <1>1, <1>3, FlattenIsTheLast
  <2>3. QED
    BY <2>1, <2>2, JoinsAreSequences
<1>4. QED
  BY <1>2, <1>3

LEMMA FlattenOfNone == FlattenSeq(<<>>) = <<>>
  BY DEF FlattenSeq

LEMMA FlattenOfOneMore ==
  ASSUME NEW S, NEW seqs \in Seq(Seq(S)), NEW e \in Seq(S)
  PROVE  FlattenSeq(Append(seqs, e)) = FlattenSeq(seqs) \o e
<1> DEFINE n == Len(seqs)
           more == Append(seqs, e)
<1>1. n \in Nat
  BY LenProperties
<1>2. /\ more \in Seq(Seq(S)) /\ Len(more) = n + 1 /\ more[n + 1] = e
      /\ \A i \in 1 .. n : more[i] = seqs[i]
  BY AppendProperties
<1>3. PICK f : Joins(f, seqs)
  BY JoinsExist
<1>4. PICK g : Joins(g, more)
  BY <1>2, JoinsExist
<1>5. FlattenSeq(more) = g[n + 1]
  <2>1. Len(more) \in Nat /\ Len(more) # 0
    BY <1>1, <1>2
  <2> HIDE DEF more
  <2>2. FlattenSeq(more) = g[Len(more)]
    BY <2>1, <1>4, FlattenIsTheLast
  <2>3. QED
    BY <2>2, <1>2
<1>6. CASE n = 0
  <2>1. seqs = <<>>
    BY <1>6, EmptySeq
  <2>2. FlattenSeq(seqs) = <<>>
    BY <2>1, FlattenOfNone
  <2>3. g[n + 1] = e
    BY <1>2, <1>4, <1>6 DEF Joins
  <2>4. QED
    BY <1>5, <2>2, <2>3, ConcatEmptySeq
<1>7. CASE n # 0
  <2>1. FlattenSeq(seqs) = f[n]
    BY <1>1, <1>3, <1>7, FlattenIsTheLast
  <2>2. n + 1 \in 1 .. n + 1 /\ n + 1 # 1 /\ (n + 1) - 1 = n /\ n \in 1 .. n
    BY <1>1, <1>7
  <2>3. g[n + 1] = g[n] \o e
    BY <1>2, <1>4, <2>2 DEF Joins
  <2> DEFINE h == [i \in 1 .. n |-> g[i]]
  <2>4. Joins(h, seqs)
    <3> DEFINE k == [i \in 1 .. n |->
                      IF i = 1 THEN seqs[i] ELSE h[i - 1] \o seqs[i]]
    <3>1. ASSUME NEW i \in 1 .. n PROVE h[i] = k[i]
      <4>1. h[i] = g[i] /\ i \in 1 .. n + 1 /\ more[i] = seqs[i]
        BY <1>1, <1>2
      <4>2. g[i] = (IF i = 1 THEN more[i] ELSE g[i - 1] \o more[i])
        BY <4>1, <1>2, <1>4 DEF Joins
      <4>3. i # 1 => i - 1 \in 1 .. n
        BY <1>1
      <4>4. i # 1 => h[i - 1] = g[i - 1]
        BY <4>3
      <4>5. QED
        BY <4>1, <4>2, <4>4
    <3>2. DOMAIN h = DOMAIN k
      OBVIOUS
    <3>3. h = k
      BY <3>1, <3>2
    <3>4. QED
      BY <3>3 DEF Joins
  <2>5. f[n] = h[n]
    <3> HIDE DEF h
    <3>1. QED
      BY <1>1, <1>3, <2>2, <2>4, JoinsAreUnique
  <2>6. h[n] = g[n]
    BY <2>2
  <2>7. QED
    BY <1>5, <2>1, <2>3, <2>5, <2>6
<1>8. QED
  BY <1>6, <1>7

\* Joining two lists one after the other joins what they join.
LEMMA FlattenOfBoth ==
  ASSUME NEW S, NEW s \in Seq(Seq(S)), NEW t \in Seq(Seq(S))
  PROVE  FlattenSeq(s \o t) = FlattenSeq(s) \o FlattenSeq(t)
<1> DEFINE Holds(u) == FlattenSeq(s \o u) = FlattenSeq(s) \o FlattenSeq(u)
           T == {k \in Nat : \A u \in Seq(Seq(S)) : Len(u) = k => Holds(u)}
<1>1. 0 \in T
  <2>1. SUFFICES ASSUME NEW u \in Seq(Seq(S)), Len(u) = 0 PROVE Holds(u)
    OBVIOUS
  <2>2. u = <<>>
    BY <2>1, EmptySeq
  <2>3. s \o u = s
    BY <2>2, ConcatEmptySeq
  <2>4. FlattenSeq(s) \o FlattenSeq(u) = FlattenSeq(s)
    BY <2>2, FlattenOfNone, FlattenIsASequence, ConcatEmptySeq
  <2>5. QED
    BY <2>3, <2>4
<1>2. ASSUME NEW k \in Nat, k \in T PROVE k + 1 \in T
  <2>1. SUFFICES ASSUME NEW u \in Seq(Seq(S)), Len(u) = k + 1 PROVE Holds(u)
    OBVIOUS
  <2>2. PICK v \in Seq(Seq(S)), e \in Seq(S) : u = Append(v, e)
    <3>1. u # <<>>
      BY <2>1, EmptySeq
    <3>2. QED
      BY <3>1, SequenceEmptyOrAppend
  <2>3. Len(v) = k
    BY <2>1, <2>2, AppendProperties, LenProperties
  <2>4. Holds(v)
    BY <1>2, <2>3
  <2>5. s \o u = Append(s \o v, e) /\ s \o v \in Seq(Seq(S))
    <3>1. /\ u = v \o <<e>> /\ Append(s \o v, e) = (s \o v) \o <<e>>
          /\ <<e>> \in Seq(Seq(S)) /\ s \o v \in Seq(Seq(S))
      BY <2>2, AppendIsConcat, ConcatProperties
    <3>2. QED
      BY <3>1, ConcatAssociative
  <2>6. FlattenSeq(s \o u) = FlattenSeq(s \o v) \o e
    BY <2>5, FlattenOfOneMore
  <2>7. FlattenSeq(u) = FlattenSeq(v) \o e
    BY <2>2, FlattenOfOneMore
  <2>8. /\ FlattenSeq(s) \in Seq(S) /\ FlattenSeq(v) \in Seq(S)
    BY FlattenIsASequence
  <2>9. FlattenSeq(s) \o (FlattenSeq(v) \o e)
          = (FlattenSeq(s) \o FlattenSeq(v)) \o e
    <3> DEFINE a == FlattenSeq(s)
               b == FlattenSeq(v)
    <3>1. a \in Seq(S) /\ b \in Seq(S)
      BY <2>8
    <3> HIDE DEF a, b
    <3>2. (a \o b) \o e = a \o (b \o e)
      BY <3>1, ConcatAssociative
    <3>3. QED
      BY <3>2 DEF a, b
  <2>10. QED
    BY <2>4, <2>6, <2>7, <2>9
<1>3. Nat \subseteq T
  <2> HIDE DEF T
  <2>1. QED
    BY <1>1, <1>2, NaturalsFromZero
<1>4. Len(t) \in T
  BY <1>3, LenProperties
<1>5. QED
  BY <1>4

\* A part of what is joined: the list from its start to k, k + 1, and the rest.
LEMMA FlattenAround ==
  ASSUME NEW S, NEW s \in Seq(Seq(S)), NEW i \in 1 .. Len(s)
  PROVE  FlattenSeq(s) = (FlattenSeq(SubSeq(s, 1, i - 1)) \o s[i])
                           \o FlattenSeq(SubSeq(s, i + 1, Len(s)))
<1> DEFINE A == SubSeq(s, 1, i - 1)
           B == SubSeq(s, i + 1, Len(s))
<1>1. Len(s) \in Nat /\ i \in Int /\ \A j \in 1 .. Len(s) : s[j] \in Seq(S)
  BY LenProperties, ElementOfSeq
<1>2. /\ A \in Seq(Seq(S)) /\ B \in Seq(Seq(S)) /\ s[i] \in Seq(S)
      /\ SubSeq(s, 1, i) \in Seq(Seq(S))
  <2>1. \A j \in 1 .. i : s[j] \in Seq(S)
    BY <1>1
  <2>2. \A j \in 1 .. i - 1 : s[j] \in Seq(S)
    BY <1>1
  <2>3. \A j \in i + 1 .. Len(s) : s[j] \in Seq(S)
    BY <1>1
  <2>4. 1 \in Int /\ i - 1 \in Int /\ i + 1 \in Int /\ Len(s) \in Int
    BY <1>1
  <2>5. QED
    BY <1>1, <2>1, <2>2, <2>3, <2>4, SubSeqProperties
<1>3. SubSeq(s, 1, i) = Append(A, s[i])
  <2>1. SubSeq(s, 1, i) = A \o <<s[i]>>
    <3>1. 1 \in 1 .. Len(s) /\ i \in 1 .. Len(s)
      BY <1>1
    <3>2. QED
      BY <3>1, SubSeqRecursiveSecond
  <2> HIDE DEF A
  <2>2. QED
    BY <2>1, <1>2, AppendIsConcat
<1>4. s = SubSeq(s, 1, i) \o B
  <2>1. /\ 1 \in 1 .. Len(s) + 1 /\ i \in 1 - 1 .. Len(s)
        /\ Len(s) \in i .. Len(s)
    BY <1>1
  <2>2. SubSeq(s, 1, i) \o B = SubSeq(s, 1, Len(s))
    BY <2>1, ConcatAdjacentSubSeq
  <2>3. QED
    BY <2>2, SubSeqFull
<1> HIDE DEF A, B
<1>5. FlattenSeq(s) = FlattenSeq(SubSeq(s, 1, i)) \o FlattenSeq(B)
  BY <1>2, <1>4, FlattenOfBoth
<1>6. FlattenSeq(SubSeq(s, 1, i)) = FlattenSeq(A) \o s[i]
  BY <1>2, <1>3, FlattenOfOneMore
<1>7. QED
  BY <1>5, <1>6 DEF A, B

-----------------------------------------------------------------------------
(* Links between the plan and the objects of the interop mission.          *)

\* What the map knows of the objects it shows.
Point == [location : Locations \cup {Nowhere}, shown : BOOLEAN,
          button : {"add", "remove"}]

PointsAreDrawn(pts, drawn) ==
  /\ pts \in [Objects -> Point]
  /\ \A o \in Objects :
       /\ pts[o].shown <=> drawn[o] # Nowhere
       /\ pts[o].shown => pts[o].location = drawn[o]

LinksInv ==
  /\ mission \in Missions
  /\ PointsAreDrawn(points, mission)

\* What a change of the button keeps of a point.
SamePoint(q, p) == q \in Point /\ q.shown = p.shown /\ q.location = p.location

LEMMA ButtonsOnly ==
  ASSUME NEW p \in Point, NEW b \in {"add", "remove"}
  PROVE  SamePoint([p EXCEPT !.button = b], p)
  BY DEF Point, SamePoint

LEMMA SamePointsAreDrawn ==
  ASSUME NEW drawn, NEW pts, PointsAreDrawn(pts, drawn), NEW new,
         new = [o \in Objects |-> new[o]],
         \A o \in Objects : SamePoint(new[o], pts[o])
  PROVE  PointsAreDrawn(new, drawn)
  BY DEF PointsAreDrawn, SamePoint

\* Drawing a plan changes the buttons of objects only.
LEMMA ButtonsKeepPoints ==
  ASSUME NEW drawn, NEW pts, PointsAreDrawn(pts, drawn),
         NEW old, NEW plan, NEW range
  PROVE  PointsAreDrawn(Buttons(old, plan, range, pts), drawn)
<1> DEFINE new == Buttons(old, plan, range, pts)
<1>1. ASSUME NEW o \in Objects
      PROVE  SamePoint(new[o], pts[o])
  <2>1. \/ new[o] = pts[o]
        \/ new[o] = [pts[o] EXCEPT !.button = "add"]
        \/ new[o] = [pts[o] EXCEPT !.button = "remove"]
    BY <1>1 DEF Buttons
  <2>2. pts[o] \in Point
    BY <1>1 DEF PointsAreDrawn
  <2> HIDE DEF new
  <2>3. SamePoint(pts[o], pts[o])
    BY <2>2 DEF SamePoint
  <2>4. QED
    BY <2>1, <2>2, <2>3, ButtonsOnly
<1>2. new = [o \in Objects |-> new[o]]
  BY DEF Buttons
<1> HIDE DEF new
<1>3. PointsAreDrawn(new, drawn)
  BY <1>1, <1>2, SamePointsAreDrawn
<1>4. QED
  BY <1>3 DEF new

LEMMA ErrorKeepsPoints ==
  ASSUME NEW drawn, NEW pts, PointsAreDrawn(pts, drawn),
         NEW old, NEW plan, NEW range, NEW bad
  PROVE  PointsAreDrawn(ErrorButtons(old, plan, range, bad, pts), drawn)
<1> DEFINE new == ErrorButtons(old, plan, range, bad, pts)
<1>1. ASSUME NEW o \in Objects
      PROVE  SamePoint(new[o], pts[o])
  <2>1. \/ new[o] = pts[o]
        \/ new[o] = [pts[o] EXCEPT !.button = "add"]
    BY <1>1 DEF ErrorButtons
  <2>2. pts[o] \in Point
    BY <1>1 DEF PointsAreDrawn
  <2> HIDE DEF new
  <2>3. SamePoint(pts[o], pts[o])
    BY <2>2 DEF SamePoint
  <2>4. QED
    BY <2>1, <2>2, <2>3, ButtonsOnly
<1>2. new = [o \in Objects |-> new[o]]
  BY DEF ErrorButtons
<1> HIDE DEF new
<1>3. PointsAreDrawn(new, drawn)
  BY <1>1, <1>2, SamePointsAreDrawn
<1>4. QED
  BY <1>3 DEF new

LEMMA DrawKeepsPoints ==
  ASSUME NEW drawn, NEW pts, PointsAreDrawn(pts, drawn),
         NEW old, NEW plan, NEW range, NEW restore,
         Draw(old, plan, range, pts, restore)
  PROVE  PointsAreDrawn(points', drawn)
  BY ButtonsKeepPoints, ErrorKeepsPoints DEF Draw

\* The objects as a new mission has them.
LEMMA DrawnAnewIsDrawn ==
  ASSUME NEW new \in Missions, PointsAreDrawn(points, mission)
  PROVE  PointsAreDrawn(DrawnAnew(new), new)
<1>1. \A o \in Objects : new[o] \in Locations \cup {Nowhere}
  BY DEF Missions
<1>2. \A o \in Objects : points[o] \in Point
  BY DEF PointsAreDrawn
<1>3. \A p \in Point : /\ [p EXCEPT !.shown = FALSE] \in Point
                       /\ [p EXCEPT !.shown = FALSE].shown = FALSE
  BY DEF Point
<1>4. \A l \in Locations :
        /\ Drawn(l) \in Point /\ Drawn(l).shown /\ Drawn(l).location = l
  BY DEF Drawn, Point
<1>5. NotDrawn \in Point /\ ~NotDrawn.shown
  BY DEF NotDrawn, Point
<1>6. QED
  BY <1>1, <1>2, <1>3, <1>4, <1>5 DEF DrawnAnew, PointsAreDrawn

LEMMA LinksInitInv == LinksInit => LinksInv
  BY DEF LinksInit, LinksInv, Missions, PointsAreDrawn, Point, NotDrawn

LEMMA LinksInvHolds == LinksSpec => []LinksInv
<1>1. LinksInit => LinksInv
  BY LinksInitInv
<1>2. ASSUME LinksInv, NEW plan, NEW range, NEW restore,
             Draw(commands, plan, range, points, restore), UNCHANGED mission
      PROVE  LinksInv'
  BY <1>2, DrawKeepsPoints DEF LinksInv
<1>3. ASSUME LinksInv, NEW new \in Missions, DrawMissionDetails(new)
      PROVE  LinksInv'
  <2>1. PointsAreDrawn(DrawnAnew(new), new)
    BY <1>3, DrawnAnewIsDrawn DEF LinksInv
  <2>2. mission' = new
    BY <1>3 DEF DrawMissionDetails
  <2>3. PointsAreDrawn(points', new)
    BY <1>3, <2>1, DrawKeepsPoints DEF DrawMissionDetails
  <2>4. QED
    BY <2>2, <2>3 DEF LinksInv
<1>4. LinksInv /\ [LinksNext]_linkVars => LinksInv'
  <2> SUFFICES ASSUME LinksInv, [LinksNext]_linkVars PROVE LinksInv'
    OBVIOUS
  <2>1. ASSUME NEW o \in Objects, AddPointToPlan(o) \/ RemovePointFromPlan(o)
        PROVE  LinksInv'
    BY <1>2, <2>1 DEF AddPointToPlan, RemovePointFromPlan, Delete, Changes
  <2>2. ASSUME NEW i \in 1 .. MaxLength,
               RemoveCommand(i) \/ ChangedCommandField(i)
        PROVE  LinksInv'
    BY <1>2, <2>2 DEF RemoveCommand, ChangedCommandField, Delete, Changes
  <2>3. CASE AddOtherCommand \/ ClearCommands
    BY <1>2, <2>3 DEF AddOtherCommand, ClearCommands, Changes
  <2>4. ASSUME NEW plan \in SentPlans,
               CommandsChanged(plan, FALSE) \/ RestoreCommands(plan)
        PROVE  LinksInv'
    BY <1>2, <2>4 DEF CommandsChanged, RestoreCommands
  <2>5. CASE UNCHANGED linkVars
    BY <2>5 DEF linkVars, LinksInv
  <2>6. QED
    BY <1>3, <2>1, <2>2, <2>3, <2>4, <2>5 DEF LinksNext
<1>5. QED
  BY <1>1, <1>4, PTL DEF LinksSpec

\* The commands as other browsers send them, without a link.
Sent == {Own} \cup {Command(o, l, "none") : o \in Objects, l \in Locations}

LEMMA ShortLists ==
  ASSUME NEW S, NEW c \in S, NEW d \in S
  PROVE  /\ <<>> \in Seq(S) /\ Len(<<>>) = 0
         /\ <<c>> \in Seq(S) /\ Len(<<c>>) = 1
         /\ <<c, d>> \in Seq(S) /\ Len(<<c, d>>) = 2
  OBVIOUS

LEMMA SentPlansAre ==
  ASSUME NEW plan \in SentPlans
  PROVE  plan \in Seq(Sent) /\ Len(plan) <= 2
<1> DEFINE goal == plan \in Seq(Sent) /\ Len(plan) <= 2
<1>1. \A o \in Objects, l \in Locations : Command(o, l, "none") \in Sent
  BY DEF Sent
<1>2. Own \in Sent
  BY DEF Sent
<1> HIDE DEF goal
<1>3. ASSUME plan = <<>> \/ plan = <<Own>>
      PROVE  goal
  <2>1. CASE plan = <<>>
    <3>1. <<>> \in Seq(Sent) /\ Len(<<>>) = 0
      BY <1>2, ShortLists
    <3>2. QED
      BY <2>1, <3>1 DEF goal
  <2>2. CASE plan = <<Own>>
    <3>1. <<Own>> \in Seq(Sent) /\ Len(<<Own>>) = 1
      BY <1>2, ShortLists
    <3>2. QED
      BY <2>2, <3>1 DEF goal
  <2>3. QED
    BY <1>3, <2>1, <2>2
<1>4. ASSUME NEW c, NEW d, c \in Sent, d \in Sent,
             \/ plan = <<c>> \/ plan = <<c, d>>
      PROVE  goal
  <2>1. /\ <<c>> \in Seq(Sent) /\ Len(<<c>>) = 1
        /\ <<c, d>> \in Seq(Sent) /\ Len(<<c, d>>) = 2
    BY <1>4, ShortLists
  <2>2. CASE plan = <<c>>
    BY <2>1, <2>2 DEF goal
  <2>3. CASE plan = <<c, d>>
    BY <2>1, <2>3 DEF goal
  <2>4. QED
    BY <1>4, <2>2, <2>3
<1>5. \/ plan = <<>> \/ plan = <<Own>>
      \/ \E o \in Objects, l \in Locations :
           \/ plan = <<Command(o, l, "none")>>
           \/ plan = <<Command(o, l, "none"), Own>>
      \/ \E o \in Waypoints, q \in Goals \cup {SearchArea} :
           \E l \in Locations, k \in Locations :
             plan = <<Command(o, l, "none"), Command(q, k, "none")>>
  BY DEF SentPlans
<1>6. Waypoints \subseteq Objects /\ Goals \cup {SearchArea} \subseteq Objects
  BY DEF Objects
<1>7. ASSUME NEW o \in Objects, NEW l \in Locations,
             \/ plan = <<Command(o, l, "none")>>
             \/ plan = <<Command(o, l, "none"), Own>>
      PROVE  goal
  <2>1. Command(o, l, "none") \in Sent
    BY <1>1, <1>7
  <2>2. QED
    BY <2>1, <1>2, <1>4, <1>7
<1>8. ASSUME NEW o \in Waypoints, NEW q \in Goals \cup {SearchArea},
             NEW l \in Locations, NEW k \in Locations,
             plan = <<Command(o, l, "none"), Command(q, k, "none")>>
      PROVE  goal
  <2>1. Command(o, l, "none") \in Sent /\ Command(q, k, "none") \in Sent
    BY <1>1, <1>6, <1>8
  <2>2. QED
    BY <2>1, <1>4, <1>8
<1>9. goal
  BY <1>3, <1>5, <1>7, <1>8
<1>10. QED
  BY <1>9 DEF goal

\* A plan is drawn as it is, with links, if every command in it that stands
\* for an object can be linked to one on the map.
LEMMA DrawsLinks ==
  ASSUME NEW pts, PointsAreDrawn(pts, mission), NEW old, NEW plan, NEW range,
         NEW restore, Draw(old, plan, range, pts, restore),
         \A i \in DOMAIN plan : plan[i].object # None =>
           /\ i \in range /\ plan[i].object \in Objects
           /\ CanLink(plan[i], pts) /\ pts[plan[i].object].shown
           /\ [plan[i] EXCEPT !.link = "last"].link = "last"
           /\ [plan[i] EXCEPT !.link = "last"].object = plan[i].object
  PROVE  /\ ~invalidCommands'
         /\ \A i \in DOMAIN plan :
              plan[i].object # None => LinkIsShown(commands'[i], points')
<1> DEFINE lost == Lost(plan, range, pts)
           found == {i \in lost : CanLink(plan[i], pts)}
           new == [i \in DOMAIN plan |->
                     IF i \in found THEN [plan[i] EXCEPT !.link = "last"]
                     ELSE IF i \in lost THEN Own ELSE plan[i]]
           bad == {i \in lost : IF i \in found
                                 THEN ~pts[plan[i].object].shown
                                 ELSE ~restore}
<1>1. \A i \in lost : i \in found /\ pts[plan[i].object].shown
  BY DEF Lost
<1>2. bad = {}
  BY <1>1
<1>3. /\ commands' = new /\ invalidCommands' = FALSE
      /\ points' = Buttons(old, new, range, pts)
  BY <1>2 DEF Draw
<1>4. \A i \in DOMAIN plan : plan[i].object # None => i \in lost
  BY DEF Lost, LinkIsShown, CanLink
<1> HIDE DEF lost
<1>5. \A i \in DOMAIN plan : plan[i].object # None =>
        /\ new[i].link = "last" /\ new[i].object = plan[i].object
  BY <1>1, <1>4
<1>6. PointsAreDrawn(points', mission)
  <2> HIDE DEF new
  <2>1. QED
    BY <1>3, ButtonsKeepPoints
<1>7. \A o \in Objects : pts[o].shown => points'[o].shown
  BY <1>6 DEF PointsAreDrawn
<1> HIDE DEF new
<1>8. QED
  BY <1>3, <1>5, <1>7 DEF LinkIsShown

\* A plan that agrees with the mission is shown, and linked to its objects.
THEOREM AgreeingPlansAreShown ==
  ASSUME LinksAssumption
  PROVE  LinksSpec => AgreeingPlanIsShown
<1>1. ASSUME LinksInv, NEW plan \in SentPlans, Agrees(plan), NEW restore,
             CommandsChanged(plan, restore)
      PROVE  /\ ~invalidCommands'
             /\ \A i \in DOMAIN plan :
                  plan[i].object # None => LinkIsShown(commands'[i], points')
  <2>1. ASSUME NEW i \in DOMAIN plan, plan[i].object # None
        PROVE  /\ i \in 1 .. MaxLength /\ plan[i].object \in Objects
               /\ CanLink(plan[i], points) /\ points[plan[i].object].shown
               /\ [plan[i] EXCEPT !.link = "last"].link = "last"
               /\ [plan[i] EXCEPT !.link = "last"].object = plan[i].object
    <3>1. plan[i] \in Sent /\ i \in 1 .. 2
      BY <2>1, SentPlansAre
    <3>2. PICK o \in Objects, l \in Locations : plan[i] = Command(o, l, "none")
      BY <2>1, <3>1 DEF Sent, Own, Command
    <3>3. /\ plan[i].object = o /\ plan[i].location = l
          /\ plan[i].link = "none"
          /\ [plan[i] EXCEPT !.link = "last"].link = "last"
          /\ [plan[i] EXCEPT !.link = "last"].object = o
      BY <3>2 DEF Command
    <3>4. mission[o] = l /\ l # Nowhere
      BY <1>1, <2>1, <3>3 DEF Agrees, LinksAssumption
    <3>5. points[o].shown /\ points[o].location = l
      BY <1>1, <3>4 DEF LinksInv, PointsAreDrawn
    <3>6. i \in 1 .. MaxLength
      BY <3>1 DEF LinksAssumption
    <3>7. QED
      BY <3>3, <3>4, <3>5, <3>6 DEF CanLink
  <2>2. PointsAreDrawn(points, mission)
    BY <1>1 DEF LinksInv
  <2>3. Draw(commands, plan, 1 .. MaxLength, points, restore)
    BY <1>1 DEF CommandsChanged
  <2>4. QED
    BY <2>1, <2>2, <2>3, DrawsLinks
<1>2. LinksInv => ShowsAgreeingPlan
  BY <1>1 DEF ShowsAgreeingPlan
<1>3. QED
  BY <1>2, LinksInvHolds, PTL DEF AgreeingPlanIsShown

\* The buttons of the objects on the map, and the plan they tell.
Told(pts, plan, cut) ==
  \A o \in Objects : pts[o].shown =>
    /\ LinkedTo(plan, o) => pts[o].button = "remove"
    /\ pts[o].button = "remove" => LinkedTo(plan, o) \/ cut

\* The plans are the same but for the range.
SameBeyond(old, plan, range) ==
  \A i : i \notin range =>
    /\ i \in DOMAIN old <=> i \in DOMAIN plan
    /\ i \in DOMAIN old => plan[i] = old[i]

\* No command of the plan is linked where an own command was.
NoneMoved(old, plan) ==
  \A i \in DOMAIN plan \cap DOMAIN old :
    plan[i].link = "last" => old[i] # Own

LEMMA ButtonsAreTold ==
  ASSUME NEW drawn, NEW pts, PointsAreDrawn(pts, drawn),
         NEW old, NEW plan, NEW range, SameBeyond(old, plan, range),
         NEW cut, Told(pts, old, cut)
  PROVE  Told(Buttons(old, plan, range, pts), plan, cut)
<1> DEFINE new == Buttons(old, plan, range, pts)
<1>1. SUFFICES ASSUME NEW o \in Objects, new[o].shown
               PROVE  /\ LinkedTo(plan, o) => new[o].button = "remove"
                      /\ new[o].button = "remove" => LinkedTo(plan, o) \/ cut
  BY DEF Told
<1> DEFINE in(p, i) == i \in DOMAIN p /\ p[i].object = o /\ p[i].link = "last"
<1>2. PointsAreDrawn(new, drawn)
  BY ButtonsKeepPoints
<1>3. pts[o].shown /\ pts[o] \in Point
  BY <1>1, <1>2 DEF PointsAreDrawn
<1>4. new[o] = IF \E i \in range : in(plan, i)
               THEN [pts[o] EXCEPT !.button = "remove"]
               ELSE IF ~LinkedTo(plan, o) /\ \E i \in range : in(old, i)
               THEN [pts[o] EXCEPT !.button = "add"]
               ELSE pts[o]
  BY <1>3 DEF Buttons
<1>5. /\ [pts[o] EXCEPT !.button = "remove"].button = "remove"
      /\ [pts[o] EXCEPT !.button = "add"].button = "add"
  BY <1>3 DEF Point
<1>6. /\ LinkedTo(old, o) => pts[o].button = "remove"
      /\ pts[o].button = "remove" => LinkedTo(old, o) \/ cut
  BY <1>3 DEF Told
<1>7. \A i : i \notin range => (in(plan, i) <=> in(old, i))
  BY DEF SameBeyond
<1>8. /\ LinkedTo(plan, o) <=> \E i : in(plan, i)
      /\ LinkedTo(old, o) <=> \E i : in(old, i)
  BY DEF LinkedTo
<1> HIDE DEF new, in
<1>9. CASE \E i \in range : in(plan, i)
  BY <1>4, <1>5, <1>8, <1>9
<1>10. CASE /\ ~LinkedTo(plan, o) /\ \E i \in range : in(old, i)
            /\ ~\E i \in range : in(plan, i)
  BY <1>4, <1>5, <1>10
<1>11. CASE /\ LinkedTo(plan, o) \/ ~\E i \in range : in(old, i)
            /\ ~\E i \in range : in(plan, i)
  <2>1. new[o] = pts[o]
    BY <1>4, <1>11
  <2>2. LinkedTo(plan, o) => LinkedTo(old, o)
    BY <1>7, <1>8, <1>11
  <2>3. LinkedTo(old, o) => LinkedTo(plan, o)
    BY <1>7, <1>8, <1>11
  <2>4. QED
    BY <1>6, <2>1, <2>2, <2>3
<1>12. QED
  BY <1>9, <1>10, <1>11

\* The error leaves no object with the button of a command that is gone, but
\* for those whose command has moved.
LEMMA ErrorIsTold ==
  ASSUME NEW drawn, NEW pts, PointsAreDrawn(pts, drawn),
         NEW old, NEW plan, NEW range, NEW bad, NEW cut,
         Told(pts, plan, cut), NoneMoved(old, plan) \/ cut
  PROVE  Told(ErrorButtons(old, plan, range, bad, pts), <<>>, cut)
<1> DEFINE new == ErrorButtons(old, plan, range, bad, pts)
<1>1. SUFFICES ASSUME NEW o \in Objects, new[o].shown,
                      new[o].button = "remove", ~cut
               PROVE  FALSE
  BY DEF Told, LinkedTo
<1>2. PointsAreDrawn(new, drawn)
  BY ErrorKeepsPoints
<1>3. pts[o].shown /\ pts[o] \in Point
  BY <1>1, <1>2 DEF PointsAreDrawn
<1>4. [pts[o] EXCEPT !.button = "add"].button = "add"
  BY <1>3 DEF Point
<1>5. NoneMoved(old, plan)
  BY <1>1
<1>6. /\ new[o] = pts[o]
      /\ \A i \in DOMAIN plan :
           plan[i].object = o /\ plan[i].link = "last" =>
             i \in range /\ i >= bad /\ i \in DOMAIN old /\ old[i] = Own
  BY <1>1, <1>4 DEF ErrorButtons
<1>7. LinkedTo(plan, o)
  BY <1>1, <1>3, <1>6 DEF Told
<1>8. QED
  BY <1>5, <1>6, <1>7 DEF LinkedTo, NoneMoved

LEMMA DrawTells ==
  ASSUME NEW drawn, NEW pts, PointsAreDrawn(pts, drawn),
         NEW old, NEW plan, NEW range, NEW restore,
         Draw(old, plan, range, pts, restore), SameBeyond(old, plan, range),
         NEW cut, NEW cut2 \in BOOLEAN, Told(pts, old, cut), cut => cut2,
         NoneMoved(old, plan) \/ (invalidCommands' => cut2)
  PROVE  Told(points', commands', cut2)
<1> DEFINE lost == Lost(plan, range, pts)
           found == {i \in lost : CanLink(plan[i], pts)}
           new == [i \in DOMAIN plan |->
                     IF i \in found THEN [plan[i] EXCEPT !.link = "last"]
                     ELSE IF i \in lost THEN Own ELSE plan[i]]
           bad == {i \in lost : IF i \in found
                                 THEN ~pts[plan[i].object].shown
                                 ELSE ~restore}
<1>1. \/ /\ commands' = new /\ points' = Buttons(old, new, range, pts)
      \/ /\ commands' = <<>> /\ invalidCommands' = TRUE
         /\ points' = ErrorButtons(old, plan, range, Min(bad),
                                   Buttons(old, plan, range, pts))
  BY DEF Draw
<1>2. Told(pts, old, cut2)
  BY DEF Told
<1>3. CASE commands' = new /\ points' = Buttons(old, new, range, pts)
  <2>1. lost \subseteq range
    BY DEF Lost
  <2>2. SameBeyond(old, new, range)
    BY <2>1 DEF SameBeyond
  <2> HIDE DEF new
  <2>3. Told(Buttons(old, new, range, pts), new, cut2)
    BY <1>2, <2>2, ButtonsAreTold
  <2>4. QED
    BY <1>3, <2>3
<1>4. CASE /\ commands' = <<>> /\ invalidCommands' = TRUE
           /\ points' = ErrorButtons(old, plan, range, Min(bad),
                                     Buttons(old, plan, range, pts))
  <2> DEFINE pts2 == Buttons(old, plan, range, pts)
             first == Min(bad)
  <2>1. Told(pts2, plan, cut2) /\ PointsAreDrawn(pts2, drawn)
    BY <1>2, ButtonsAreTold, ButtonsKeepPoints
  <2>2. NoneMoved(old, plan) \/ cut2
    BY <1>4
  <2>3. points' = ErrorButtons(old, plan, range, first, pts2)
    BY <1>4
  <2> HIDE DEF pts2, first
  <2>4. Told(ErrorButtons(old, plan, range, first, pts2), <<>>, cut2)
    BY <2>1, <2>2, ErrorIsTold
  <2>5. QED
    BY <1>4, <2>3, <2>4
<1>5. QED
  BY <1>1, <1>3, <1>4

\* Commands, as a plan on the screen holds them.
Linkable ==
  [object : Objects \cup {None}, location : Locations \cup {Nowhere},
   link : {"none", "last", "earlier"}]

Plans == {plan \in Seq(Linkable) : Len(plan) <= MaxLength}

TellInv ==
  /\ LinksInv
  /\ commands \in Plans /\ cutShort \in BOOLEAN
  /\ Told(points, commands, cutShort)

LEMMA OwnIsLinkable == Own \in Linkable /\ Own.link = "none"
  BY DEF Own, Command, Linkable

LEMMA DrawKeepsPlans ==
  ASSUME LinksAssumption, NEW old, NEW plan \in Plans, NEW range, NEW pts,
         NEW restore, Draw(old, plan, range, pts, restore)
  PROVE  commands' \in Plans
<1> DEFINE lost == Lost(plan, range, pts)
           found == {i \in lost : CanLink(plan[i], pts)}
           new == [i \in DOMAIN plan |->
                     IF i \in found THEN [plan[i] EXCEPT !.link = "last"]
                     ELSE IF i \in lost THEN Own ELSE plan[i]]
<1>1. commands' = new \/ commands' = <<>>
  BY DEF Draw
<1>2. <<>> \in Plans
  BY DEF Plans, LinksAssumption
<1>3. ASSUME NEW i \in DOMAIN plan PROVE new[i] \in Linkable
  <2>1. plan[i] \in Linkable
    BY <1>3 DEF Plans
  <2>2. [plan[i] EXCEPT !.link = "last"] \in Linkable
    BY <2>1 DEF Linkable
  <2> HIDE DEF found, lost
  <2>3. QED
    BY <1>3, <2>1, <2>2, OwnIsLinkable
<1>4. DOMAIN plan = 1 .. Len(plan) /\ Len(plan) \in Nat /\ Len(plan) <= MaxLength
  BY DEF Plans
<1>5. new = [i \in 1 .. Len(plan) |-> new[i]]
  BY <1>4
<1> HIDE DEF new
<1>6. new \in Seq(Linkable) /\ Len(new) = Len(plan)
  BY <1>3, <1>4, <1>5
<1>7. QED
  BY <1>1, <1>2, <1>4, <1>6 DEF Plans

\* A step that draws a plan, and leaves the mission as it is.
LEMMA DrawKeepsTelling ==
  ASSUME LinksAssumption, TellInv, NEW plan \in Plans, NEW range, NEW restore,
         Draw(commands, plan, range, points, restore), UNCHANGED mission,
         SameBeyond(commands, plan, range), cutShort' \in BOOLEAN,
         cutShort => cutShort',
         NoneMoved(commands, plan) \/ (invalidCommands' => cutShort')
  PROVE  TellInv'
<1>1. LinksInv'
  BY DrawKeepsPoints DEF TellInv, LinksInv
<1>2. commands' \in Plans
  BY DrawKeepsPlans
<1>3. Told(points', commands', cutShort')
  <2> DEFINE cut2 == cutShort'
  <2>1. cut2 \in BOOLEAN /\ (cutShort => cut2)
    OBVIOUS
  <2>2. NoneMoved(commands, plan) \/ (invalidCommands' => cut2)
    OBVIOUS
  <2>3. PointsAreDrawn(points, mission) /\ Told(points, commands, cutShort)
    BY DEF TellInv, LinksInv
  <2> HIDE DEF cut2
  <2>4. Told(points', commands', cut2)
    BY <2>1, <2>2, <2>3, DrawTells
  <2>5. QED
    BY <2>4 DEF cut2
<1>4. QED
  BY <1>1, <1>2, <1>3 DEF TellInv

LEMMA ChangesKeepTelling ==
  ASSUME LinksAssumption, TellInv, NEW plan \in Plans, NEW range,
         Changes(plan, range), SameBeyond(commands, plan, range),
         NoneMoved(commands, plan) \/ Len(plan) < Len(commands)
  PROVE  TellInv'
<1>1. cutShort \in BOOLEAN /\ invalidCommands' \in BOOLEAN
  BY DEF TellInv, Changes, Draw
<1>2. QED
  BY <1>1, DrawKeepsTelling DEF Changes

LEMMA RemovalIsSame ==
  ASSUME LinksAssumption, NEW plan \in Plans, NEW i \in DOMAIN plan
  PROVE  /\ RemoveAt(plan, i) \in Plans
         /\ Len(RemoveAt(plan, i)) < Len(plan)
         /\ SameBeyond(plan, RemoveAt(plan, i), i .. Len(plan))
<1> DEFINE n == Len(plan)
           a == SubSeq(plan, 1, i - 1)
           b == SubSeq(plan, i + 1, n)
<1>1. plan \in Seq(Linkable) /\ n \in Nat /\ i \in 1 .. n /\ n <= MaxLength
  BY DEF Plans
<1>2. /\ a \in Seq(Linkable) /\ Len(a) = i - 1
      /\ \A j \in 1 .. i - 1 : a[j] = plan[j]
  BY <1>1
<1>3. b \in Seq(Linkable) /\ Len(b) = n - i
  BY <1>1
<1>4. RemoveAt(plan, i) = a \o b
  BY DEF RemoveAt
<1> DEFINE r == RemoveAt(plan, i)
<1>5. /\ a \o b \in Seq(Linkable) /\ Len(a \o b) = n - 1
      /\ \A j \in 1 .. i - 1 : (a \o b)[j] = a[j]
  <2> HIDE DEF a, b
  <2>1. QED
    BY <1>1, <1>2, <1>3
<1>6. /\ r \in Seq(Linkable) /\ Len(r) = n - 1
      /\ \A j \in 1 .. i - 1 : r[j] = plan[j]
  BY <1>2, <1>4, <1>5
<1>7. DOMAIN r = 1 .. n - 1 /\ DOMAIN plan = 1 .. n
  BY <1>1, <1>6
<1> HIDE DEF n, r
<1>8. \A j : j \notin i .. n =>
        /\ j \in DOMAIN plan <=> j \in DOMAIN r
        /\ j \in DOMAIN plan => r[j] = plan[j]
  BY <1>1, <1>6, <1>7
<1>9. r \in Plans /\ Len(r) < n
  BY <1>1, <1>6 DEF Plans, LinksAssumption
<1>10. QED
  BY <1>8, <1>9 DEF SameBeyond, r, n

LEMMA NothingMoves ==
  ASSUME NEW plan \in Plans
  PROVE  NoneMoved(plan, plan) /\ NoneMoved(plan, <<>>)
  BY OwnIsLinkable DEF NoneMoved

LEMMA DeleteKeepsTelling ==
  ASSUME LinksAssumption, TellInv, NEW i \in DOMAIN commands, Delete(i)
  PROVE  TellInv'
<1>1. commands \in Plans
  BY DEF TellInv
<1> DEFINE r == RemoveAt(commands, i)
           n == i .. Len(commands)
<1>2. r \in Plans /\ Len(r) < Len(commands) /\ SameBeyond(commands, r, n)
  BY <1>1, RemovalIsSame
<1>3. Changes(r, n)
  BY DEF Delete
<1> HIDE DEF r, n
<1>4. QED
  BY <1>2, <1>3, ChangesKeepTelling

LEMMA AppendKeepsTelling ==
  ASSUME LinksAssumption, TellInv, NEW c \in Linkable,
         Len(commands) + 1 <= MaxLength,
         Changes(Append(commands, c), {Len(commands) + 1})
  PROVE  TellInv'
<1> DEFINE n == Len(commands)
           plan == Append(commands, c)
<1>1. commands \in Seq(Linkable) /\ n \in Nat
  BY DEF TellInv, Plans
<1>2. /\ plan \in Seq(Linkable) /\ Len(plan) = n + 1
      /\ \A i \in 1 .. n : plan[i] = commands[i]
  BY <1>1
<1>3. DOMAIN plan = 1 .. n + 1 /\ DOMAIN commands = 1 .. n
  BY <1>1, <1>2
<1>4. Changes(plan, {n + 1}) /\ n + 1 <= MaxLength
  OBVIOUS
<1> HIDE DEF n, plan
<1>5. plan \in Plans
  BY <1>2, <1>4 DEF Plans
<1>6. SameBeyond(commands, plan, {n + 1})
  BY <1>1, <1>2, <1>3 DEF SameBeyond
<1>7. NoneMoved(commands, plan)
  BY <1>2, <1>3, OwnIsLinkable DEF NoneMoved
<1>8. QED
  BY <1>4, <1>5, <1>6, <1>7, ChangesKeepTelling

\* A plan that replaces the whole of another one, without links.
LEMMA SentKeepsTelling ==
  ASSUME LinksAssumption, TellInv, NEW plan \in Plans, NEW restore,
         \A i \in DOMAIN plan : plan[i].link = "none",
         Draw(commands, plan, 1 .. MaxLength, points, restore),
         UNCHANGED <<mission, cutShort>>
  PROVE  TellInv'
<1>1. NoneMoved(commands, plan)
  BY DEF NoneMoved
<1>2. commands \in Plans
  BY DEF TellInv
<1>3. DOMAIN commands \subseteq 1 .. MaxLength /\ DOMAIN plan \subseteq 1 .. MaxLength
  BY <1>2 DEF Plans, LinksAssumption
<1>4. SameBeyond(commands, plan, 1 .. MaxLength)
  BY <1>3 DEF SameBeyond
<1>5. cutShort' \in BOOLEAN /\ (cutShort => cutShort') /\ mission' = mission
  BY DEF TellInv
<1>6. QED
  BY <1>1, <1>4, <1>5, DrawKeepsTelling

LEMMA SentIsLinkable ==
  ASSUME LinksAssumption, NEW plan \in SentPlans
  PROVE  plan \in Plans /\ \A i \in DOMAIN plan : plan[i].link = "none"
<1>1. plan \in Seq(Sent) /\ Len(plan) <= 2
  BY SentPlansAre
<1>2. ASSUME NEW c \in Sent PROVE c \in Linkable /\ c.link = "none"
  BY <1>2, OwnIsLinkable DEF Sent, Command, Linkable
<1>3. plan \in Seq(Linkable)
  BY <1>1, <1>2
<1>4. Len(plan) <= MaxLength
  BY <1>1 DEF LinksAssumption
<1>5. QED
  BY <1>1, <1>2, <1>3, <1>4 DEF Plans

LEMMA MissionKeepsTelling ==
  ASSUME LinksAssumption, TellInv, LinksInv', NEW new \in Missions,
         DrawMissionDetails(new)
  PROVE  TellInv'
<1> DEFINE pts == DrawnAnew(new)
           gone == {o \in Objects : new[o] = Nowhere}
           again(c) == c.link = "last" /\ c.object \notin gone \ Waypoints
           plan == [i \in DOMAIN commands |->
                      IF again(commands[i])
                      THEN [commands[i] EXCEPT !.link = "earlier"]
                      ELSE commands[i]]
<1>1. /\ commands \in Seq(Linkable) /\ Len(commands) \in Nat
      /\ Len(commands) <= MaxLength /\ DOMAIN commands = 1 .. Len(commands)
  BY DEF TellInv, Plans
<1>2. ASSUME NEW i \in DOMAIN commands
      PROVE  /\ plan[i] \in Linkable
             /\ plan[i].link = "last" =>
                  /\ commands[i].link = "last" /\ plan[i] = commands[i]
                  /\ plan[i].object \in gone \ Waypoints
  <2>1. commands[i] \in Linkable
    BY <1>1, <1>2
  <2>2. [commands[i] EXCEPT !.link = "earlier"] \in Linkable
    BY <2>1 DEF Linkable
  <2>3. [commands[i] EXCEPT !.link = "earlier"].link = "earlier"
    BY <2>1 DEF Linkable
  <2> HIDE DEF gone
  <2>4. QED
    BY <1>2, <2>1, <2>2, <2>3
<1>3. plan = [i \in 1 .. Len(commands) |-> plan[i]]
  BY <1>1
<1>4. DOMAIN plan = DOMAIN commands
  OBVIOUS
<1>5. plan \in Plans
  <2> HIDE DEF plan
  <2>1. plan \in Seq(Linkable) /\ Len(plan) = Len(commands)
    BY <1>1, <1>2, <1>3
  <2>2. QED
    BY <1>1, <2>1 DEF Plans
<1>6. ASSUME NEW o \in Objects, pts[o].shown
      PROVE  /\ o \notin gone \ Waypoints /\ pts[o].button = "add"
  <2>1. points[o] \in Point
    BY DEF TellInv, LinksInv, PointsAreDrawn
  <2>2. new[o] # Nowhere
    BY <1>6, <2>1 DEF DrawnAnew, NotDrawn, Point
  <2>3. pts[o] = Drawn(new[o])
    BY <2>2 DEF DrawnAnew
  <2>4. QED
    BY <2>2, <2>3 DEF Drawn
<1>7. PointsAreDrawn(pts, new)
  BY DrawnAnewIsDrawn DEF TellInv, LinksInv
<1>8. Told(pts, plan, FALSE)
  <2> HIDE DEF plan, pts, gone
  <2>1. \A o \in Objects : pts[o].shown => ~LinkedTo(plan, o)
    BY <1>2, <1>4, <1>6 DEF LinkedTo
  <2>2. QED
    BY <1>6, <2>1 DEF Told
<1>9. /\ mission' = new /\ cutShort' = FALSE
      /\ \/ points' = pts /\ commands' = plan
         \/ \E i : Draw(plan, plan, {i}, pts, FALSE)
  BY DEF DrawMissionDetails
<1> HIDE DEF pts, plan
<1>10. CASE points' = pts /\ commands' = plan
  BY <1>5, <1>8, <1>9, <1>10 DEF TellInv
<1>11. ASSUME NEW i, Draw(plan, plan, {i}, pts, FALSE)
       PROVE  TellInv'
  <2>1. commands' \in Plans
    BY <1>5, <1>11, DrawKeepsPlans
  <2>2. SameBeyond(plan, plan, {i}) /\ NoneMoved(plan, plan)
    BY <1>5, NothingMoves DEF SameBeyond
  <2>3. Told(points', commands', FALSE)
    BY <1>7, <1>8, <1>11, <2>2, DrawTells
  <2>4. QED
    BY <1>9, <2>1, <2>3 DEF TellInv
<1>12. QED
  BY <1>9, <1>10, <1>11

LEMMA TellInvHolds ==
  ASSUME LinksAssumption
  PROVE  LinksSpec => []TellInv
<1>1. LinksInit => TellInv
  <2> SUFFICES ASSUME LinksInit PROVE TellInv
    OBVIOUS
  <2>1. LinksInv
    BY LinksInitInv
  <2>2. commands \in Plans /\ cutShort \in BOOLEAN
    <3>1. <<>> \in Plans
      BY DEF Plans, LinksAssumption
    <3>2. QED
      BY <3>1 DEF LinksInit
  <2>3. Told(points, commands, cutShort)
    BY DEF LinksInit, NotDrawn, Told
  <2>4. QED
    BY <2>1, <2>2, <2>3 DEF TellInv
<1>2. TellInv /\ LinksInv' /\ [LinksNext]_linkVars => TellInv'
  <2> SUFFICES ASSUME TellInv, LinksInv', [LinksNext]_linkVars
               PROVE  TellInv'
    OBVIOUS
  <2>1. commands \in Plans /\ commands \in Seq(Linkable)
    BY DEF TellInv, Plans
  <2>2. ASSUME NEW o \in Objects, AddPointToPlan(o)
        PROVE  TellInv'
    <3> DEFINE c == Command(o, points[o].location, "last")
    <3>1. points[o].location \in Locations \cup {Nowhere}
      BY DEF TellInv, LinksInv, PointsAreDrawn, Point
    <3>2. c \in Linkable
      BY <3>1 DEF Command, Linkable
    <3>3. /\ Len(commands) + 1 <= MaxLength
          /\ Changes(Append(commands, c), {Len(commands) + 1})
      BY <2>2 DEF AddPointToPlan
    <3> HIDE DEF c
    <3>4. QED
      BY <3>2, <3>3, AppendKeepsTelling
  <2>3. CASE AddOtherCommand
    BY <2>3, OwnIsLinkable, AppendKeepsTelling DEF AddOtherCommand
  <2>4. ASSUME NEW i, i \in DOMAIN commands, Delete(i)
        PROVE  TellInv'
    BY <2>4, DeleteKeepsTelling
  <2>5. ASSUME NEW i, ChangedCommandField(i)
        PROVE  TellInv'
    <3>1. Changes(commands, {i})
      BY <2>5 DEF ChangedCommandField
    <3>2. SameBeyond(commands, commands, {i}) /\ NoneMoved(commands, commands)
      BY <2>1, NothingMoves DEF SameBeyond
    <3>3. QED
      BY <2>1, <3>1, <3>2, ChangesKeepTelling
  <2>6. CASE ClearCommands
    <3>1. <<>> \in Plans
      BY DEF Plans, LinksAssumption
    <3>2. \A i \in DOMAIN <<>> : <<>>[i].link = "none"
      OBVIOUS
    <3>3. QED
      BY <2>6, <3>1, <3>2, SentKeepsTelling DEF ClearCommands
  <2>7. ASSUME NEW plan \in SentPlans, NEW restore,
               CommandsChanged(plan, restore)
        PROVE  TellInv'
    BY <2>7, SentIsLinkable, SentKeepsTelling DEF CommandsChanged
  <2>8. ASSUME NEW new \in Missions, DrawMissionDetails(new)
        PROVE  TellInv'
    BY <2>8, MissionKeepsTelling
  <2>9. CASE UNCHANGED linkVars
    BY <2>9 DEF linkVars, TellInv, LinksInv
  <2>10. QED
    BY <2>2, <2>3, <2>4, <2>5, <2>6, <2>7, <2>8, <2>9
    DEF LinksNext, RemovePointFromPlan, RemoveCommand, RestoreCommands
<1>3. QED
  BY <1>1, <1>2, LinksInvHolds, PTL DEF LinksSpec

\* An object's window offers to remove it when it is in the plan and, unless
\* removing a command brought on an error, only then.
THEOREM WindowsTellThePlan ==
  ASSUME LinksAssumption
  PROVE  LinksSpec => []ButtonsTellThePlan
<1>1. TellInv => ButtonsTellThePlan
  BY DEF TellInv, Told, ButtonsTellThePlan
<1>2. QED
  BY <1>1, TellInvHolds, PTL

\* The variables have their types, the plan keeps to its bound and the objects
\* on the map are those of the mission.
THEOREM LinksTypeCorrect ==
  ASSUME LinksAssumption
  PROVE  LinksSpec => []LinksTypeOK
<1> DEFINE Valid == invalidCommands \in BOOLEAN
<1>1. LinksInit => Valid
  BY DEF LinksInit
<1>2. Valid /\ [LinksNext]_linkVars => Valid'
  <2> SUFFICES ASSUME Valid, [LinksNext]_linkVars PROVE Valid'
    OBVIOUS
  <2>1. ASSUME NEW old, NEW plan, NEW range, NEW pts, NEW restore,
               Draw(old, plan, range, pts, restore)
        PROVE  Valid'
    BY <2>1 DEF Draw
  <2>2. ASSUME NEW plan, NEW range, Changes(plan, range)
        PROVE  Valid'
    BY <2>1, <2>2 DEF Changes
  <2>3. ASSUME NEW i, Delete(i) PROVE Valid'
    BY <2>2, <2>3 DEF Delete
  <2>4. ASSUME NEW o, AddPointToPlan(o) \/ RemovePointFromPlan(o)
        PROVE  Valid'
    BY <2>2, <2>3, <2>4 DEF AddPointToPlan, RemovePointFromPlan
  <2>5. ASSUME NEW i, RemoveCommand(i) \/ ChangedCommandField(i)
        PROVE  Valid'
    BY <2>2, <2>3, <2>5 DEF RemoveCommand, ChangedCommandField
  <2>6. CASE AddOtherCommand \/ ClearCommands
    BY <2>1, <2>2, <2>6 DEF AddOtherCommand, ClearCommands
  <2>7. ASSUME NEW plan, CommandsChanged(plan, FALSE) \/ RestoreCommands(plan)
        PROVE  Valid'
    BY <2>1, <2>7 DEF CommandsChanged, RestoreCommands
  <2>8. ASSUME NEW new, DrawMissionDetails(new) PROVE Valid'
    BY <2>1, <2>8 DEF DrawMissionDetails
  <2>9. CASE UNCHANGED linkVars
    BY <2>9 DEF linkVars
  <2> HIDE DEF Valid
  <2>10. QED
    BY <2>4, <2>5, <2>6, <2>7, <2>8, <2>9 DEF LinksNext
<1>3. TellInv /\ Valid => LinksTypeOK
  BY DEF TellInv, LinksInv, PointsAreDrawn, Plans, LinksTypeOK
<1>4. QED
  BY <1>1, <1>2, <1>3, TellInvHolds, PTL DEF LinksSpec

-----------------------------------------------------------------------------
(* The drone on the map.                                                   *)

EndsAt(drawn, p) ==
  drawn # <<>> => Distance(Last(drawn), p) <= Step \/ Distance(Last(drawn), p) > Jump

OnMapInv ==
  /\ path \in Seq(Places) /\ Len(path) <= MaxPath
  /\ marker \in Places /\ center \in Places /\ followDrone \in BOOLEAN
  /\ telemetry = NoPlace \/ \E p \in Places : telemetry = <<p>>
  /\ EndsAt(path, marker)
  /\ FollowedIsInView

LEMMA Distances ==
  ASSUME NEW p \in Int, NEW q \in Int
  PROVE  /\ Distance(p, q) \in Nat /\ Distance(p, p) = 0
         /\ Distance(p, q) = Distance(q, p)
  BY DEF Distance

\* The end of a path that goes on to a place, and of one that loses its first.
LEMMA LastOfLonger ==
  ASSUME NEW old \in Seq(Places), NEW p \in Places
  PROVE  /\ Append(old, p) \in Seq(Places) /\ Append(old, p) # <<>>
         /\ Len(Append(old, p)) = Len(old) + 1
         /\ Last(Append(old, p)) = p
  BY DEF Last

LEMMA LastOfTail ==
  ASSUME NEW s \in Seq(Places), Len(s) > 1
  PROVE  /\ Tail(s) \in Seq(Places) /\ Len(Tail(s)) = Len(s) - 1
         /\ Last(Tail(s)) = Last(s)
  BY DEF Last

LEMMA LastIsOfIt ==
  ASSUME NEW s \in Seq(Places), s # <<>>
  PROVE  Last(s) \in Places /\ Len(s) \in Nat \ {0}
  BY DEF Last

\* The path that a position leaves ends at it, up to the step, or far away.
LEMMA NextPathEnds ==
  ASSUME DroneOnMapAssumption, NEW old \in Seq(Places), Len(old) <= MaxPath,
         NEW p \in Places
  PROVE  /\ NextPath(old, p) \in Seq(Places)
         /\ Len(NextPath(old, p)) <= MaxPath
         /\ EndsAt(NextPath(old, p), p)
<1> DEFINE distance == IF old = <<>> THEN 0 ELSE Distance(p, Last(old))
           longer == IF distance > Step /\ distance <= Jump
                     THEN Append(old, p) ELSE old
           new == IF Len(longer) > MaxPath THEN Tail(longer)
                  ELSE IF longer = <<>> THEN <<p>> ELSE longer
<1>1. /\ NextPath(old, p) = new
      /\ Places \subseteq Int /\ Step \in Nat /\ Jump \in Nat
      /\ MaxPath \in Nat \ {0} /\ p \in Int /\ Distance(p, p) = 0
  BY Distances DEF NextPath, DroneOnMapAssumption
<1>2. CASE /\ distance > Step /\ distance <= Jump
  <2>1. /\ longer \in Seq(Places) /\ Len(longer) = Len(old) + 1
        /\ longer # <<>> /\ Last(longer) = p
    BY <1>2, LastOfLonger
  <2>2. CASE Len(longer) > MaxPath
    <3>1. Len(longer) > 1
      BY <1>1, <2>1, <2>2
    <3>2. new = Tail(longer)
      BY <2>2
    <3> HIDE DEF longer, new
    <3>3. /\ new \in Seq(Places) /\ Len(new) = Len(longer) - 1
          /\ Last(new) = p
      BY <2>1, <3>1, <3>2, LastOfTail
    <3>4. new \in Seq(Places) /\ Len(new) <= MaxPath /\ EndsAt(new, p)
      BY <1>1, <2>1, <3>3 DEF EndsAt
    <3>5. QED
      BY <1>1, <3>4
  <2>3. CASE ~(Len(longer) > MaxPath)
    <3>1. new = longer
      BY <2>1, <2>3
    <3>2. new \in Seq(Places) /\ Len(new) <= MaxPath /\ EndsAt(new, p)
      <4> HIDE DEF longer, new
      <4>1. QED
        BY <1>1, <2>1, <2>3, <3>1 DEF EndsAt
    <3>3. QED
      BY <1>1, <3>2
  <2>4. QED
    BY <2>2, <2>3
<1>3. CASE ~(distance > Step /\ distance <= Jump)
  <2>1. longer = old /\ new = IF old = <<>> THEN <<p>> ELSE old
    BY <1>1, <1>3
  <2>2. CASE old = <<>>
    <3>1. <<p>> \in Seq(Places) /\ Len(<<p>>) = 1 /\ Last(<<p>>) = p
      BY DEF Last
    <3>2. QED
      BY <1>1, <2>1, <2>2, <3>1 DEF EndsAt
  <2>3. CASE old # <<>>
    <3>1. /\ Last(old) \in Int /\ distance = Distance(p, Last(old))
          /\ Distance(p, Last(old)) = Distance(Last(old), p)
          /\ distance \in Nat
      BY <1>1, <2>3, LastIsOfIt, Distances
    <3> HIDE DEF distance
    <3>2. distance <= Step \/ distance > Jump
      BY <1>1, <1>3, <3>1
    <3>3. EndsAt(old, p)
      BY <3>1, <3>2 DEF EndsAt
    <3>4. QED
      BY <1>1, <2>1, <2>3, <3>3
  <2>4. QED
    BY <2>2, <2>3
<1>4. QED
  BY <1>2, <1>3

LEMMA UpdateKeeps ==
  ASSUME DroneOnMapAssumption, NEW old \in Seq(Places), Len(old) <= MaxPath,
         NEW c \in Places, NEW p \in Places, Update(old, c, p),
         followDrone \in BOOLEAN, UNCHANGED followDrone
  PROVE  /\ path' \in Seq(Places) /\ Len(path') <= MaxPath
         /\ marker' \in Places /\ center' \in Places
         /\ EndsAt(path', marker') /\ FollowedIsInView'
<1>1. p \in Int /\ c \in Int /\ Margin \in Nat
  BY DEF DroneOnMapAssumption
<1>2. Distance(p, c) \in Nat /\ Distance(p, p) = 0
  BY <1>1, Distances
<1>3. FollowedIsInView'
  BY <1>1, <1>2 DEF Update, FollowedIsInView
<1>4. QED
  BY <1>3, NextPathEnds DEF Update

LEMMA OnMapInvHolds ==
  ASSUME DroneOnMapAssumption
  PROVE  MapSpec => []OnMapInv
<1>1. MapInit => OnMapInv
  <2>1. Field \in Places /\ Field \in Int /\ MaxPath \in Nat /\ Margin \in Nat
    BY DEF DroneOnMapAssumption
  <2>2. Distance(Field, Field) <= Margin
    BY <2>1, Distances
  <2>3. QED
    BY <2>1, <2>2 DEF MapInit, OnMapInv, EndsAt, FollowedIsInView
<1>2. OnMapInv /\ [MapNext]_mapVars => OnMapInv'
  <2> SUFFICES ASSUME OnMapInv, [MapNext]_mapVars PROVE OnMapInv'
    OBVIOUS
  <2>1. ASSUME NEW p \in Places, Telemetry(p)
        PROVE  OnMapInv'
    BY <2>1, UpdateKeeps DEF Telemetry, OnMapInv
  <2>2. ASSUME NEW p \in Places, Drag(p) \/ FocusOnCommand(p)
        PROVE  OnMapInv'
    BY <2>2 DEF Drag, FocusOnCommand, OnMapInv, FollowedIsInView
  <2>3. CASE DroneDisconnected
    BY <2>3 DEF DroneDisconnected, OnMapInv, FollowedIsInView
  <2>4. CASE FollowDrone
    <3>1. marker \in Int /\ Margin \in Nat
      BY DEF OnMapInv, DroneOnMapAssumption
    <3>2. Distance(marker, marker) <= Margin
      BY <3>1, Distances
    <3>3. QED
      BY <2>4, <3>2 DEF FollowDrone, OnMapInv, FollowedIsInView
  <2>5. CASE Mount
    <3>1. CASE telemetry = NoPlace
      <4>1. /\ Field \in Places /\ Distance(Field, Field) <= Margin
            /\ <<>> \in Seq(Places) /\ Len(<<>>) <= MaxPath
        BY Distances DEF DroneOnMapAssumption
      <4>2. QED
        BY <2>5, <3>1, <4>1 DEF Mount, OnMapInv, EndsAt, FollowedIsInView
    <3>2. CASE telemetry # NoPlace
      <4>1. PICK p \in Places : telemetry = <<p>>
        BY <3>2 DEF OnMapInv
      <4>2. telemetry[1] = p
        BY <4>1
      <4>3. /\ Update(<<>>, Field, p) /\ UNCHANGED <<followDrone, telemetry>>
        BY <2>5, <3>2, <4>2 DEF Mount
      <4>4. /\ Field \in Places /\ <<>> \in Seq(Places) /\ Len(<<>>) <= MaxPath
        BY DEF DroneOnMapAssumption
      <4>5. QED
        BY <4>3, <4>4, UpdateKeeps DEF OnMapInv
    <3>3. QED
      BY <3>1, <3>2
  <2>6. CASE UNCHANGED mapVars
    BY <2>6 DEF mapVars, OnMapInv, FollowedIsInView
  <2>7. QED
    BY <2>1, <2>2, <2>3, <2>4, <2>5, <2>6 DEF MapNext
<1>3. QED
  BY <1>1, <1>2, PTL DEF MapSpec

\* The drone's path ends at the drone, up to the step, unless it has jumped;
\* and a map that follows the drone has it in view.
THEOREM MapShowsTheDrone ==
  ASSUME DroneOnMapAssumption
  PROVE  MapSpec => [](PathEndsAtTheDrone /\ FollowedIsInView)
<1>1. OnMapInv => PathEndsAtTheDrone /\ FollowedIsInView
  BY DEF OnMapInv, EndsAt, PathEndsAtTheDrone
<1>2. QED
  BY <1>1, OnMapInvHolds, PTL

\* The variables have their types and the drone's path keeps to its bound.
THEOREM DroneOnMapTypeCorrect ==
  ASSUME DroneOnMapAssumption
  PROVE  MapSpec => []DroneOnMapTypeOK
<1>1. \A p \in Places : <<p>> \in [1 .. 1 -> Places]
  OBVIOUS
<1>2. OnMapInv => DroneOnMapTypeOK
  BY <1>1 DEF OnMapInv, DroneOnMapTypeOK
<1>3. QED
  BY <1>2, OnMapInvHolds, PTL

-----------------------------------------------------------------------------
(* What others send and the map draws.                                     *)

DrawingsInv ==
  /\ obstacles \in Seq(Obstacles)
  /\ circles \in Seq([made : Obstacles, place : Spots])
  /\ CirclesAreTheObstacles
  /\ droneCommands \in Seq(Seq(Seq(Spots)))
  /\ paths = [points |-> FlattenSeq(FlattenSeq(droneCommands)),
              current |-> Current(droneCommands, current)]

LEMMA FunctionsAreSequences ==
  ASSUME NEW S, NEW n \in Nat
  PROVE  [1 .. n -> S] \subseteq Seq(S)
  BY SeqDef

LEMMA ListsAreSequences ==
  ASSUME NEW S, NEW n \in Nat
  PROVE  Lists(S, n) \subseteq Seq(S)
  BY SeqDef DEF Lists

LEMMA CommandsAreSequences == DrawingsAssumption => Commands \subseteq Seq(Seq(Spots))
<1> SUFFICES ASSUME DrawingsAssumption, NEW c \in Commands
             PROVE  c \in Seq(Seq(Spots))
  OBVIOUS
<1>1. CASE c = <<>>
  BY <1>1
<1>2. ASSUME NEW way \in Lists(Spots, MaxPoints), c = <<way>>
      PROVE  c \in Seq(Seq(Spots))
  <2>1. way \in Seq(Spots)
    BY ListsAreSequences DEF DrawingsAssumption
  <2>2. QED
    BY <1>2, <2>1
<1>3. QED
  BY <1>1, <1>2 DEF Commands

LEMMA DrawingsStart == DrawingsInit => DrawingsInv
<1> SUFFICES ASSUME DrawingsInit PROVE DrawingsInv
  OBVIOUS
<1>1. FlattenSeq(FlattenSeq(droneCommands)) = <<>>
  BY FlattenOfNone DEF DrawingsInit
<1>2. Current(droneCommands, current) = <<>>
  BY DEF DrawingsInit, Current
<1>3. QED
  BY <1>1, <1>2 DEF DrawingsInit, DrawingsInv, CirclesAreTheObstacles

LEMMA ObstaclesKeepInv ==
  ASSUME NEW list \in Seq(Obstacles), RefreshMovingObstacles(list), DrawingsInv
  PROVE  DrawingsInv'
<1>1. Len(list) \in Nat /\ DOMAIN list = 1 .. Len(list)
      /\ \A i \in 1 .. Len(list) : list[i] \in Obstacles
  BY LenProperties, ElementOfSeq
<1>2. CASE CanUpdate(list)
  <2>1. circles' = [i \in 1 .. Len(list) |->
                     [circles[i] EXCEPT !.place = list[i].place]]
    BY <1>1, <1>2 DEF RefreshMovingObstacles
  <2>2. Len(list) = Len(circles)
        /\ \A i \in 1 .. Len(list) : list[i].radius = circles[i].made.radius
    BY <1>1, <1>2 DEF CanUpdate
  <2>3. \A i \in 1 .. Len(list) :
          circles[i] \in [made : Obstacles, place : Spots]
    BY <2>2, ElementOfSeq DEF DrawingsInv
  <2>4. \A i \in 1 .. Len(list) :
          /\ circles'[i] \in [made : Obstacles, place : Spots]
          /\ circles'[i].place = list[i].place
          /\ circles'[i].made.radius = list[i].radius
    BY <1>1, <2>1, <2>2, <2>3 DEF Obstacles
  <2>5. circles' \in Seq([made : Obstacles, place : Spots])
        /\ DOMAIN circles' = 1 .. Len(list)
    <3>1. circles' \in [1 .. Len(list) -> [made : Obstacles, place : Spots]]
      BY <2>1, <2>4
    <3>2. QED
      BY <3>1, <1>1, FunctionsAreSequences
  <2>6. QED
    BY <1>1, <2>4, <2>5
       DEF RefreshMovingObstacles, DrawingsInv, CirclesAreTheObstacles, Current
<1>3. CASE ~CanUpdate(list)
  <2>1. circles' = [i \in 1 .. Len(list) |->
                     [made |-> list[i], place |-> list[i].place]]
    BY <1>1, <1>3 DEF RefreshMovingObstacles, SetMovingObstacles, Circle
  <2>4. \A i \in 1 .. Len(list) :
          /\ circles'[i] \in [made : Obstacles, place : Spots]
          /\ circles'[i].place = list[i].place
          /\ circles'[i].made.radius = list[i].radius
    BY <1>1, <2>1 DEF Obstacles
  <2>5. circles' \in Seq([made : Obstacles, place : Spots])
        /\ DOMAIN circles' = 1 .. Len(list)
    <3>1. circles' \in [1 .. Len(list) -> [made : Obstacles, place : Spots]]
      BY <2>1, <2>4
    <3>2. QED
      BY <3>1, <1>1, FunctionsAreSequences
  <2>6. QED
    BY <1>1, <2>4, <2>5
       DEF RefreshMovingObstacles, DrawingsInv, CirclesAreTheObstacles, Current
<1>4. QED
  BY <1>2, <1>3

LEMMA DrawingsStepKeepsInv ==
  ASSUME DrawingsAssumption, [DrawingsNext]_drawingVars, DrawingsInv
  PROVE  DrawingsInv'
<1>1. ASSUME NEW list \in Lists(Obstacles, MaxObstacles),
             RefreshMovingObstacles(list)
      PROVE  DrawingsInv'
  <2>1. list \in Seq(Obstacles)
    BY ListsAreSequences DEF DrawingsAssumption
  <2>2. QED
    BY <1>1, <2>1, ObstaclesKeepInv
<1>2. ASSUME NEW list \in Lists(Commands, MaxCommands),
             NEW i \in 1 .. MaxCommands, DrawDroneCommandPath(list, i)
      PROVE  DrawingsInv'
  <2>1. list \in Seq(Commands)
    BY ListsAreSequences DEF DrawingsAssumption
  <2>2. list \in Seq(Seq(Seq(Spots)))
    BY <2>1, CommandsAreSequences, SeqMonotonic
  <2>3. QED
    BY <1>2, <2>2 DEF DrawDroneCommandPath, DrawingsInv, CirclesAreTheObstacles
<1>3. CASE UNCHANGED drawingVars
  BY <1>3 DEF drawingVars, DrawingsInv, CirclesAreTheObstacles, Current
<1>4. QED
  BY <1>1, <1>2, <1>3 DEF DrawingsNext

\* SubSeqProperties, of a sequence.
LEMMA PartsOfSequences ==
  ASSUME NEW S, NEW s \in Seq(S), NEW m \in Int, NEW n \in Int,
         \A i \in m .. n : s[i] \in S
  PROVE  /\ SubSeq(s, m, n) \in Seq(S)
         /\ Len(SubSeq(s, m, n)) = IF m <= n THEN n - m + 1 ELSE 0
         /\ \A i \in 1 .. n - m + 1 : SubSeq(s, m, n)[i] = s[m + i - 1]
<1>1. \A i \in 1 .. n - m + 1 : SubSeq(s, m, n)[i] = s[m + i - 1]
  BY SubSeqProperties
<1>2. /\ SubSeq(s, m, n) \in Seq(S)
      /\ Len(SubSeq(s, m, n)) = IF m <= n THEN n - m + 1 ELSE 0
  BY SubSeqProperties
<1>3. QED
  BY <1>1, <1>2

FromTheLast(b, p) == (IF b = <<>> THEN <<>> ELSE <<Last(b)>>) \o p
StartOf(b)        == IF b = <<>> THEN 1 ELSE Len(b)
PartFrom(all, part, start) ==
  /\ start + Len(part) - 1 <= Len(all)
  /\ SubSeq(all, start, start + Len(part) - 1) = part

\* The last element of b, if there is one, and then p, in b, p and r joined.
LEMMA PartOfTheJoined ==
  ASSUME NEW S, NEW b \in Seq(S), NEW p \in Seq(S), NEW r \in Seq(S),
         NEW all, all = (b \o p) \o r,
         NEW part, part = FromTheLast(b, p), Len(part) > 0
  PROVE  PartFrom(all, part, StartOf(b))
<1> DEFINE x == Len(b)
           y == Len(p)
           z == Len(r)
           before == IF b = <<>> THEN <<>> ELSE <<Last(b)>>
           start == StartOf(b)
<1>1. x \in Nat /\ y \in Nat /\ z \in Nat
  BY LenProperties
<1>2. /\ b \o p \in Seq(S) /\ Len(b \o p) = x + y
      /\ \A i \in 1 .. x + y : (b \o p)[i] = IF i <= x THEN b[i] ELSE p[i - x]
  BY ConcatProperties
<1>3. /\ all \in Seq(S) /\ Len(all) = (x + y) + z
      /\ \A i \in 1 .. (x + y) + z :
           all[i] = IF i <= x + y THEN (b \o p)[i] ELSE r[i - (x + y)]
  BY <1>2, ConcatProperties
<1>4. b = <<>> <=> x = 0
  BY EmptySeq
<1>5. x # 0 => Last(b) = b[x] /\ b[x] \in S
  BY <1>1, ElementOfSeq DEF Last
<1>6. /\ before \in Seq(S) /\ Len(before) = (IF x = 0 THEN 0 ELSE 1)
      /\ x # 0 => before[1] = b[x]
  <2>1. CASE x = 0
    BY <2>1, <1>4
  <2>2. CASE x # 0
    <3>1. before = <<b[x]>>
      BY <2>2, <1>4, <1>5
    <3>2. QED
      BY <3>1, <2>2, <1>5
  <2>3. QED
    BY <2>1, <2>2
<1> HIDE DEF before
<1>7. part = before \o p
  BY DEF before, FromTheLast
<1>8. /\ part \in Seq(S) /\ Len(part) = Len(before) + y
      /\ \A i \in 1 .. Len(before) + y :
           part[i] = IF i <= Len(before) THEN before[i] ELSE p[i - Len(before)]
  <2>1. /\ before \o p \in Seq(S) /\ Len(before \o p) = Len(before) + Len(p)
        /\ \A i \in 1 .. Len(before) + Len(p) : (before \o p)[i] =
             IF i <= Len(before) THEN before[i] ELSE p[i - Len(before)]
    BY <1>6, ConcatProperties
  <2>2. QED
    BY <2>1, <1>7
<1> DEFINE n == start + Len(part) - 1
<1>9. /\ start = (IF x = 0 THEN 1 ELSE x) /\ n = x + y
      /\ start \in Int /\ n \in Int /\ start >= 1 /\ start <= n
      /\ n <= Len(all) /\ n - start + 1 = Len(part)
  BY <1>1, <1>3, <1>4, <1>6, <1>8 DEF StartOf
<1> HIDE DEF start
<1>10. /\ SubSeq(all, start, n) \in Seq(S)
       /\ Len(SubSeq(all, start, n)) = Len(part)
       /\ \A i \in 1 .. Len(part) :
            SubSeq(all, start, n)[i] = all[start + i - 1]
  <2> HIDE DEF n
  <2>1. \A i \in start .. n : all[i] \in S
    <3>1. \A i \in start .. n : i \in 1 .. Len(all)
      BY <1>1, <1>3, <1>9
    <3>2. QED
      BY <3>1, <1>3, ElementOfSeq
  <2>2. /\ SubSeq(all, start, n) \in Seq(S)
        /\ Len(SubSeq(all, start, n)) = IF start <= n THEN n - start + 1 ELSE 0
        /\ \A i \in 1 .. n - start + 1 :
             SubSeq(all, start, n)[i] = all[start + i - 1]
    BY <2>1, <1>3, <1>9, PartsOfSequences
  <2>3. start <= n /\ n - start + 1 = Len(part)
    BY <1>9
  <2>4. QED
    BY <2>2, <2>3
<1>11. ASSUME NEW i \in 1 .. Len(part) PROVE all[start + i - 1] = part[i]
  <2>1. start + i - 1 \in 1 .. x + y
    BY <1>1, <1>6, <1>8, <1>9
  <2>2. all[start + i - 1] = (b \o p)[start + i - 1]
    BY <2>1, <1>1, <1>3
  <2>3. CASE x = 0
    <3>1. start + i - 1 = i /\ ~(i <= x) /\ i - x = i
      BY <2>3, <1>9
    <3>2. (b \o p)[i] = p[i]
      BY <3>1, <2>1, <1>2
    <3>3. part[i] = p[i]
      BY <2>3, <1>6, <1>8
    <3>4. QED
      BY <2>2, <3>1, <3>2, <3>3
  <2>4. CASE x # 0 /\ i = 1
    <3>1. start + i - 1 = x /\ x <= x /\ x \in 1 .. x + y
      BY <2>4, <1>1, <1>9
    <3>2. (b \o p)[x] = b[x]
      BY <3>1, <1>2
    <3>3. part[i] = b[x]
      BY <2>4, <1>1, <1>6, <1>8
    <3>4. QED
      BY <2>2, <3>1, <3>2, <3>3
  <2>5. CASE x # 0 /\ i # 1
    <3>1. start + i - 1 = x + (i - 1) /\ ~(x + (i - 1) <= x)
          /\ x + (i - 1) - x = i - 1
      BY <2>5, <1>1, <1>9
    <3>2. (b \o p)[x + (i - 1)] = p[i - 1]
      BY <3>1, <2>1, <1>2
    <3>3. part[i] = p[i - 1]
      BY <2>5, <1>1, <1>6, <1>8
    <3>4. QED
      BY <2>2, <3>1, <3>2, <3>3
  <2>6. QED
    BY <2>3, <2>4, <2>5
<1>12. SubSeq(all, start, n) = part
  <2> DEFINE sub == SubSeq(all, start, n)
  <2>1. /\ sub \in Seq(S) /\ Len(sub) = Len(part)
        /\ \A i \in 1 .. Len(sub) : sub[i] = part[i]
    <3> HIDE DEF n
    <3>1. QED
      BY <1>10, <1>11
  <2> HIDE DEF sub
  <2>2. QED
    <3>1. sub = part
      BY <2>1, <1>8, SeqEqual
    <3>2. QED
      BY <3>1 DEF sub
<1>13. QED
  BY <1>9, <1>12 DEF PartFrom, start

LEMMA InvGivesCurrent == DrawingsInv => CurrentIsPartOfThePath
<1> SUFFICES ASSUME DrawingsInv PROVE CurrentIsPartOfThePath
  OBVIOUS
<1> DEFINE D == droneCommands
           A == SubSeq(D, 1, current - 1)
           B == SubSeq(D, current + 1, Len(D))
           b == FlattenSeq(FlattenSeq(A))
           p == FlattenSeq(D[current])
           r == FlattenSeq(FlattenSeq(B))
<1>1. D \in Seq(Seq(Seq(Spots))) /\ Len(D) \in Nat
      /\ DOMAIN D = 1 .. Len(D)
  BY LenProperties DEF DrawingsInv
<1>2. CASE current \notin DOMAIN D \/ D[current] = <<>>
  <2>1. paths.current = <<>>
    BY <1>2 DEF DrawingsInv, Current
  <2>2. QED
    BY <2>1 DEF CurrentIsPartOfThePath
<1>3. CASE current \in DOMAIN D /\ D[current] # <<>>
  <2>1. /\ current \in 1 .. Len(D) /\ D[current] \in Seq(Seq(Spots))
        /\ A \in Seq(Seq(Seq(Spots))) /\ B \in Seq(Seq(Seq(Spots)))
    <3>1. current \in 1 .. Len(D)
      BY <1>1, <1>3
    <3>2. /\ \A j \in 1 .. current - 1 : D[j] \in Seq(Seq(Spots))
          /\ \A j \in current + 1 .. Len(D) : D[j] \in Seq(Seq(Spots))
          /\ D[current] \in Seq(Seq(Spots))
      <4>1. \A j \in 1 .. Len(D) : D[j] \in Seq(Seq(Spots))
        BY <1>1, ElementOfSeq
      <4>2. QED
        BY <3>1, <4>1, <1>1
    <3>3. current - 1 \in Int /\ current + 1 \in Int /\ Len(D) \in Int
      BY <3>1, <1>1
    <3>4. QED
      BY <3>1, <3>2, <3>3, SubSeqProperties
  <2>2. FlattenSeq(D) = (FlattenSeq(A) \o D[current]) \o FlattenSeq(B)
    BY <1>1, <2>1, FlattenAround
  <2>3. /\ FlattenSeq(A) \in Seq(Seq(Spots)) /\ FlattenSeq(B) \in Seq(Seq(Spots))
    BY <2>1, FlattenIsASequence
  <2>4. /\ b \in Seq(Spots) /\ r \in Seq(Spots) /\ p \in Seq(Spots)
    BY <2>1, <2>3, FlattenIsASequence
  <2>5. FlattenSeq(FlattenSeq(D)) = (b \o p) \o r
    <3> DEFINE f == FlattenSeq(A)
               c == D[current]
               g == FlattenSeq(B)
    <3>1. f \in Seq(Seq(Spots)) /\ c \in Seq(Seq(Spots)) /\ g \in Seq(Seq(Spots))
      BY <2>1, <2>3
    <3> HIDE DEF f, c, g
    <3>2. f \o c \in Seq(Seq(Spots))
      BY <3>1, ConcatProperties
    <3>3. FlattenSeq((f \o c) \o g) = FlattenSeq(f \o c) \o FlattenSeq(g)
      BY <3>1, <3>2, FlattenOfBoth
    <3>4. FlattenSeq(f \o c) = FlattenSeq(f) \o FlattenSeq(c)
      BY <3>1, FlattenOfBoth
    <3>5. QED
      BY <3>3, <3>4, <2>2 DEF f, c, g
  <2>6. /\ paths.points = (b \o p) \o r
        /\ paths.current = (IF b = <<>> THEN <<>> ELSE <<Last(b)>>) \o p
    <3>1. paths.points = FlattenSeq(FlattenSeq(D))
      BY DEF DrawingsInv
    <3>2. paths.current = (IF b = <<>> THEN <<>> ELSE <<Last(b)>>) \o p
      BY <1>3 DEF DrawingsInv, Current
    <3>3. QED
      BY <3>1, <3>2, <2>5
  <2> HIDE DEF p, r
  <2>7. ASSUME Len(paths.current) > 0
        PROVE  PartFrom(paths.points, paths.current, StartOf(b))
    <3> DEFINE all == paths.points
               part == paths.current
    <3>1. all = (b \o p) \o r /\ part = FromTheLast(b, p)
      BY <2>6 DEF FromTheLast
    <3> HIDE DEF b, all, part
    <3>2. QED
      BY <2>4, <2>7, <3>1, PartOfTheJoined DEF all, part
  <2>8. QED
    BY <2>7 DEF CurrentIsPartOfThePath, PartFrom, StartOf
<1>4. QED
  BY <1>2, <1>3

\* Every obstacle has its circle, and the line of the current command is a
\* part of the path.
THEOREM DrawingsAreTheData ==
  ASSUME DrawingsAssumption
  PROVE  DrawingsSpec => [](CirclesAreTheObstacles /\ CurrentIsPartOfThePath)
<1>1. DrawingsInit => DrawingsInv
  BY DrawingsStart
<1>2. DrawingsInv /\ [DrawingsNext]_drawingVars => DrawingsInv'
  BY DrawingsStepKeepsInv
<1>3. DrawingsInv => CirclesAreTheObstacles /\ CurrentIsPartOfThePath
  BY InvGivesCurrent DEF DrawingsInv
<1>4. QED
  BY <1>1, <1>2, <1>3, PTL DEF DrawingsSpec

-----------------------------------------------------------------------------
(* The path of the commands on the map.                                    *)

SomePositions == Positions \cup {NoPosition}

HasLine(plan, i) == i \in Placed(plan) /\ PlacedBefore(plan, i) # {}

IsLine(line, plan, i) ==
  line.index = i /\ line.from = Previous(plan, i) /\ line.to = plan[i]

\* The map's table and the lines it shows are those of the plan.
LinesOf(plan, table, lines) ==
  /\ \A i \in DOMAIN plan :
       IF HasLine(plan, i) THEN IsLine(table[i], plan, i)
                           ELSE table[i] = NoLine
  /\ lines = {table[i] : i \in {i \in DOMAIN plan : HasLine(plan, i)}}

MarkersOf(plan, table, icons) ==
  /\ icons = {[index |-> i, pos |-> plan[i]] : i \in Placed(plan)}
  /\ \A i \in DOMAIN plan : table[i] = NewMarker(plan, i)

PathInv ==
  /\ positions \in Seq(SomePositions)
  /\ DOMAIN markers = DOMAIN positions /\ DOMAIN commands_path = DOMAIN positions
  /\ Len(markers) = Len(positions)
  /\ firstChanged \in BOOLEAN
  /\ MarkersOf(positions, markers, map.markers)
  /\ ~firstChanged => LinesOf(positions, commands_path, map.lines)

\* Beyond the range a plan is as it was.
SameOutside(old, plan, start, end) ==
  \A i \in Nat : i \notin start .. end =>
    /\ i \in DOMAIN old <=> i \in DOMAIN plan
    /\ i \in DOMAIN old => plan[i] = old[i]

LEMMA NewMarkers ==
  ASSUME NEW old \in Seq(SomePositions), NEW plan \in Seq(SomePositions),
         NEW start \in Nat \ {0}, NEW end \in Nat,
         SameOutside(old, plan, start, end),
         NEW table, DOMAIN table = DOMAIN old,
         NEW icons, MarkersOf(old, table, icons),
         NEW new, new = [i \in DOMAIN plan |->
                          IF i \in start .. end THEN NewMarker(plan, i)
                          ELSE At(table, i, NoMarker)]
  PROVE  MarkersOf(plan, new,
           (icons \ {At(table, i, NoMarker) : i \in start .. end})
             \cup {NewMarker(plan, i) : i \in (start .. end) \cap Placed(plan)})
<1> DEFINE gone  == {At(table, i, NoMarker) : i \in start .. end}
           added == {NewMarker(plan, i) : i \in (start .. end) \cap Placed(plan)}
           then  == {[index |-> i, pos |-> plan[i]] : i \in Placed(plan)}
<1>1. /\ DOMAIN old \subseteq Nat \ {0} /\ DOMAIN plan \subseteq Nat \ {0}
      /\ start .. end \subseteq Nat
  OBVIOUS
<1>2. \A i \in Placed(plan) : NewMarker(plan, i) = [index |-> i, pos |-> plan[i]]
  BY DEF Placed, NewMarker
<1>3. ASSUME NEW i \in Placed(old)
      PROVE  [index |-> i, pos |-> old[i]] \in gone <=> i \in start .. end
  <2>1. ASSUME i \in start .. end
        PROVE  [index |-> i, pos |-> old[i]] \in gone
    <3>1. At(table, i, NoMarker) = [index |-> i, pos |-> old[i]]
      BY DEF At, MarkersOf, NewMarker, Placed
    <3>2. QED
      BY <2>1, <3>1
  <2>2. ASSUME NEW j \in start .. end,
               At(table, j, NoMarker) = [index |-> i, pos |-> old[i]]
        PROVE  i \in start .. end
    <3>1. At(table, j, NoMarker).index = i
      BY <2>2
    <3>2. At(table, j, NoMarker).index \in {0, j}
      BY DEF At, MarkersOf, NewMarker, NoMarker
    <3>3. i # 0
      BY <1>1 DEF Placed
    <3>4. QED
      BY <3>1, <3>2, <3>3
  <2>3. QED
    BY <2>1, <2>2
<1>4. \A i \in Nat : i \notin start .. end =>
        /\ i \in Placed(old) <=> i \in Placed(plan)
        /\ i \in Placed(old) => plan[i] = old[i]
  BY DEF SameOutside, Placed
<1>5. icons = {[index |-> i, pos |-> old[i]] : i \in Placed(old)}
  BY DEF MarkersOf
<1>6. ASSUME NEW m \in (icons \ gone) \cup added PROVE m \in then
  <2>1. CASE m \in added
    BY <2>1, <1>2
  <2>2. CASE m \in icons \ gone
    <3>1. PICK i \in Placed(old) : m = [index |-> i, pos |-> old[i]]
      BY <2>2, <1>5
    <3>2. i \notin start .. end /\ i \in Nat
      BY <3>1, <2>2, <1>3, <1>1 DEF Placed
    <3>3. i \in Placed(plan) /\ plan[i] = old[i]
      BY <3>2, <1>4
    <3>4. QED
      BY <3>1, <3>3
  <2>3. QED
    BY <2>1, <2>2
<1>7. ASSUME NEW m \in then PROVE m \in (icons \ gone) \cup added
  <2>1. PICK i \in Placed(plan) : m = [index |-> i, pos |-> plan[i]]
    OBVIOUS
  <2>2. CASE i \in start .. end
    BY <2>1, <2>2, <1>2
  <2>3. CASE i \notin start .. end
    <3>1. i \in Nat
      BY <1>1 DEF Placed
    <3>2. i \in Placed(old) /\ plan[i] = old[i]
      BY <3>1, <2>3, <1>4
    <3>3. m \in icons
      BY <2>1, <3>2, <1>5
    <3>4. m \notin gone
      BY <2>1, <2>3, <3>2, <1>3
    <3>5. QED
      BY <3>3, <3>4
  <2>4. QED
    BY <2>2, <2>3
<1>8. ASSUME NEW i \in DOMAIN plan PROVE new[i] = NewMarker(plan, i)
  <2>1. CASE i \in start .. end
    BY <2>1
  <2>2. CASE i \notin start .. end
    <3>1. i \in DOMAIN old /\ plan[i] = old[i]
      BY <2>2, <1>1 DEF SameOutside
    <3>2. new[i] = table[i] /\ table[i] = NewMarker(old, i)
      BY <2>2, <3>1 DEF At, MarkersOf
    <3>3. QED
      BY <3>1, <3>2 DEF NewMarker
  <2>3. QED
    BY <2>1, <2>2
<1>9. (icons \ gone) \cup added = then
  BY <1>6, <1>7
<1>10. QED
  BY <1>8, <1>9 DEF MarkersOf

\* The first command with a position is the one it was, if both plans have one.
SameFirst(old, plan) ==
  \/ Placed(old) = {} \/ Placed(plan) = {}
  \/ Min(Placed(old)) = Min(Placed(plan))

LEMMA PlacedAreNumbers ==
  ASSUME NEW plan \in Seq(SomePositions)
  PROVE  /\ Placed(plan) \subseteq DOMAIN plan /\ DOMAIN plan \subseteq Nat \ {0}
         /\ DOMAIN plan = 1 .. Len(plan) /\ Len(plan) \in Nat
         /\ Placed(plan) \subseteq Nat
         /\ \A i \in Nat : PlacedBefore(plan, i) \subseteq 1 .. i
  BY DEF Placed, PlacedBefore

\* A line ends at every command with a position but the first.
LEMMA AllButTheFirst ==
  ASSUME NEW plan \in Seq(SomePositions), NEW i \in Placed(plan)
  PROVE  HasLine(plan, i) <=> i # Min(Placed(plan))
<1>1. Placed(plan) \subseteq Nat /\ i \in Nat
  BY PlacedAreNumbers
<1>2. Min(Placed(plan)) \in Placed(plan)
      /\ \A x \in Placed(plan) : Min(Placed(plan)) <= x
  BY <1>1, LeastOf
<1> DEFINE m == Min(Placed(plan))
<1>3. m \in Placed(plan) /\ (\A x \in Placed(plan) : m <= x) /\ m \in Nat
  BY <1>1, <1>2
<1> HIDE DEF m
<1>4. CASE i = m
  <2>1. PlacedBefore(plan, i) = {}
    BY <1>1, <1>3, <1>4 DEF PlacedBefore
  <2>2. QED
    BY <1>4, <2>1 DEF HasLine, m
<1>5. CASE i # m
  <2>1. m < i
    BY <1>1, <1>3, <1>5
  <2>2. m \in PlacedBefore(plan, i)
    BY <2>1, <1>3 DEF PlacedBefore
  <2>3. QED
    BY <1>5, <2>2 DEF HasLine, m
<1>6. QED
  BY <1>4, <1>5

\* Beyond the range the same commands have a line.
LEMMA SameLinesBeyond ==
  ASSUME NEW old \in Seq(SomePositions), NEW plan \in Seq(SomePositions),
         NEW start \in Nat \ {0}, NEW end \in Nat,
         SameOutside(old, plan, start, end), SameFirst(old, plan),
         NEW i \in Nat, i \notin start .. end
  PROVE  HasLine(old, i) <=> HasLine(plan, i)
<1>1. i \in Placed(old) <=> i \in Placed(plan)
  BY DEF SameOutside, Placed
<1>2. CASE i \notin Placed(old)
  BY <1>1, <1>2 DEF HasLine
<1>3. CASE i \in Placed(old)
  <2>1. Min(Placed(old)) = Min(Placed(plan))
    BY <1>1, <1>3 DEF SameFirst
  <2>2. HasLine(old, i) <=> i # Min(Placed(old))
    BY <1>3, AllButTheFirst
  <2>3. HasLine(plan, i) <=> i # Min(Placed(plan))
    BY <1>1, <1>3, AllButTheFirst
  <2>4. QED
    BY <2>1, <2>2, <2>3
<1>4. QED
  BY <1>2, <1>3

\* A line that is not drawn again still goes from and to where it should:
\* the commands from j to i are before the range, or beyond it.
LEMMA SameLine ==
  ASSUME NEW old \in Seq(SomePositions), NEW plan \in Seq(SomePositions),
         NEW start \in Nat \ {0}, NEW end \in Nat,
         SameOutside(old, plan, start, end),
         NEW i \in Nat, i \in Placed(plan), i \notin start .. end,
         NEW j \in PlacedBefore(plan, i),
         i < start \/ j > end,
         NEW line, IsLine(line, old, i)
  PROVE  IsLine(line, plan, i)
<1>1. \A k \in Nat : k \notin start .. end =>
        /\ k \in Placed(old) <=> k \in Placed(plan)
        /\ k \in Placed(old) => plan[k] = old[k]
  BY DEF SameOutside, Placed
<1> DEFINE S == PlacedBefore(old, i)
           T == PlacedBefore(plan, i)
<1>2. S \subseteq 1 .. i /\ T \subseteq 1 .. i /\ j \in T /\ j \in Nat
  BY PlacedAreNumbers
<1>3. CASE i < start
  <2>1. S = T
    <3>1. \A k \in 1 .. i : k \in Placed(old) <=> k \in Placed(plan)
      BY <1>1, <1>3
    <3>2. S = {k \in 1 .. i : k \in Placed(old) /\ k < i}
      BY <1>2 DEF PlacedBefore
    <3>3. T = {k \in 1 .. i : k \in Placed(plan) /\ k < i}
      BY <1>2 DEF PlacedBefore
    <3> HIDE DEF S, T
    <3>4. QED
      BY <3>1, <3>2, <3>3
  <2>2. Max(T) \in T
    <3> HIDE DEF S, T
    <3>1. T # {}
      BY <1>2
    <3>2. QED
      BY <1>2, <3>1, GreatestOf
  <2>3. Max(T) \in Nat /\ Max(T) < start /\ Max(T) \in Placed(plan)
    <3>1. Max(T) \in 1 .. i
      BY <1>2, <2>2
    <3>2. Max(T) \in Placed(plan)
      BY <2>2 DEF PlacedBefore
    <3>3. QED
      BY <1>3, <3>1, <3>2
  <2>4. plan[Max(T)] = old[Max(T)]
    <3> DEFINE m == Max(T)
    <3>1. m \in Nat /\ m < start /\ m \in Placed(plan)
      BY <2>3
    <3> HIDE DEF m
    <3>2. plan[m] = old[m]
      BY <1>1, <3>1
    <3>3. QED
      BY <3>2 DEF m
  <2>5. Previous(plan, i) = Previous(old, i)
    BY <2>1, <2>4 DEF Previous
  <2>6. plan[i] = old[i]
    BY <1>1, <1>3
  <2>7. QED
    BY <2>5, <2>6 DEF IsLine
<1>4. CASE j > end
  <2>1. \A x \in Nat : x >= j => (x \in S <=> x \in T)
    <3>1. \A x \in Nat : x >= j => (x \in Placed(old) <=> x \in Placed(plan))
      BY <1>1, <1>2, <1>4
    <3>2. QED
      BY <3>1 DEF PlacedBefore
  <2>2. j \in S
    BY <2>1, <1>2
  <2>3. Max(T) \in T /\ Max(T) >= j /\ Max(S) = Max(T)
    <3> HIDE DEF S, T
    <3>1. T # {}
      BY <1>2
    <3>2. Max(T) \in T /\ \A x \in T : Max(T) >= x
      BY <1>2, <3>1, GreatestOf
    <3>3. Max(S) = Max(T)
      BY <1>2, <2>1, <2>2, SameGreatest
    <3>4. QED
      BY <1>2, <3>2, <3>3
  <2>4. plan[Max(T)] = old[Max(T)]
    <3> DEFINE m == Max(T)
    <3>1. m \in T /\ m >= j
      BY <2>3
    <3> HIDE DEF m
    <3>2. m \in Nat /\ m \in Placed(plan)
      BY <3>1, <1>2 DEF PlacedBefore
    <3>3. m > end
      BY <3>1, <3>2, <1>2, <1>4
    <3>4. plan[m] = old[m]
      BY <1>1, <3>2, <3>3
    <3>5. QED
      BY <3>4 DEF m
  <2>5. Previous(plan, i) = Previous(old, i)
    BY <2>3, <2>4 DEF Previous
  <2>6. plan[i] = old[i]
    BY <1>1
  <2>7. QED
    BY <2>5, <2>6 DEF IsLine
<1>5. QED
  BY <1>3, <1>4

LinesBeyond(table, end) == {i \in DOMAIN table : i > end /\ table[i] # NoLine}

Cleared(table, start, end) ==
  (start .. end) \cup (IF LinesBeyond(table, end) = {} THEN {}
                       ELSE {Min(LinesBeyond(table, end))})

\* What draw_command_path puts into the table.
Redraws(new, plan, table, start, end) ==
  /\ DOMAIN new = DOMAIN plan
  /\ \A i \in DOMAIN plan :
       /\ i \notin start .. LastDrawn(plan, end) => new[i] = At(table, i, NoLine)
       /\ i \in start .. LastDrawn(plan, end) =>
            /\ plan[i] = NoPosition => new[i] = NoLine
            /\ plan[i] # NoPosition /\ PlacedBefore(plan, i) = {} =>
                 new[i] = At(table, i, NoLine)
            /\ HasLine(plan, i) => IsLine(new[i], plan, i)

\* The table's lines beyond the range are those of the commands that have one,
\* before and after.
LEMMA LinesBeyondAre ==
  ASSUME NEW old \in Seq(SomePositions), NEW plan \in Seq(SomePositions),
         NEW start \in Nat \ {0}, NEW end \in Nat,
         SameOutside(old, plan, start, end), SameFirst(old, plan),
         NEW table, DOMAIN table = DOMAIN old,
         NEW lines, LinesOf(old, table, lines)
  PROVE  LinesBeyond(table, end)
           = {i \in Placed(plan) : i > end /\ PlacedBefore(plan, i) # {}}
<1>1. ASSUME NEW i \in Nat, i > end
      PROVE  i \in LinesBeyond(table, end) <=> HasLine(plan, i)
  <2>1. HasLine(old, i) <=> HasLine(plan, i)
    BY <1>1, SameLinesBeyond
  <2>2. i \in DOMAIN old => (table[i] # NoLine <=> HasLine(old, i))
    <3>1. i # 0
      BY <1>1
    <3>2. QED
      BY <3>1 DEF LinesOf, IsLine, NoLine
  <2>3. HasLine(old, i) => i \in DOMAIN old
    BY DEF HasLine, Placed
  <2>4. QED
    BY <1>1, <2>1, <2>2, <2>3 DEF LinesBeyond
<1>2. LinesBeyond(table, end) \subseteq {i \in Nat : i > end}
  BY PlacedAreNumbers DEF LinesBeyond
<1>3. \A i \in Placed(plan) : i \in Nat
  BY PlacedAreNumbers
<1>4. QED
  BY <1>1, <1>2, <1>3 DEF HasLine

\* Up to where lines are drawn, and that everything that is cleared is.
LEMMA DrawnAre ==
  ASSUME NEW plan \in Seq(SomePositions), NEW start \in Nat \ {0}, NEW end \in Nat,
         start <= end + 1
  PROVE  LET after == {i \in Placed(plan) : i > end /\ PlacedBefore(plan, i) # {}}
             last == LastDrawn(plan, end)
         IN  /\ after = {} => last = Len(plan)
             /\ after # {} => /\ last = Min(after) /\ last \in after
                              /\ last > end /\ \A i \in after : last <= i
             /\ last \in Nat
<1> DEFINE after == {i \in Placed(plan) : i > end /\ PlacedBefore(plan, i) # {}}
           last == LastDrawn(plan, end)
<1>1. after \subseteq Nat
  BY PlacedAreNumbers
<1>2. CASE after = {}
  BY <1>2, PlacedAreNumbers DEF LastDrawn
<1>3. CASE after # {}
  <2>1. last = Min(after)
    BY <1>3 DEF LastDrawn
  <2>2. Min(after) \in after /\ \A i \in after : Min(after) <= i
    <3> HIDE DEF after
    <3>1. QED
      BY <1>1, <1>3, LeastOf
  <2>3. QED
    BY <1>1, <1>3, <2>1, <2>2
<1>4. QED
  BY <1>2, <1>3

LEMMA NewTable ==
  ASSUME NEW old \in Seq(SomePositions), NEW plan \in Seq(SomePositions),
         NEW start \in Nat \ {0}, NEW end \in Nat, start <= end + 1,
         SameOutside(old, plan, start, end), SameFirst(old, plan),
         NEW table, DOMAIN table = DOMAIN old,
         NEW lines, LinesOf(old, table, lines),
         NEW new, Redraws(new, plan, table, start, end),
         NEW i \in DOMAIN plan
  PROVE  /\ HasLine(plan, i) => IsLine(new[i], plan, i)
         /\ ~HasLine(plan, i) => new[i] = NoLine
<1> DEFINE last == LastDrawn(plan, end)
<1>1. i \in Nat /\ i <= Len(plan) /\ Len(plan) \in Nat /\ i \in 1 .. Len(plan)
  BY PlacedAreNumbers
<1>2. CASE i \in start .. last
  <2>1. CASE plan[i] = NoPosition
    BY <1>2, <2>1 DEF Redraws, HasLine, Placed
  <2>2. CASE HasLine(plan, i)
    BY <1>2, <2>2 DEF Redraws
  <2>3. CASE plan[i] # NoPosition /\ ~HasLine(plan, i)
    <3>1. i \in Placed(plan) /\ PlacedBefore(plan, i) = {}
      BY <2>3 DEF HasLine, Placed
    <3>2. new[i] = At(table, i, NoLine)
      BY <1>2, <2>3, <3>1 DEF Redraws
    <3>3. i = Min(Placed(plan))
      BY <2>3, <3>1, AllButTheFirst
    <3>4. ~HasLine(old, i)
      <4>1. SUFFICES ASSUME HasLine(old, i) PROVE FALSE
        OBVIOUS
      <4>2. i \in Placed(old)
        BY <4>1 DEF HasLine
      <4>3. i # Min(Placed(old))
        BY <4>1, <4>2, AllButTheFirst
      <4>4. QED
        BY <3>1, <3>3, <4>2, <4>3 DEF SameFirst
    <3>5. At(table, i, NoLine) = NoLine
      BY <3>4 DEF At, LinesOf
    <3>6. QED
      BY <2>3, <3>2, <3>5
  <2>4. QED
    BY <2>1, <2>2, <2>3
<1>3. CASE i \notin start .. last
  <2> DEFINE after == {k \in Placed(plan) : k > end /\ PlacedBefore(plan, k) # {}}
  <2>1. /\ after = {} => last = Len(plan)
        /\ after # {} => last \in after /\ last > end
        /\ last \in Nat
    BY DrawnAre
  <2>2. i < start \/ (i > last /\ last \in after /\ last > end)
    BY <1>1, <1>3, <2>1
  <2>3. i \notin start .. end
    BY <1>1, <2>1, <2>2
  <2>4. i \in DOMAIN old /\ plan[i] = old[i] /\ new[i] = table[i]
    <3>1. i \in DOMAIN old /\ plan[i] = old[i]
      BY <1>1, <2>3 DEF SameOutside
    <3>2. new[i] = At(table, i, NoLine)
      BY <1>3 DEF Redraws
    <3>3. QED
      BY <3>1, <3>2 DEF At
  <2>5. HasLine(old, i) <=> HasLine(plan, i)
    BY <1>1, <2>3, SameLinesBeyond
  <2>6. CASE ~HasLine(plan, i)
    BY <2>4, <2>5, <2>6 DEF LinesOf
  <2>7. CASE HasLine(plan, i)
    <3>1. IsLine(table[i], old, i) /\ i \in Placed(plan)
      BY <2>4, <2>5, <2>7 DEF LinesOf, HasLine
    <3>2. PICK j \in PlacedBefore(plan, i) : i < start \/ j > end
      <4>1. CASE i < start
        BY <2>7, <4>1 DEF HasLine
      <4>2. CASE i > last /\ last \in after /\ last > end
        <5>1. last \in PlacedBefore(plan, i)
          BY <1>1, <2>1, <4>2 DEF PlacedBefore
        <5>2. QED
          BY <5>1, <4>2
      <4>3. QED
        BY <2>2, <4>1, <4>2
    <3>3. IsLine(table[i], plan, i)
      BY <1>1, <2>3, <3>1, <3>2, SameLine
    <3>4. QED
      BY <2>4, <2>7, <3>3
  <2>8. QED
    BY <2>6, <2>7
<1>4. QED
  BY <1>2, <1>3

LEMMA NewLines ==
  ASSUME NEW old \in Seq(SomePositions), NEW plan \in Seq(SomePositions),
         NEW start \in Nat \ {0}, NEW end \in Nat, start <= end + 1,
         SameOutside(old, plan, start, end), SameFirst(old, plan),
         NEW table, DOMAIN table = DOMAIN old,
         NEW lines, LinesOf(old, table, lines),
         NEW new, Redraws(new, plan, table, start, end)
  PROVE  LinesOf(plan, new,
           (lines \ {At(table, i, NoLine) : i \in Cleared(table, start, end)})
             \cup {new[i] : i \in {i \in (start .. LastDrawn(plan, end))
                                         \cap Placed(plan) :
                                    PlacedBefore(plan, i) # {}}})
<1> DEFINE last == LastDrawn(plan, end)
           gone == {At(table, i, NoLine) : i \in Cleared(table, start, end)}
           added == {new[i] : i \in {i \in (start .. last) \cap Placed(plan) :
                                    PlacedBefore(plan, i) # {}}}
           then == {new[i] : i \in {i \in DOMAIN plan : HasLine(plan, i)}}
           after == {k \in Placed(plan) : k > end /\ PlacedBefore(plan, k) # {}}
<1>1. \A i \in DOMAIN plan : /\ HasLine(plan, i) => IsLine(new[i], plan, i)
                             /\ ~HasLine(plan, i) => new[i] = NoLine
  BY NewTable
<1>2. /\ after = {} => last = Len(plan)
      /\ after # {} => /\ last = Min(after) /\ last \in after
                       /\ last > end /\ \A i \in after : last <= i
      /\ last \in Nat
  BY DrawnAre
<1>3. LinesBeyond(table, end) = after
  BY LinesBeyondAre
<1>4. Cleared(table, start, end)
        = (start .. end) \cup (IF after = {} THEN {} ELSE {last})
  BY <1>2, <1>3 DEF Cleared
<1>5. /\ \A i \in DOMAIN old : i \in Nat /\ i # 0
      /\ \A i \in DOMAIN plan : i \in Nat /\ i # 0 /\ i <= Len(plan)
      /\ Len(plan) \in Nat
  BY PlacedAreNumbers
\* A line is cleared only as the line of its own index.
<1>6. ASSUME NEW i \in DOMAIN old, HasLine(old, i)
      PROVE  table[i] \in gone <=> i \in Cleared(table, start, end)
  <2>1. table[i].index = i /\ i # 0
    BY <1>5, <1>6 DEF LinesOf, IsLine
  <2>2. ASSUME i \in Cleared(table, start, end) PROVE table[i] \in gone
    <3>1. At(table, i, NoLine) = table[i]
      BY DEF At
    <3>2. QED
      BY <2>2, <3>1
  <2>3. ASSUME NEW j \in Cleared(table, start, end), At(table, j, NoLine) = table[i]
        PROVE  j = i
    <3>1. At(table, j, NoLine).index \in {0, j}
      BY DEF At, LinesOf, IsLine, NoLine
    <3>2. QED
      BY <2>1, <2>3, <3>1
  <2>4. QED
    BY <2>2, <2>3
<1>7. lines = {table[i] : i \in {i \in DOMAIN old : HasLine(old, i)}}
  BY DEF LinesOf
\* What is neither in the range nor the next line stays.
<1>8. ASSUME NEW i \in Nat, i \notin Cleared(table, start, end)
      PROVE  /\ HasLine(old, i) <=> HasLine(plan, i)
             /\ HasLine(plan, i) => /\ i \notin start .. last
                                    /\ i \in DOMAIN old /\ i \in DOMAIN plan
                                    /\ new[i] = table[i]
  <2>1. i \notin start .. end
    BY <1>4, <1>8
  <2>2. HasLine(old, i) <=> HasLine(plan, i)
    BY <2>1, SameLinesBeyond
  <2>3. ASSUME HasLine(plan, i)
        PROVE  /\ i \notin start .. last /\ i \in DOMAIN old /\ i \in DOMAIN plan
               /\ new[i] = table[i]
    <3>1. i \in DOMAIN plan /\ i \in DOMAIN old
      BY <2>2, <2>3 DEF HasLine, Placed
    <3>2. i \notin start .. last
      <4>1. CASE i < start
        BY <1>2, <4>1
      <4>2. CASE i > end
        <5>1. i \in after
          BY <2>3, <4>2 DEF HasLine
        <5>2. last <= i /\ i # last
          BY <1>2, <1>4, <1>8, <5>1
        <5>3. QED
          BY <1>2, <5>2
      <4>3. QED
        BY <2>1, <4>1, <4>2
    <3>3. new[i] = table[i]
      BY <3>1, <3>2 DEF Redraws, At
    <3>4. QED
      BY <3>1, <3>2, <3>3
  <2>4. QED
    BY <2>2, <2>3
<1>9. ASSUME NEW l \in (lines \ gone) \cup added PROVE l \in then
  <2>1. CASE l \in added
    <3>1. PICK i \in (start .. last) \cap Placed(plan) :
            PlacedBefore(plan, i) # {} /\ l = new[i]
      BY <2>1
    <3>2. HasLine(plan, i) /\ i \in DOMAIN plan
      BY <3>1 DEF HasLine, Placed
    <3>3. QED
      BY <3>1, <3>2
  <2>2. CASE l \in lines \ gone
    <3>1. PICK i \in DOMAIN old : HasLine(old, i) /\ l = table[i]
      BY <2>2, <1>7
    <3>2. i \notin Cleared(table, start, end) /\ i \in Nat
      BY <3>1, <2>2, <1>5, <1>6
    <3>3. HasLine(plan, i) /\ i \in DOMAIN plan /\ new[i] = table[i]
      BY <3>1, <3>2, <1>8
    <3>4. QED
      BY <3>1, <3>3
  <2>3. QED
    BY <2>1, <2>2
<1>10. ASSUME NEW l \in then PROVE l \in (lines \ gone) \cup added
  <2>1. PICK i \in DOMAIN plan : HasLine(plan, i) /\ l = new[i]
    OBVIOUS
  <2>2. CASE i \in Cleared(table, start, end)
    <3>1. i \in start .. last
      <4>1. i \in Nat /\ i <= Len(plan)
        BY <1>5
      <4>2. CASE after = {}
        BY <1>2, <1>4, <1>5, <2>2, <4>1, <4>2
      <4>3. CASE after # {}
        BY <1>2, <1>4, <1>5, <2>2, <4>1, <4>3
      <4>4. QED
        BY <4>2, <4>3
    <3>2. i \in Placed(plan) /\ PlacedBefore(plan, i) # {}
      BY <2>1 DEF HasLine
    <3>3. l \in added
      BY <2>1, <3>1, <3>2
    <3>4. QED
      BY <3>3
  <2>3. CASE i \notin Cleared(table, start, end)
    <3>1. HasLine(old, i) /\ i \in DOMAIN old /\ new[i] = table[i]
      BY <1>5, <1>8, <2>1, <2>3
    <3>2. l \in lines /\ l \notin gone
      BY <1>6, <1>7, <2>1, <2>3, <3>1
    <3>3. QED
      BY <3>2
  <2>4. QED
    BY <2>2, <2>3
<1>11. (lines \ gone) \cup added = then
  <2> HIDE DEF gone, added, then
  <2>1. QED
    BY <1>9, <1>10
<1>12. QED
  BY <1>1, <1>11 DEF LinesOf

LEMMA LengthOf ==
  ASSUME NEW n \in Nat, NEW s, s = [i \in 1 .. n |-> s[i]]
  PROVE  Len(s) = n
<1> DEFINE S == {s[i] : i \in 1 .. n}
<1>1. s \in [1 .. n -> S]
  OBVIOUS
<1> HIDE DEF S
<1>2. s \in Seq(S)
  BY <1>1
<1>3. Len(s) \in Nat /\ DOMAIN s = 1 .. Len(s) /\ DOMAIN s = 1 .. n
  BY <1>1, <1>2
<1>4. QED
  BY <1>3

LEMMA DrawKeepsInv ==
  ASSUME PathInv, NEW plan \in Seq(SomePositions),
         NEW start \in Nat \ {0}, NEW end \in Nat, start <= end + 1,
         SameOutside(positions, plan, start, end),
         DrawCommandPath(plan, start, end)
  PROVE  PathInv'
<1> DEFINE drawn   == start .. LastDrawn(plan, end)
           old(i)  == At(commands_path, i, NoLine)
           line(i) == IF i \notin drawn THEN old(i)
                      ELSE IF plan[i] = NoPosition THEN NoLine
                      ELSE IF PlacedBefore(plan, i) = {} THEN old(i)
                      ELSE NewLine(plan, i)
           mark(i) == IF i \in start .. end THEN NewMarker(plan, i)
                        ELSE At(markers, i, NoMarker)
           new     == [i \in DOMAIN plan |-> line(i)]
           table   == [i \in DOMAIN plan |-> mark(i)]
           icons   == (map.markers \ {At(markers, i, NoMarker) : i \in start .. end})
                        \cup {NewMarker(plan, i) : i \in (start .. end) \cap Placed(plan)}
           lines   == (map.lines \ {At(commands_path, i, NoLine) :
                                      i \in Cleared(commands_path, start, end)})
                        \cup {new[i] : i \in {i \in drawn \cap Placed(plan) :
                                              PlacedBefore(plan, i) # {}}}
<1>1. /\ positions' = plan /\ commands_path' = new /\ markers' = table
      /\ firstChanged' = (firstChanged \/
           /\ Placed(positions) # {} /\ Placed(plan) # {}
           /\ Min(Placed(positions)) # Min(Placed(plan)))
  BY Zenon DEF DrawCommandPath
<1>2. map'.markers = icons
  <2>1. \A i \in (start .. end) \cap Placed(plan) : mark(i) = NewMarker(plan, i)
    OBVIOUS
  <2>2. map'.markers = (map.markers \ {At(markers, i, NoMarker) : i \in start .. end})
                         \cup {mark(i) : i \in (start .. end) \cap Placed(plan)}
    BY DEF DrawCommandPath
  <2>3. QED
    BY <2>1, <2>2
<1>3. map'.lines = lines
  <2>1. \A i \in Placed(plan) : new[i] = line(i)
    BY DEF Placed
  <2>2. map'.lines = (map.lines \ {old(i) : i \in Cleared(commands_path, start, end)})
                       \cup {line(i) : i \in {i \in drawn \cap Placed(plan) :
                                             PlacedBefore(plan, i) # {}}}
    BY DEF DrawCommandPath, Cleared, LinesBeyond
  <2> HIDE DEF new, line, drawn
  <2>3. QED
    BY <2>1, <2>2
<1>4. MarkersOf(plan, table, icons)
  <2> HIDE DEF icons
  <2>1. DOMAIN markers = DOMAIN positions /\ positions \in Seq(SomePositions)
        /\ MarkersOf(positions, markers, map.markers)
    BY DEF PathInv
  <2>2. table = [i \in DOMAIN plan |-> IF i \in start .. end THEN NewMarker(plan, i)
                                      ELSE At(markers, i, NoMarker)]
    OBVIOUS
  <2> HIDE DEF table
  <2>3. QED
    BY <2>1, <2>2, NewMarkers DEF icons
<1>5. Redraws(new, plan, commands_path, start, end)
  <2>1. \A i \in DOMAIN plan : new[i] = line(i)
    OBVIOUS
  <2>2. DOMAIN new = DOMAIN plan
    OBVIOUS
  <2>3. ASSUME NEW i \in DOMAIN plan, i \in drawn
        PROVE  /\ plan[i] = NoPosition => line(i) = NoLine
               /\ plan[i] # NoPosition /\ PlacedBefore(plan, i) = {} => line(i) = old(i)
               /\ HasLine(plan, i) => line(i) = NewLine(plan, i)
    BY <2>3 DEF HasLine, Placed
  <2>4. \A i \in DOMAIN plan : IsLine(NewLine(plan, i), plan, i)
    BY DEF NewLine, IsLine
  <2>5. \A i \in DOMAIN plan : i \notin drawn => line(i) = old(i)
    OBVIOUS
  <2> HIDE DEF new, line
  <2>6. QED
    BY <2>1, <2>2, <2>3, <2>4, <2>5 DEF Redraws
<1>6. ASSUME ~firstChanged' PROVE LinesOf(plan, new, lines)
  <2>1. ~firstChanged /\ SameFirst(positions, plan)
    BY <1>1, <1>6 DEF SameFirst
  <2>2. /\ DOMAIN commands_path = DOMAIN positions /\ positions \in Seq(SomePositions)
        /\ LinesOf(positions, commands_path, map.lines)
    BY <2>1 DEF PathInv
  <2> HIDE DEF new
  <2>3. QED
    BY <1>5, <2>1, <2>2, NewLines
<1>7. /\ DOMAIN table = DOMAIN plan /\ DOMAIN new = DOMAIN plan
      /\ Len(table) = Len(plan)
  <2>1. DOMAIN plan = 1 .. Len(plan) /\ Len(plan) \in Nat
    OBVIOUS
  <2>2. table = [i \in 1 .. Len(plan) |-> table[i]]
    <3> HIDE DEF mark
    <3>1. QED
      BY <2>1
  <2>3. DOMAIN table = DOMAIN plan /\ DOMAIN new = DOMAIN plan
    OBVIOUS
  <2> HIDE DEF table
  <2>4. Len(table) = Len(plan)
    BY <2>1, <2>2, LengthOf
  <2>5. QED
    BY <2>3, <2>4
<1>8. firstChanged' \in BOOLEAN
  BY <1>1 DEF PathInv
<1> HIDE DEF table, new, icons, lines
<1>9. QED
  BY <1>1, <1>2, <1>3, <1>4, <1>6, <1>7, <1>8 DEF PathInv

-----------------------------------------------------------------------------

LEMMA OneCommandChanges ==
  ASSUME PathInv, NEW i \in DOMAIN positions, NEW pos \in SomePositions,
         DrawCommandPath([positions EXCEPT ![i] = pos], i, i)
  PROVE  PathInv'
<1> DEFINE plan == [positions EXCEPT ![i] = pos]
<1>1. positions \in Seq(SomePositions) /\ i \in Nat \ {0} /\ i <= i + 1
  BY PlacedAreNumbers DEF PathInv
<1>2. plan \in Seq(SomePositions) /\ DOMAIN plan = DOMAIN positions
      /\ \A j \in DOMAIN positions : j # i => plan[j] = positions[j]
  BY <1>1
<1>3. SameOutside(positions, plan, i, i)
  <2>1. \A j \in Nat : j \notin i .. i => j # i
    BY <1>1
  <2> HIDE DEF plan
  <2>2. QED
    BY <1>2, <2>1 DEF SameOutside
<1>4. DrawCommandPath(plan, i, i)
  OBVIOUS
<1> HIDE DEF plan
<1>5. QED
  BY <1>1, <1>2, <1>3, <1>4, DrawKeepsInv

LEMMA AddKeepsInv ==
  ASSUME PathInv, NEW pos \in SomePositions, AddCommand(pos)
  PROVE  PathInv'
<1> DEFINE n == Len(positions)
           plan == Append(positions, pos)
<1>1. positions \in Seq(SomePositions) /\ n \in Nat /\ n + 1 \in Nat \ {0}
      /\ n + 1 <= (n + 1) + 1 /\ DOMAIN positions = 1 .. n
  BY DEF PathInv
<1>2. /\ plan \in Seq(SomePositions) /\ DOMAIN plan = 1 .. n + 1
      /\ \A j \in 1 .. n : plan[j] = positions[j]
  BY <1>1
<1>3. DrawCommandPath(plan, n + 1, n + 1)
  BY DEF AddCommand
<1> HIDE DEF plan, n
<1>4. SameOutside(positions, plan, n + 1, n + 1)
  <2>1. \A j \in Nat : j \notin n + 1 .. n + 1 => (j \in 1 .. n <=> j \in 1 .. n + 1)
    BY <1>1
  <2>2. QED
    BY <1>1, <1>2, <2>1 DEF SameOutside
<1>5. QED
  BY <1>1, <1>2, <1>3, <1>4, DrawKeepsInv

LEMMA DeleteKeepsInv ==
  ASSUME PathInv, NEW i \in DOMAIN positions, DeleteCommand(i)
  PROVE  PathInv'
<1> DEFINE n == Len(positions)
           plan == RemoveAt(positions, i)
<1>1. positions \in Seq(SomePositions) /\ n \in Nat /\ DOMAIN positions = 1 .. n
      /\ i \in Nat \ {0} /\ i <= n
  BY DEF PathInv
<1>2. plan \in Seq(SomePositions) /\ IsRemoved(plan, positions, i)
  BY <1>1, Removed
<1>3. DrawCommandPath(plan, i, n)
  BY DEF DeleteCommand
<1> HIDE DEF plan
<1>4. DOMAIN plan = 1 .. n - 1 /\ \A j \in 1 .. n - 1 : j < i => plan[j] = positions[j]
  BY <1>2 DEF IsRemoved
<1> HIDE DEF n
<1>5. SameOutside(positions, plan, i, n)
  <2>1. ASSUME NEW j \in Nat, j \notin i .. n
        PROVE  /\ j \in 1 .. n <=> j \in 1 .. n - 1
               /\ j \in 1 .. n => j \in 1 .. n - 1 /\ j < i
    BY <1>1, <2>1
  <2>2. QED
    BY <1>1, <1>4, <2>1 DEF SameOutside
<1>6. QED
  BY <1>1, <1>2, <1>3, <1>5, DrawKeepsInv

\* The smaller and the larger of two.
LEMMA OfTwo ==
  ASSUME NEW a \in Nat, NEW b \in Nat
  PROVE  /\ Min({a, b}) = IF a <= b THEN a ELSE b
         /\ Max({a, b}) = IF a <= b THEN b ELSE a
<1>1. Min({a, b}) \in {a, b} /\ Min({a, b}) <= a /\ Min({a, b}) <= b
  BY LeastOf
<1>2. Max({a, b}) \in {a, b} /\ Max({a, b}) >= a /\ Max({a, b}) >= b
  <2>1. \E x \in {a, b} : \A y \in {a, b} : x >= y
    OBVIOUS
  <2>2. QED
    BY <2>1 DEF Max
<1>3. QED
  BY <1>1, <1>2

LEMMA SortKeepsInv ==
  ASSUME PathInv, NEW i \in DOMAIN positions, NEW j \in DOMAIN positions,
         OnSortEnd(i, j)
  PROVE  PathInv'
<1> DEFINE n == Len(positions)
           less == RemoveAt(positions, i)
           plan == InsertAt(less, j, positions[i])
           start == Min({i, j})
           end == Max({i, j})
<1>1. positions \in Seq(SomePositions) /\ n \in Nat /\ DOMAIN positions = 1 .. n
      /\ i \in Nat \ {0} /\ i <= n /\ j \in Nat \ {0} /\ j <= n
      /\ positions[i] \in SomePositions
  BY DEF PathInv
<1>2. less \in Seq(SomePositions) /\ IsRemoved(less, positions, i)
  BY <1>1, Removed
<1>3. DrawCommandPath(plan, start, end)
  BY DEF OnSortEnd
<1>4. /\ start = (IF i <= j THEN i ELSE j) /\ end = (IF i <= j THEN j ELSE i)
  BY <1>1, OfTwo
<1> HIDE DEF less, start, end
<1>5. Len(less) = n - 1 /\ j \in 1 .. Len(less) + 1
  BY <1>1, <1>2 DEF IsRemoved
<1>6. plan \in Seq(SomePositions) /\ IsInserted(plan, less, j, positions[i])
  BY <1>1, <1>2, <1>5, Inserted
<1> HIDE DEF plan
<1>7. /\ DOMAIN plan = 1 .. n
      /\ \A k \in 1 .. n : /\ k < j => plan[k] = less[k]
                           /\ k > j => plan[k] = less[k - 1]
      /\ \A k \in 1 .. n - 1 : /\ k < i => less[k] = positions[k]
                               /\ k >= i => less[k] = positions[k + 1]
  <2>1. /\ Len(less) = n - 1 /\ \A k \in 1 .. n - 1 :
             /\ k < i => less[k] = positions[k]
             /\ k >= i => less[k] = positions[k + 1]
    BY <1>2 DEF IsRemoved
  <2>2. Len(less) + 1 = n
    BY <1>1, <1>5
  <2>3. /\ DOMAIN plan = 1 .. Len(less) + 1
        /\ \A k \in 1 .. Len(less) + 1 : /\ k < j => plan[k] = less[k]
                                         /\ k > j => plan[k] = less[k - 1]
    BY <1>6 DEF IsInserted
  <2> HIDE DEF n
  <2>4. /\ DOMAIN plan = 1 .. n
        /\ \A k \in 1 .. n : /\ k < j => plan[k] = less[k]
                             /\ k > j => plan[k] = less[k - 1]
    <3>1. 1 .. Len(less) + 1 = 1 .. n
      BY <2>2
    <3> DEFINE s == 1 .. Len(less) + 1
    <3>2. /\ DOMAIN plan = s
          /\ \A k \in s : /\ k < j => plan[k] = less[k]
                          /\ k > j => plan[k] = less[k - 1]
      BY <2>3
    <3>3. s = 1 .. n
      BY <3>1
    <3> HIDE DEF s
    <3>4. QED
      BY <3>2, <3>3
  <2>5. QED
    BY <2>1, <2>4
<1> HIDE DEF n
<1>8. SameOutside(positions, plan, start, end)
  <2>1. ASSUME NEW k \in 1 .. n, k \notin start .. end
        PROVE  plan[k] = positions[k]
    <3>1. CASE k < i /\ k < j
      <4>1. k \in 1 .. n - 1
        BY <1>1, <3>1
      <4>2. QED
        BY <1>7, <3>1, <4>1
    <3>2. CASE k > i /\ k > j
      <4>1. k - 1 \in 1 .. n - 1 /\ k - 1 >= i /\ (k - 1) + 1 = k
        BY <1>1, <3>2
      <4>2. QED
        BY <1>7, <3>2, <4>1
    <3>3. QED
      BY <1>1, <1>4, <2>1, <3>1, <3>2
  <2>2. QED
    BY <1>1, <1>7, <2>1 DEF SameOutside
<1>9. start \in Nat \ {0} /\ end \in Nat /\ start <= end + 1
  BY <1>1, <1>4
<1>10. QED
  BY <1>3, <1>6, <1>8, <1>9, DrawKeepsInv

LEMMA WholeKeepsInv ==
  ASSUME PathInv, NEW plan \in Seq(SomePositions), WholePlan(plan)
  PROVE  PathInv'
<1> DEFINE n == Len(positions)
           k == Len(plan)
           end == Max({k, Len(markers)})
<1>1. positions \in Seq(SomePositions) /\ n \in Nat /\ k \in Nat
      /\ DOMAIN positions = 1 .. n /\ DOMAIN plan = 1 .. k
  BY DEF PathInv
<1>2. Len(markers) = n
  BY DEF PathInv
<1>3. end \in Nat /\ end >= n /\ end >= k
  <2>1. end = IF k <= n THEN n ELSE k
    <3> HIDE DEF n, k
    <3>1. QED
      BY <1>1, <1>2, OfTwo
  <2> HIDE DEF n, k, end
  <2>2. QED
    BY <1>1, <2>1
<1>4. DrawCommandPath(plan, 1, end)
  BY DEF WholePlan, DrawAll
<1> HIDE DEF end, n, k
<1>5. SameOutside(positions, plan, 1, end)
  BY <1>1, <1>3 DEF SameOutside
<1>6. end \in Nat /\ 1 <= end + 1
  BY <1>1, <1>3
<1>7. QED
  BY <1>4, <1>5, <1>6, DrawKeepsInv

LEMMA PathStepKeepsInv ==
  ASSUME PathInv, [BoundedNext]_pathVars
  PROVE  PathInv'
<1>1. positions \in Seq(SomePositions)
  BY DEF PathInv
<1>2. ASSUME NEW pos \in Positions \cup {NoPosition}, AddCommand(pos)
      PROVE  PathInv'
  BY <1>2, AddKeepsInv DEF SomePositions
<1>3. ASSUME NEW pos \in Positions \cup {NoPosition}, NEW i \in DOMAIN positions,
             ChangeCommand(i, pos)
      PROVE  PathInv'
  BY <1>3, OneCommandChanges DEF ChangeCommand, SomePositions
<1>4. ASSUME NEW i \in DOMAIN positions, DeleteCommand(i) PROVE PathInv'
  BY <1>4, DeleteKeepsInv
<1>5. ASSUME NEW i \in DOMAIN positions, NEW j \in DOMAIN positions, OnSortEnd(i, j)
      PROVE  PathInv'
  BY <1>5, SortKeepsInv
<1>6. ASSUME NEW m \in map.markers, NEW pos \in Positions, DragEnd(m, pos)
      PROVE  PathInv'
  <2>1. PICK i \in Placed(positions) : m = [index |-> i, pos |-> positions[i]]
    BY DEF PathInv, MarkersOf
  <2>2. m.index \in DOMAIN positions
    BY <2>1 DEF Placed
  <2>3. QED
    BY <1>6, <2>2, OneCommandChanges DEF DragEnd, SomePositions
<1>7. ASSUME NEW plan \in {<<>>, Reverse(positions)}, WholePlan(plan) PROVE PathInv'
  <2>1. Reverse(positions) \in Seq(SomePositions)
    BY <1>1 DEF Reverse
  <2>2. <<>> \in Seq(SomePositions)
    OBVIOUS
  <2>3. QED
    BY <1>7, <2>1, <2>2, WholeKeepsInv
<1>8. CASE UNCHANGED pathVars
  BY <1>8 DEF pathVars, PathInv
<1>9. QED
  BY <1>2, <1>3, <1>4, <1>5, <1>6, <1>7, <1>8 DEF BoundedNext, PathNext

LEMMA PathStarts == PathInit => PathInv
<1> SUFFICES ASSUME PathInit PROVE PathInv
  OBVIOUS
<1>1. Placed(positions) = {} /\ DOMAIN positions = {} /\ positions \in Seq(SomePositions)
  BY DEF PathInit, Placed
<1>2. QED
  BY <1>1 DEF PathInit, PathInv, MarkersOf, LinesOf

LEMMA InvGivesPath == PathInv => MarkersAreThePlan /\ PathFollowsThePlan
<1> SUFFICES ASSUME PathInv PROVE MarkersAreThePlan /\ PathFollowsThePlan
  OBVIOUS
<1>1. MarkersAreThePlan
  BY DEF PathInv, MarkersOf, MarkersAreThePlan
<1>2. ASSUME ~firstChanged PROVE PathIsThePlan
  <2>1. LinesOf(positions, commands_path, map.lines)
    BY <1>2 DEF PathInv
  <2> DEFINE ends == {i \in DOMAIN positions : HasLine(positions, i)}
  <2>2. map.lines = {commands_path[i] : i \in ends}
        /\ \A i \in ends : IsLine(commands_path[i], positions, i)
    BY <2>1 DEF LinesOf
  <2>3. ends = {i \in Placed(positions) : PlacedBefore(positions, i) # {}}
    BY DEF HasLine, Placed
  <2>4. Lines(positions) = {<<Previous(positions, i), positions[i]>> : i \in ends}
    BY <2>3 DEF Lines
  <2>5. \A i \in ends : i \in DOMAIN commands_path
    BY DEF PathInv
  <2> HIDE DEF ends
  <2>6. \A i \in ends : /\ commands_path[i].from = Previous(positions, i)
                        /\ commands_path[i].to = positions[i]
    BY <2>2 DEF IsLine
  <2>7. {<<l.from, l.to>> : l \in map.lines}
          = {<<commands_path[i].from, commands_path[i].to>> : i \in ends}
    BY <2>2
  <2>8. {<<l.from, l.to>> : l \in map.lines} = Lines(positions)
    BY <2>4, <2>6, <2>7
  <2>9. map.lines \subseteq ToSet(commands_path)
    BY <2>2, <2>5 DEF ToSet
  <2>10. QED
    BY <2>8, <2>9 DEF PathIsThePlan
<1>3. QED
  BY <1>1, <1>2 DEF PathFollowsThePlan

\* The map shows the markers of the plan, and its lines until the first
\* command with a position is another one.
THEOREM PathShowsThePlan == PathSpec => [](MarkersAreThePlan /\ PathFollowsThePlan)
<1>1. PathInv /\ [BoundedNext]_pathVars => PathInv'
  BY PathStepKeepsInv
<1>2. QED
  BY <1>1, PathStarts, InvGivesPath, PTL DEF PathSpec

\* However it changes, a plan is not longer than its bound.
LEMMA PlansStayShort ==
  ASSUME PathAssumption, PathInv, Len(positions) <= MaxPlan,
         [BoundedNext]_pathVars
  PROVE  Len(positions') <= MaxPlan
<1> DEFINE n == Len(positions)
<1>1. /\ positions \in Seq(SomePositions) /\ n \in Nat
      /\ DOMAIN positions = 1 .. n /\ MaxPlan \in Nat
  BY DEF PathInv, PathAssumption
<1>2. ASSUME NEW plan, NEW start, NEW end, DrawCommandPath(plan, start, end)
      PROVE  positions' = plan
  BY <1>2 DEF DrawCommandPath
<1>3. ASSUME NEW pos \in Positions \cup {NoPosition}, AddCommand(pos)
      PROVE  Len(positions') <= MaxPlan
  <2>1. pos \in SomePositions /\ n + 1 <= MaxPlan
        /\ positions' = Append(positions, pos)
    BY <1>2, <1>3 DEF AddCommand, SomePositions
  <2>2. Len(Append(positions, pos)) = n + 1
    BY <1>1, <2>1
  <2>3. QED
    BY <2>1, <2>2
<1>4. ASSUME NEW i \in DOMAIN positions, NEW pos
      PROVE  Len([positions EXCEPT ![i] = pos]) = n
  BY <1>1
<1>5. ASSUME NEW pos, NEW i \in DOMAIN positions, ChangeCommand(i, pos)
      PROVE  Len(positions') <= MaxPlan
  <2>1. positions' = [positions EXCEPT ![i] = pos]
    BY <1>2, <1>5 DEF ChangeCommand
  <2>2. QED
    BY <1>4, <2>1
<1>6. ASSUME NEW i \in DOMAIN positions, DeleteCommand(i)
      PROVE  Len(positions') <= MaxPlan
  <2>1. positions' = RemoveAt(positions, i)
    BY <1>2, <1>6 DEF DeleteCommand
  <2>2. Len(RemoveAt(positions, i)) = n - 1
    BY <1>1, Removed DEF IsRemoved
  <2>3. QED
    BY <1>1, <2>1, <2>2
<1>7. ASSUME NEW i \in DOMAIN positions, NEW j \in DOMAIN positions,
             OnSortEnd(i, j)
      PROVE  Len(positions') <= MaxPlan
  <2> DEFINE less == RemoveAt(positions, i)
             plan == InsertAt(less, j, positions[i])
  <2>1. positions' = plan
    BY <1>2, <1>7 DEF OnSortEnd
  <2>2. less \in Seq(SomePositions) /\ Len(less) = n - 1
    BY <1>1, Removed DEF IsRemoved
  <2>3. j \in 1 .. Len(less) + 1 /\ positions[i] \in SomePositions
    BY <1>1, <2>2
  <2> HIDE DEF less
  <2>4. plan \in Seq(SomePositions)
        /\ IsInserted(plan, less, j, positions[i])
    BY <2>2, <2>3, Inserted
  <2> HIDE DEF plan
  <2>5. DOMAIN plan = 1 .. n
    BY <1>1, <2>2, <2>4 DEF IsInserted
  <2>6. Len(plan) = n
    BY <1>1, <2>4, <2>5
  <2>7. QED
    BY <2>1, <2>6
<1>8. ASSUME NEW m \in map.markers, NEW pos, DragEnd(m, pos)
      PROVE  Len(positions') <= MaxPlan
  <2>1. m.index \in DOMAIN positions
    BY <1>8 DEF PathInv, MarkersOf, Placed
  <2>2. positions' = [positions EXCEPT ![m.index] = pos]
    BY <1>2, <1>8 DEF DragEnd
  <2>3. QED
    BY <1>4, <2>1, <2>2
<1>9. ASSUME NEW plan \in {<<>>, Reverse(positions)}, WholePlan(plan)
      PROVE  Len(positions') <= MaxPlan
  <2>1. positions' = plan
    BY <1>2, <1>9 DEF WholePlan, DrawAll
  <2>2. Len(<<>>) = 0 /\ Len(Reverse(positions)) = n
    BY <1>1 DEF Reverse
  <2>3. QED
    BY <1>1, <1>9, <2>1, <2>2
<1>10. CASE UNCHANGED pathVars
  BY <1>10 DEF pathVars
<1>11. QED
  BY <1>3, <1>5, <1>6, <1>7, <1>8, <1>9, <1>10 DEF BoundedNext, PathNext

\* The map's tables are as long as the plan, which keeps to its bound, and no
\* marker on the map is of a command that the plan does not have.
THEOREM PathTypeCorrect ==
  ASSUME PathAssumption
  PROVE  PathSpec => []PathTypeOK
<1> DEFINE Short == Len(positions) <= MaxPlan
<1>1. PathInit => PathInv /\ Short
  BY PathStarts DEF PathInit, PathAssumption
<1>2. PathInv /\ Short /\ [BoundedNext]_pathVars => PathInv' /\ Short'
  BY PathStepKeepsInv, PlansStayShort
<1>3. PathInv /\ Short => PathTypeOK
  <2> SUFFICES ASSUME PathInv, Len(positions) <= MaxPlan PROVE PathTypeOK
    OBVIOUS
  <2>1. positions \in Seq(SomePositions)
    BY DEF PathInv
  <2>2. Len(positions) \in 0 .. MaxPlan
        /\ positions \in [1 .. Len(positions) -> SomePositions]
    BY <2>1 DEF PathAssumption
  <2>3. positions \in BoundedSeq(SomePositions, MaxPlan)
    BY <2>2 DEF BoundedSeq, SeqOf
  <2>4. \A m \in map.markers : m.index \in DOMAIN positions
    BY DEF PathInv, MarkersOf, Placed
  <2>5. QED
    BY <2>3, <2>4 DEF PathInv, PathTypeOK, SomePositions
<1>4. QED
  BY <1>1, <1>2, <1>3, PTL DEF PathSpec

-----------------------------------------------------------------------------
(* The field: sums over the edges of a zone.                               *)

\* f holds what a loop with that step has computed after i of its turns.
Computes(f, n, start, step, values) ==
  /\ f \in [0 .. n -> values] /\ f[0] = start
  /\ \A i \in 1 .. n : f[i] = step[<<f[i - 1], i>>]

\* A loop computes something, whatever its step does.
LEMMA LoopsCompute ==
  ASSUME NEW values, NEW start \in values, NEW n \in Nat,
         NEW step \in [values \X (1 .. n) -> values]
  PROVE  \E f : Computes(f, n, start, step, values)
<1> DEFINE T == {k \in Nat : k <= n => \E f : Computes(f, k, start, step, values)}
<1>1. 0 \in T
  <2>1. Computes([i \in 0 .. 0 |-> start], 0, start, step, values)
    BY DEF Computes
  <2>2. QED
    BY <2>1
<1>2. ASSUME NEW k \in Nat, k \in T PROVE k + 1 \in T
  <2>1. SUFFICES ASSUME k + 1 <= n
                 PROVE  \E f : Computes(f, k + 1, start, step, values)
    OBVIOUS
  <2>2. PICK f : Computes(f, k, start, step, values)
    BY <1>2, <2>1
  <2> DEFINE next == step[<<f[k], k + 1>>]
             g == [i \in 0 .. k + 1 |-> IF i = k + 1 THEN next ELSE f[i]]
  <2>3. f \in [0 .. k -> values] /\ next \in values
    BY <2>1, <2>2 DEF Computes
  <2>4. g \in [0 .. k + 1 -> values] /\ g[0] = start
    BY <2>2, <2>3 DEF Computes
  <2>5. ASSUME NEW i \in 1 .. k + 1 PROVE g[i] = step[<<g[i - 1], i>>]
    <3>1. CASE i = k + 1
      <4>1. g[i] = next /\ g[i - 1] = f[k]
        BY <3>1
      <4>2. QED
        BY <4>1, <3>1
    <3>2. CASE i # k + 1
      <4>1. i \in 1 .. k /\ i - 1 \in 0 .. k
        BY <3>2
      <4>2. g[i] = f[i] /\ g[i - 1] = f[i - 1]
        BY <4>1
      <4>3. f[i] = step[<<f[i - 1], i>>]
        BY <2>2, <4>1 DEF Computes
      <4>4. QED
        BY <4>2, <4>3
    <3>3. QED
      BY <3>1, <3>2
  <2>6. Computes(g, k + 1, start, step, values)
    <3> HIDE DEF g
    <3>1. QED
      BY <2>4, <2>5 DEF Computes
  <2>7. QED
    BY <2>6
<1>3. Nat \subseteq T
  <2> HIDE DEF T
  <2>1. QED
    BY <1>1, <1>2, NaturalsFromZero
<1>4. QED
  BY <1>3

\* g adds up the first of the numbers of e.
Adds(g, n, e) ==
  /\ g \in [0 .. n -> Int] /\ g[0] = 0
  /\ \A i \in 1 .. n : g[i] = g[i - 1] + e[i]

LEMMA SumsExist ==
  ASSUME NEW n \in Nat, NEW e \in [1 .. n -> Int]
  PROVE  \E g : Adds(g, n, e)
<1> DEFINE step == [q \in Int \X (1 .. n) |-> q[1] + e[q[2]]]
<1>1. step \in [Int \X (1 .. n) -> Int] /\ 0 \in Int
  OBVIOUS
<1>2. PICK g : Computes(g, n, 0, step, Int)
  <2> HIDE DEF step
  <2>1. QED
    BY <1>1, LoopsCompute, Zenon
<1>3. ASSUME NEW i \in 1 .. n PROVE g[i] = g[i - 1] + e[i]
  <2>1. g[i] = step[<<g[i - 1], i>>]
    <3> HIDE DEF step
    <3>1. QED
      BY <1>2 DEF Computes
  <2>2. g[i - 1] \in Int
    <3> HIDE DEF step
    <3>1. i - 1 \in 0 .. n
      OBVIOUS
    <3>2. QED
      BY <1>2, <3>1 DEF Computes
  <2>3. QED
    BY <2>1, <2>2
<1>4. Adds(g, n, e)
  BY <1>2, <1>3 DEF Computes, Adds
<1>5. QED
  BY <1>4

Planar == Seq(Int \X Int)

LEMMA SmallRemainder ==
  ASSUME NEW n \in Nat, NEW i \in Nat, i < n
  PROVE  i % n = i
<1>1. i % n \in 0 .. n - 1
  OBVIOUS
<1>2. i = n * (i \div n) + (i % n)
  OBVIOUS
<1>3. i \div n \in Int
  OBVIOUS
<1>4. ASSUME NEW q \in Int, NEW r \in 0 .. n - 1, i = n * q + r PROVE r = i
  <2>1. CASE q <= -1
    <3>1. n * q <= n * (-1)
      BY <2>1
    <3>2. QED
      BY <3>1, <1>4
  <2>2. CASE q = 0
    BY <1>4, <2>2
  <2>3. CASE q >= 1
    <3>1. n * q >= n * 1
      BY <2>3
    <3>2. QED
      BY <3>1, <1>4
  <2>4. QED
    BY <2>1, <2>2, <2>3
<1>5. QED
  BY <1>1, <1>2, <1>3, <1>4

\* The corner after the i-th, and what the edge to it adds.
After(v, i) == (i % Len(v)) + 1
Edges(v) == [i \in 1 .. Len(v) |-> Edge(v[i], v[After(v, i)])]

LEMMA EdgesAreIntegers ==
  ASSUME NEW v \in Planar
  PROVE  Edges(v) \in [1 .. Len(v) -> Int]
<1>1. ASSUME NEW i \in 1 .. Len(v) PROVE After(v, i) \in 1 .. Len(v)
  BY DEF Planar, After
<1>2. ASSUME NEW p \in Int \X Int, NEW q \in Int \X Int PROVE Edge(p, q) \in Int
  BY DEF Edge, Lng, Lat
<1>3. ASSUME NEW i \in 1 .. Len(v) PROVE Edge(v[i], v[After(v, i)]) \in Int
  <2>1. v[i] \in Int \X Int /\ v[After(v, i)] \in Int \X Int
    BY <1>1 DEF Planar
  <2>2. QED
    BY <2>1, <1>2
<1>4. QED
  BY <1>3 DEF Edges

LEMMA ShoelaceAdds ==
  ASSUME NEW v \in Planar
  PROVE  \E g : Adds(g, Len(v), Edges(v)) /\ Shoelace(v) = g[Len(v)]
<1> DEFINE n == Len(v)
           J(g) == g = [i \in 0 .. Len(v) |->
                         IF i = 0 THEN 0
                         ELSE g[i - 1] + Edge(v[i], v[(i % Len(v)) + 1])]
           s == CHOOSE g : J(g)
<1>1. n \in Nat /\ Edges(v) \in [1 .. n -> Int]
  BY EdgesAreIntegers DEF Planar
<1>2. \A i \in 1 .. n : Edges(v)[i] = Edge(v[i], v[(i % Len(v)) + 1])
  BY DEF Edges, After
<1>3. \E g : J(g)
  <2>1. PICK g : Adds(g, n, Edges(v))
    BY <1>1, SumsExist
  <2>2. J(g)
    BY <2>1, <1>1, <1>2 DEF Adds
  <2> HIDE DEF J
  <2>3. QED
    BY <2>2
<1>4. J(s)
  <2> HIDE DEF J
  <2>1. QED
    BY <1>3
<1>5. Shoelace(v) = s[Len(v)]
  BY Zenon DEF Shoelace
<1>6. Adds(s, n, Edges(v))
  <2> HIDE DEF s
  <2> DEFINE T == {i \in Nat : i <= n => s[i] \in Int}
  <2>1. s[0] = 0 /\ DOMAIN s = 0 .. n
    BY <1>1, <1>4
  <2>2. ASSUME NEW i \in 1 .. n PROVE s[i] = s[i - 1] + Edges(v)[i]
    <3>1. i \in 0 .. Len(v) /\ i # 0
      BY <1>1
    <3>2. s = [j \in 0 .. Len(v) |->
                 IF j = 0 THEN 0
                 ELSE s[j - 1] + Edge(v[j], v[(j % Len(v)) + 1])]
      BY <1>4, Zenon
    <3>3. s[i] = s[i - 1] + Edge(v[i], v[(i % Len(v)) + 1])
      BY <3>1, <3>2, Zenon
    <3>4. QED
      BY <3>3, <1>2
  <2>3. ASSUME NEW i \in Nat, i \in T PROVE i + 1 \in T
    <3>1. SUFFICES ASSUME i + 1 <= n PROVE s[i + 1] \in Int
      OBVIOUS
    <3>2. i + 1 \in 1 .. n /\ (i + 1) - 1 = i /\ s[i] \in Int
      BY <2>3, <3>1, <1>1
    <3>3. s[i + 1] = s[i] + Edges(v)[i + 1] /\ Edges(v)[i + 1] \in Int
      BY <2>2, <3>2, <1>1
    <3>4. QED
      BY <3>2, <3>3
  <2>4. Nat \subseteq T
    <3>1. 0 \in T
      BY <2>1
    <3> HIDE DEF T
    <3>2. QED
      BY <3>1, <2>3, NaturalsFromZero
  <2>5. s \in [0 .. n -> Int]
    <3>1. \A i \in 0 .. n : s[i] \in Int
      BY <2>4, <1>1
    <3>2. s = [i \in 0 .. n |-> s[i]]
      BY <1>4
    <3>3. QED
      BY <3>1, <3>2
  <2>6. QED
    BY <2>1, <2>2, <2>5 DEF Adds
<1>7. QED
  <2> HIDE DEF s
  <2>1. QED
    BY <1>5, <1>6

\* A triangle of the fan: it has the first corner and two that follow.
Cross(v, i) == (Lng(v[i]) - Lng(v[1])) * (Lat(v[i + 1]) - Lat(v[1]))
               - (Lng(v[i + 1]) - Lng(v[1])) * (Lat(v[i]) - Lat(v[1]))

\* f holds the area of the fan after each of its corners.
Fans(f, v) ==
  /\ f \in [1 .. Len(v) -> Int] /\ f[1] = 0
  /\ \A i \in 2 .. Len(v) :
       f[i] = f[i - 1] + IF i = Len(v) THEN 0 ELSE Cross(v, i)

LEMMA CrossIsAnInteger ==
  ASSUME NEW v \in Planar, NEW i \in 1 .. Len(v), i # Len(v)
  PROVE  Cross(v, i) \in Int
<1>1. /\ v[1] \in Int \X Int /\ v[i] \in Int \X Int
      /\ v[i + 1] \in Int \X Int
  BY DEF Planar
<1>2. ASSUME NEW p \in Int \X Int PROVE Lng(p) \in Int /\ Lat(p) \in Int
  BY DEF Lng, Lat
<1>3. /\ Lng(v[1]) \in Int /\ Lat(v[1]) \in Int /\ Lng(v[i]) \in Int
      /\ Lat(v[i]) \in Int /\ Lng(v[i + 1]) \in Int /\ Lat(v[i + 1]) \in Int
  BY <1>1, <1>2
<1>4. QED
  BY <1>3 DEF Cross

LEMMA FanAdds ==
  ASSUME NEW v \in Planar, Len(v) # 0
  PROVE  \E f : Fans(f, v) /\ FanArea(v) = f[Len(v)]
<1> DEFINE n == Len(v)
           C(i) == (Lng(v[i]) - Lng(v[1])) * (Lat(v[i + 1]) - Lat(v[1]))
                   - (Lng(v[i + 1]) - Lng(v[1])) * (Lat(v[i]) - Lat(v[1]))
           J(f) == f = [i \in 1 .. Len(v) |->
                         IF i = 1 THEN 0 ELSE IF i = Len(v) THEN f[i - 1]
                         ELSE f[i - 1] + C(i)]
           s == CHOOSE f : J(f)
           e == [i \in 1 .. n - 1 |-> IF i + 1 = n THEN 0 ELSE Cross(v, i + 1)]
<1>1. n \in Nat /\ n >= 1 /\ v # <<>>
  BY DEF Planar
<1>2. \A i \in 1 .. n : i # n => Cross(v, i) \in Int
  BY CrossIsAnInteger
<1>3. \A i : C(i) = Cross(v, i)
  BY DEF Cross
<1>4. \E f : J(f)
  <2>1. e \in [1 .. n - 1 -> Int] /\ n - 1 \in Nat
    <3>1. ASSUME NEW i \in 1 .. n - 1, i + 1 # n PROVE Cross(v, i + 1) \in Int
      <4>1. i + 1 \in 1 .. n
        BY <1>1
      <4>2. QED
        BY <4>1, <3>1, <1>2
    <3>2. QED
      BY <3>1, <1>1
  <2>2. PICK g : Adds(g, n - 1, e)
    <3> HIDE DEF e
    <3>1. QED
      BY <2>1, SumsExist
  <2> DEFINE f == [i \in 1 .. n |-> g[i - 1]]
             h == [i \in 1 .. Len(v) |->
                    IF i = 1 THEN 0 ELSE IF i = Len(v) THEN f[i - 1]
                    ELSE f[i - 1] + C(i)]
  <2>3. ASSUME NEW i \in 1 .. n PROVE f[i] = h[i]
    <3>1. CASE i = 1
      <4>1. h[i] = 0 /\ f[i] = g[0]
        BY <3>1
      <4>2. QED
        BY <4>1, <2>2 DEF Adds
    <3>2. CASE i # 1
      <4>1. /\ i - 1 \in 1 .. n - 1 /\ i - 1 \in 1 .. n /\ (i - 1) + 1 = i
            /\ i - 1 \in 0 .. n - 1 /\ (i - 1) - 1 \in 0 .. n - 1
        BY <3>2, <1>1
      <4>2. g[i - 1] = g[(i - 1) - 1] + e[i - 1] /\ g[(i - 1) - 1] \in Int
        <5> HIDE DEF e
        <5>1. QED
          BY <2>2, <4>1 DEF Adds
      <4>3. f[i] = g[i - 1] /\ f[i - 1] = g[(i - 1) - 1]
        BY <4>1
      <4>4. e[i - 1] = IF i = n THEN 0 ELSE Cross(v, i)
        BY <4>1
      <4>5. h[i] = IF i = n THEN f[i - 1] ELSE f[i - 1] + C(i)
        BY <3>2
      <4> HIDE DEF C, f, h, e
      <4>6. QED
        BY <4>2, <4>3, <4>4, <4>5, <1>3
    <3>3. QED
      BY <3>1, <3>2
  <2>4. J(f)
    <3>1. f = [i \in 1 .. n |-> f[i]] /\ h = [i \in 1 .. n |-> h[i]]
      OBVIOUS
    <3>2. f = h
      <4> HIDE DEF f, h
      <4>1. QED
        BY <3>1, <2>3
    <3>3. QED
      BY <3>2, Zenon
  <2> HIDE DEF J
  <2>5. QED
    BY <2>4
<1>5. J(s)
  <2> HIDE DEF J
  <2>1. QED
    BY <1>4
<1>6. FanArea(v) = s[Len(v)]
  BY <1>1, Zenon DEF FanArea
<1> HIDE DEF s
<1>7. s[1] = 0 /\ DOMAIN s = 1 .. n
  BY <1>1, <1>5
<1>8. ASSUME NEW i \in 2 .. n
      PROVE  s[i] = IF i = n THEN s[i - 1] ELSE s[i - 1] + Cross(v, i)
  <2>1. i \in 1 .. Len(v) /\ i # 1
    BY <1>1
  <2>2. s = [j \in 1 .. Len(v) |->
               IF j = 1 THEN 0 ELSE IF j = Len(v) THEN s[j - 1]
               ELSE s[j - 1] + C(j)]
    BY <1>5, Zenon
  <2>3. s[i] = IF i = Len(v) THEN s[i - 1] ELSE s[i - 1] + C(i)
    BY <2>1, <2>2, Zenon
  <2>4. QED
    BY <2>3, <1>3, Zenon
<1>9. \A i \in 1 .. n : s[i] \in Int
  <2> DEFINE T == {i \in Nat : i + 1 <= n => s[i + 1] \in Int}
  <2>1. 0 \in T
    BY <1>7
  <2>2. ASSUME NEW i \in Nat, i \in T PROVE i + 1 \in T
    <3>1. SUFFICES ASSUME (i + 1) + 1 <= n PROVE s[(i + 1) + 1] \in Int
      OBVIOUS
    <3>2. /\ (i + 1) + 1 \in 2 .. n /\ ((i + 1) + 1) - 1 = i + 1
          /\ s[i + 1] \in Int /\ (i + 1) + 1 \in 1 .. n
      BY <2>2, <3>1, <1>1
    <3>3. s[(i + 1) + 1] = IF (i + 1) + 1 = n THEN s[i + 1]
                           ELSE s[i + 1] + Cross(v, (i + 1) + 1)
      BY <1>8, <3>2
    <3>4. (i + 1) + 1 # n => Cross(v, (i + 1) + 1) \in Int
      BY <1>2, <3>2
    <3>5. QED
      BY <3>2, <3>3, <3>4
  <2>3. Nat \subseteq T
    <3> HIDE DEF T
    <3>1. QED
      BY <2>1, <2>2, NaturalsFromZero
  <2>4. ASSUME NEW i \in 1 .. n PROVE s[i] \in Int
    <3>1. i - 1 \in Nat /\ (i - 1) + 1 = i /\ i <= n
      BY <1>1
    <3>2. i - 1 \in T
      BY <3>1, <2>3
    <3>3. QED
      BY <3>1, <3>2
  <2>5. QED
    BY <2>4
<1>10. s \in [1 .. n -> Int]
  <2>1. s = [i \in 1 .. n |-> s[i]]
    BY <1>5
  <2>2. QED
    BY <2>1, <1>9
<1>11. Fans(s, v)
  <2>1. ASSUME NEW i \in 2 .. n
        PROVE  s[i] = s[i - 1] + IF i = n THEN 0 ELSE Cross(v, i)
    <3>1. s[i - 1] \in Int
      BY <1>9
    <3>2. QED
      BY <3>1, <1>8
  <2>2. QED
    BY <2>1, <1>10, <1>7 DEF Fans
<1>12. QED
  BY <1>6, <1>11

LEMMA EdgeTelescopes ==
  ASSUME NEW p \in Int \X Int, NEW q \in Int \X Int, NEW r \in Int \X Int
  PROVE  (Lng(q) - Lng(p)) * (Lat(r) - Lat(p))
           - (Lng(r) - Lng(p)) * (Lat(q) - Lat(p))
         = Edge(q, r) + Edge(r, p) - Edge(q, p)
<1>1. /\ Lng(p) \in Int /\ Lat(p) \in Int /\ Lng(q) \in Int /\ Lat(q) \in Int
      /\ Lng(r) \in Int /\ Lat(r) \in Int
  BY DEF Lng, Lat
<1>2. ASSUME NEW a \in Int, NEW b \in Int, NEW c \in Int, NEW d \in Int,
             NEW x \in Int, NEW y \in Int
      PROVE  (c - a) * (y - b) - (x - a) * (d - b)
             = (c * y - x * d) + (x * b - a * y) - (c * b - a * d)
  OBVIOUS
<1>3. QED
  BY <1>1, <1>2 DEF Edge

LEMMA EdgeBackwards ==
  ASSUME NEW p \in Int \X Int, NEW q \in Int \X Int
  PROVE  /\ Edge(p, q) \in Int /\ Edge(q, p) = -Edge(p, q) /\ Edge(p, p) = 0
<1>1. Lng(p) \in Int /\ Lat(p) \in Int /\ Lng(q) \in Int /\ Lat(q) \in Int
  BY DEF Lng, Lat
<1>2. ASSUME NEW a \in Int, NEW b \in Int, NEW c \in Int, NEW d \in Int
      PROVE  /\ a * d - c * b \in Int /\ c * b - a * d = -(a * d - c * b)
             /\ a * b - a * b = 0
  OBVIOUS
<1>3. QED
  BY <1>1, <1>2 DEF Edge

\* What the running sum of the code has and the fan has not is the triangle
\* from the next corner back to the first and to where the axes meet.
LEMMA ShoelaceIsFan ==
  ASSUME NEW v \in Planar
  PROVE  Shoelace(v) = FanArea(v)
<1> DEFINE n == Len(v)
<1>1. n \in Nat /\ \A i \in 1 .. n : v[i] \in Int \X Int
  BY DEF Planar
<1>2. PICK g : Adds(g, n, Edges(v)) /\ Shoelace(v) = g[n]
  BY ShoelaceAdds
<1>3. CASE n = 0
  <2>1. v = <<>>
    BY <1>3 DEF Planar
  <2>2. FanArea(v) = 0
    BY <2>1 DEF FanArea
  <2>3. QED
    BY <2>2, <1>2, <1>3 DEF Adds
<1>4. CASE n # 0
  <2>1. PICK f : Fans(f, v) /\ FanArea(v) = f[n]
    BY <1>4, FanAdds
  <2>2. ASSUME NEW i \in 1 .. n, i # n PROVE Edges(v)[i] = Edge(v[i], v[i + 1])
    <3>1. After(v, i) = i + 1
      <4>1. i \in Nat /\ i < n
        BY <2>2, <1>1
      <4>2. i % n = i
        BY <4>1, <1>1, SmallRemainder
      <4>3. QED
        BY <4>2 DEF After
    <3>2. QED
      BY <3>1 DEF Edges
  <2>3. Edges(v)[n] = Edge(v[n], v[1])
    <3>1. After(v, n) = 1 /\ n \in 1 .. n
      BY <1>4, <1>1 DEF After
    <3>2. QED
      BY <3>1 DEF Edges
  <2>4. \A i \in 1 .. n : Edge(v[i], v[1]) \in Int /\ Edges(v)[i] \in Int
    <3>1. Edges(v) \in [1 .. n -> Int]
      BY EdgesAreIntegers
    <3>2. ASSUME NEW i \in 1 .. n PROVE Edge(v[i], v[1]) \in Int
      <4>1. v[i] \in Int \X Int /\ v[1] \in Int \X Int
        BY <1>1, <1>4
      <4>2. QED
        BY <4>1, EdgeBackwards
    <3>3. QED
      BY <3>1, <3>2
  <2>5. ASSUME NEW i \in 2 .. n, i # n
        PROVE  Cross(v, i)
               = Edges(v)[i] + Edge(v[i + 1], v[1]) - Edge(v[i], v[1])
    <3>1. /\ v[1] \in Int \X Int /\ v[i] \in Int \X Int
          /\ v[i + 1] \in Int \X Int
      BY <1>1, <2>5
    <3>2. Cross(v, i)
          = Edge(v[i], v[i + 1]) + Edge(v[i + 1], v[1]) - Edge(v[i], v[1])
      BY <3>1, EdgeTelescopes DEF Cross
    <3>3. i \in 1 .. n
      OBVIOUS
    <3>4. QED
      BY <3>2, <3>3, <2>2, <2>5
  <2> DEFINE T == {k \in Nat : k + 2 <= n =>
                      f[k + 1] = g[k + 1] + Edge(v[k + 2], v[1])}
  <2>6. 0 \in T
    <3>1. SUFFICES ASSUME 2 <= n PROVE f[1] = g[1] + Edge(v[2], v[1])
      OBVIOUS
    <3>2. /\ 1 \in 1 .. n /\ 1 # n /\ 1 + 1 = 2 /\ 1 - 1 = 0 /\ 2 \in 1 .. n
      BY <3>1, <1>1
    <3>3. g[1] = g[0] + Edges(v)[1] /\ g[0] = 0
      BY <1>2, <3>2 DEF Adds
    <3>4. Edges(v)[1] = Edge(v[1], v[2])
      BY <2>2, <3>2
    <3>5. Edge(v[2], v[1]) = -Edge(v[1], v[2]) /\ Edge(v[1], v[2]) \in Int
      BY <1>1, <3>2, EdgeBackwards
    <3>6. f[1] = 0
      BY <2>1 DEF Fans
    <3>7. QED
      BY <3>3, <3>4, <3>5, <3>6
  <2>7. ASSUME NEW k \in Nat, k \in T PROVE k + 1 \in T
    <3>1. SUFFICES ASSUME k + 3 <= n
                   PROVE  f[k + 2] = g[k + 2] + Edge(v[k + 3], v[1])
      OBVIOUS
    <3>2. /\ k + 2 \in 2 .. n /\ k + 2 # n /\ k + 2 \in 1 .. n
          /\ (k + 2) - 1 = k + 1 /\ (k + 2) + 1 = k + 3 /\ k + 1 \in 0 .. n
          /\ k + 2 <= n /\ k + 3 \in 1 .. n
      BY <3>1, <1>1
    <3>3. f[k + 2] = f[k + 1] + Cross(v, k + 2)
      BY <2>1, <3>2 DEF Fans
    <3>4. g[k + 2] = g[k + 1] + Edges(v)[k + 2]
      BY <1>2, <3>2 DEF Adds
    <3>5. f[k + 1] = g[k + 1] + Edge(v[k + 2], v[1])
      BY <2>7, <3>2
    <3>6. Cross(v, k + 2) = Edges(v)[k + 2] + Edge(v[k + 3], v[1])
                            - Edge(v[k + 2], v[1])
      BY <2>5, <3>2
    <3>7. /\ g[k + 1] \in Int /\ Edges(v)[k + 2] \in Int
          /\ Edge(v[k + 3], v[1]) \in Int /\ Edge(v[k + 2], v[1]) \in Int
      BY <1>2, <2>4, <3>2 DEF Adds
    <3>8. QED
      BY <3>3, <3>4, <3>5, <3>6, <3>7
  <2>8. Nat \subseteq T
    <3> HIDE DEF T
    <3>1. QED
      BY <2>6, <2>7, NaturalsFromZero
  <2>9. CASE n = 1
    <3>1. /\ f[n] = 0 /\ g[n] = g[0] + Edges(v)[n] /\ g[0] = 0
      <4>1. n \in 1 .. n /\ n - 1 = 0
        BY <2>9
      <4>2. QED
        BY <4>1, <2>9, <1>2, <2>1 DEF Adds, Fans
    <3>2. Edge(v[n], v[1]) = 0
      <4>1. v[1] \in Int \X Int
        BY <1>1, <2>9
      <4>2. QED
        BY <2>9, <4>1, EdgeBackwards
    <3>3. QED
      BY <3>1, <3>2, <2>3, <1>2, <2>1
  <2>10. CASE n # 1
    <3>1. /\ n - 2 \in Nat /\ (n - 2) + 2 = n /\ (n - 2) + 1 = n - 1
          /\ n \in 2 .. n /\ n \in 1 .. n /\ n - 1 \in 0 .. n
          /\ n - 1 \in 1 .. n
      <4>1. n \in Nat /\ n >= 2
        BY <1>1, <1>4, <2>10
      <4> HIDE DEF n
      <4>2. QED
        BY <4>1
    <3>2. n - 2 \in T
      BY <2>8, <3>1
    <3>3. f[n - 1] = g[n - 1] + Edge(v[n], v[1])
      BY <3>1, <3>2
    <3>4. f[n] = f[n - 1] + 0 /\ f[n - 1] \in Int
      BY <2>1, <3>1 DEF Fans
    <3>5. g[n] = g[n - 1] + Edges(v)[n]
      BY <1>2, <3>1 DEF Adds
    <3>6. QED
      BY <3>3, <3>4, <3>5, <2>3, <1>2, <2>1
  <2>11. QED
    BY <2>9, <2>10
<1>5. QED
  BY <1>3, <1>4

LEMMA ShoelaceOfReverse ==
  ASSUME NEW v \in Planar
  PROVE  Reverse(v) \in Planar /\ Shoelace(Reverse(v)) = -Shoelace(v)
<1> DEFINE n == Len(v)
           w == Reverse(v)
<1>1. n \in Nat /\ \A i \in 1 .. n : v[i] \in Int \X Int
  BY DEF Planar
<1>2. w = [i \in 1 .. n |-> v[(n - i) + 1]]
  BY DEF Reverse
<1>3. \A i \in 1 .. n : (n - i) + 1 \in 1 .. n
  BY <1>1
<1>4. w \in Planar /\ Len(w) = n
  <2>1. w \in [1 .. n -> Int \X Int]
    BY <1>1, <1>2, <1>3
  <2>2. w \in Seq(Int \X Int)
    <3> HIDE DEF w
    <3>1. QED
      BY <1>1, <2>1
  <2>3. Len(w) = n
    <3>1. DOMAIN w = 1 .. n
      BY <1>2
    <3> HIDE DEF w
    <3>2. QED
      BY <1>1, <2>2, <3>1
  <2>4. QED
    BY <2>2, <2>3 DEF Planar
<1>5. PICK g : Adds(g, n, Edges(v)) /\ Shoelace(v) = g[n]
  BY ShoelaceAdds
<1>6. PICK h : Adds(h, n, Edges(w)) /\ Shoelace(w) = h[n]
  <2> HIDE DEF w
  <2>1. PICK h : Adds(h, Len(w), Edges(w)) /\ Shoelace(w) = h[Len(w)]
    BY <1>4, ShoelaceAdds
  <2>2. QED
    BY <2>1, <1>4
<1>7. ASSUME NEW i \in 1 .. n
      PROVE  /\ v[i] \in Int \X Int /\ w[i] = v[(n - i) + 1]
             /\ g[i] = g[i - 1] + Edges(v)[i] /\ g[i - 1] \in Int
             /\ h[i] = h[i - 1] + Edges(w)[i] /\ h[i - 1] \in Int
             /\ Edges(v)[i] \in Int
  <2>1. v[i] \in Int \X Int /\ w[i] = v[(n - i) + 1]
    BY <1>1, <1>2
  <2>2. g[i] = g[i - 1] + Edges(v)[i] /\ g[i - 1] \in Int
    <3>1. i - 1 \in 0 .. n
      BY <1>1
    <3>2. QED
      BY <3>1, <1>5 DEF Adds
  <2>3. h[i] = h[i - 1] + Edges(w)[i] /\ h[i - 1] \in Int
    <3>1. i - 1 \in 0 .. n
      BY <1>1
    <3> HIDE DEF w
    <3>2. QED
      BY <3>1, <1>6 DEF Adds
  <2>4. Edges(v)[i] \in Int
    BY EdgesAreIntegers
  <2>5. QED
    BY <2>1, <2>2, <2>3, <2>4
<1>8. ASSUME NEW i \in 1 .. n, i # n
      PROVE  Edges(w)[i] = -Edges(v)[n - i]
  <2>1. /\ i \in Nat /\ i < n /\ n - i \in Nat /\ n - i < n /\ n - i \in 1 .. n
        /\ i + 1 \in 1 .. n /\ (n - i) + 1 \in 1 .. n
        /\ (n - (i + 1)) + 1 = n - i
    BY <1>1, <1>8
  <2>2. i % n = i /\ (n - i) % n = n - i
    BY <2>1, <1>1, SmallRemainder
  <2>3. After(w, i) = i + 1 /\ After(v, n - i) = (n - i) + 1
    <3> HIDE DEF w
    <3>1. QED
      BY <2>2, <1>4 DEF After
  <2>4. Edges(w)[i] = Edge(w[i], w[i + 1])
    <3> HIDE DEF w
    <3>1. QED
      BY <2>3, <1>4 DEF Edges
  <2>5. w[i] = v[(n - i) + 1] /\ w[i + 1] = v[n - i]
    <3>1. w[i + 1] = v[(n - (i + 1)) + 1]
      BY <2>1, <1>7
    <3> HIDE DEF w
    <3>2. QED
      BY <3>1, <2>1, <1>7
  <2>6. Edges(v)[n - i] = Edge(v[n - i], v[(n - i) + 1])
    BY <2>1, <2>3 DEF Edges
  <2>7. v[n - i] \in Int \X Int /\ v[(n - i) + 1] \in Int \X Int
    BY <2>1, <1>7
  <2>8. Edge(v[(n - i) + 1], v[n - i]) = -Edge(v[n - i], v[(n - i) + 1])
    BY <2>7, EdgeBackwards
  <2> HIDE DEF w, n
  <2>9. QED
    BY <2>4, <2>5, <2>6, <2>8
<1>9. n # 0 => Edges(w)[n] = -Edges(v)[n]
  <2>1. SUFFICES ASSUME n # 0 PROVE Edges(w)[n] = -Edges(v)[n]
    OBVIOUS
  <2>2. /\ n \in 1 .. n /\ 1 \in 1 .. n /\ (n - n) + 1 = 1 /\ (n - 1) + 1 = n
    BY <2>1, <1>1
  <2>3. n % n = 0
    BY <2>1, <1>1
  <2>4. Edges(w)[n] = Edge(w[n], w[1])
    <3> HIDE DEF w
    <3>1. QED
      BY <2>2, <2>3, <1>4 DEF Edges, After
  <2>5. Edges(v)[n] = Edge(v[n], v[1])
    BY <2>2, <2>3 DEF Edges, After
  <2>6. w[n] = v[1] /\ w[1] = v[n]
    BY <2>2, <1>7
  <2>7. v[1] \in Int \X Int /\ v[n] \in Int \X Int
    BY <2>2, <1>7
  <2>8. Edge(v[1], v[n]) = -Edge(v[n], v[1])
    BY <2>7, EdgeBackwards
  <2> HIDE DEF w, n
  <2>9. QED
    BY <2>4, <2>5, <2>6, <2>8
<1> HIDE DEF w
<1> DEFINE T == {k \in Nat : k < n => h[k] = g[(n - 1) - k] - g[n - 1]}
<1>10. 0 \in T
  <2>1. SUFFICES ASSUME 0 < n PROVE h[0] = g[(n - 1) - 0] - g[n - 1]
    OBVIOUS
  <2>2. n - 1 \in 0 .. n /\ (n - 1) - 0 = n - 1
    BY <2>1, <1>1
  <2>3. h[0] = 0 /\ g[n - 1] \in Int
    BY <1>5, <1>6, <2>2 DEF Adds
  <2>4. QED
    BY <2>2, <2>3
<1>11. ASSUME NEW k \in Nat, k \in T PROVE k + 1 \in T
  <2>1. SUFFICES ASSUME k + 1 < n
                 PROVE  h[k + 1] = g[(n - 1) - (k + 1)] - g[n - 1]
    OBVIOUS
  <2> DEFINE j == (n - 1) - k
  <2>2. /\ j \in 1 .. n /\ k + 1 \in 1 .. n /\ k + 1 # n /\ n - (k + 1) = j
        /\ (n - 1) - (k + 1) = j - 1 /\ (k + 1) - 1 = k /\ k < n
        /\ n - 1 \in 0 .. n /\ j \in 0 .. n
    BY <2>1, <1>1
  <2>3. h[k] = g[j] - g[n - 1]
    BY <1>11, <2>2
  <2> HIDE DEF j
  <2>4. h[k + 1] = h[k] + Edges(w)[k + 1]
    BY <1>7, <2>2
  <2>5. Edges(w)[k + 1] = -Edges(v)[j]
    BY <1>8, <2>2
  <2>6. /\ g[j] = g[j - 1] + Edges(v)[j] /\ g[j - 1] \in Int
        /\ Edges(v)[j] \in Int
    BY <1>7, <2>2
  <2>7. g[n - 1] \in Int
    BY <1>5, <2>2 DEF Adds
  <2>8. h[k + 1] = g[j - 1] - g[n - 1]
    BY <2>3, <2>4, <2>5, <2>6, <2>7
  <2>9. QED
    BY <2>8, <2>2
<1>12. Nat \subseteq T
  <2> HIDE DEF T
  <2>1. QED
    BY <1>10, <1>11, NaturalsFromZero
<1>13. h[n] = -g[n]
  <2>1. CASE n = 0
    BY <2>1, <1>5, <1>6 DEF Adds
  <2>2. CASE n # 0
    <3>1. /\ n - 1 \in Nat /\ n - 1 < n /\ (n - 1) - (n - 1) = 0
          /\ n \in 1 .. n
      BY <2>2, <1>1
    <3>2. h[n - 1] = g[(n - 1) - (n - 1)] - g[n - 1]
      BY <3>1, <1>12
    <3>3. h[n - 1] = g[0] - g[n - 1] /\ g[0] = 0
      BY <3>1, <3>2, <1>5 DEF Adds
    <3>4. /\ g[n] = g[n - 1] + Edges(v)[n] /\ h[n] = h[n - 1] + Edges(w)[n]
          /\ g[n - 1] \in Int /\ Edges(v)[n] \in Int
      BY <1>7, <3>1
    <3>5. Edges(w)[n] = -Edges(v)[n]
      BY <1>9, <2>2
    <3> HIDE DEF n
    <3>6. QED
      BY <3>3, <3>4, <3>5
  <2>3. QED
    BY <2>1, <2>2
<1>14. QED
  BY <1>4, <1>5, <1>6, <1>13 DEF w

-----------------------------------------------------------------------------
(* The field: the boxes around a zone, and the largest of the zones.       *)

LEMMA FourEdges ==
  ASSUME NEW a \in Int \X Int, NEW b \in Int \X Int, NEW c \in Int \X Int,
         NEW d \in Int \X Int
  PROVE  Shoelace(<<a, b, c, d>>)
         = Edge(a, b) + Edge(b, c) + Edge(c, d) + Edge(d, a)
<1> DEFINE v == <<a, b, c, d>>
<1>1. v \in Planar /\ Len(v) = 4
  BY DEF Planar
<1>2. PICK g : Adds(g, 4, Edges(v)) /\ Shoelace(v) = g[4]
  <2> HIDE DEF v
  <2>1. PICK g : Adds(g, Len(v), Edges(v)) /\ Shoelace(v) = g[Len(v)]
    BY <1>1, ShoelaceAdds
  <2>2. QED
    BY <2>1, <1>1
<1>3. /\ Edges(v)[1] = Edge(a, b) /\ Edges(v)[2] = Edge(b, c)
      /\ Edges(v)[3] = Edge(c, d) /\ Edges(v)[4] = Edge(d, a)
  <2>1. After(v, 1) = 2 /\ After(v, 2) = 3 /\ After(v, 3) = 4 /\ After(v, 4) = 1
    <3>1. 1 % 4 = 1 /\ 2 % 4 = 2 /\ 3 % 4 = 3 /\ 4 % 4 = 0
      OBVIOUS
    <3>2. QED
      BY <3>1, <1>1 DEF After
  <2>2. v[1] = a /\ v[2] = b /\ v[3] = c /\ v[4] = d
    OBVIOUS
  <2> HIDE DEF v
  <2>3. QED
    BY <1>1, <2>1, <2>2 DEF Edges
<1>4. /\ Edge(a, b) \in Int /\ Edge(b, c) \in Int /\ Edge(c, d) \in Int
      /\ Edge(d, a) \in Int
  BY EdgeBackwards
<1>5. g[0] = 0 /\ \A i \in 1 .. 4 : g[i] = g[i - 1] + Edges(v)[i]
  BY <1>2 DEF Adds
<1>6. g[4] = Edge(a, b) + Edge(b, c) + Edge(c, d) + Edge(d, a)
  <2> HIDE DEF v
  <2>1. g[1] = Edge(a, b)
    BY <1>3, <1>4, <1>5
  <2>2. g[2] = Edge(a, b) + Edge(b, c)
    BY <2>1, <1>3, <1>4, <1>5
  <2>3. g[3] = Edge(a, b) + Edge(b, c) + Edge(c, d)
    BY <2>2, <1>3, <1>4, <1>5
  <2>4. QED
    BY <2>3, <1>3, <1>4, <1>5
<1>7. QED
  BY <1>2, <1>6

LEMMA BoxesTurnLeft ==
  ASSUME NEW p \in Int \X Int
  PROVE  /\ Shoelace(BoxCoordinates(p)) > 0
         /\ ArchiveBox(p) \in Planar /\ Shoelace(ArchiveBox(p)) > 0
<1>1. PICK x \in Int, y \in Int : x = Lng(p) /\ y = Lat(p)
  BY DEF Lng, Lat
<1> DEFINE a == <<x + 9, y + 9>>
           b == <<x - 9, y + 9>>
           c == <<x - 9, y - 9>>
           d == <<x + 9, y - 9>>
<1>2. /\ a \in Int \X Int /\ b \in Int \X Int /\ c \in Int \X Int
      /\ d \in Int \X Int
  OBVIOUS
<1>3. BoxCoordinates(p) = <<a, b, c, d>> /\ ArchiveBox(p) = <<b, c, d, a>>
  BY <1>1 DEF BoxCoordinates, ArchiveBox
<1>4. Edge(a, b) = 18 * (y + 9) /\ Edge(b, c) = -18 * (x - 9)
      /\ Edge(c, d) = -18 * (y - 9) /\ Edge(d, a) = 18 * (x + 9)
  BY DEF Edge, Lng, Lat
<1>5. Edge(a, b) + Edge(b, c) + Edge(c, d) + Edge(d, a) = 648
  <2> HIDE DEF a, b, c, d
  <2>1. QED
    BY <1>4
<1>6. Edge(b, c) + Edge(c, d) + Edge(d, a) + Edge(a, b) = 648
  <2> HIDE DEF a, b, c, d
  <2>1. QED
    BY <1>4
<1> HIDE DEF a, b, c, d
<1>7. Shoelace(<<a, b, c, d>>) = 648 /\ Shoelace(<<b, c, d, a>>) = 648
  BY <1>2, <1>5, <1>6, FourEdges
<1>8. <<b, c, d, a>> \in Planar
  BY <1>2 DEF Planar
<1>9. QED
  BY <1>3, <1>7, <1>8

LEMMA AreasAreNatural ==
  ASSUME NEW v \in Planar
  PROVE  Shoelace(v) \in Int /\ PolygonArea(v) \in Nat
<1>1. PICK g : Adds(g, Len(v), Edges(v)) /\ Shoelace(v) = g[Len(v)]
  BY ShoelaceAdds
<1>2. Shoelace(v) \in Int
  <2>1. Len(v) \in 0 .. Len(v)
    BY DEF Planar
  <2>2. QED
    BY <1>1, <2>1 DEF Adds
<1>3. QED
  BY <1>2 DEF PolygonArea

\* The k-th of the zones is the largest.
Largest(zones, k) ==
  /\ k \in 1 .. Len(zones)
  /\ \A i \in 1 .. Len(zones) : PolygonArea(zones[i]) <= PolygonArea(zones[k])

LEMMA MainFlyZoneIsLargest ==
  ASSUME NEW zones \in Seq(Planar)
  PROVE  /\ ServerFlyZone(zones) = MainFlyZone(zones)
         /\ Len(zones) = 0 => MainFlyZone(zones) = Null
         /\ Len(zones) # 0 => Largest(zones, MainFlyZone(zones))
<1> DEFINE n == Len(zones)
           area(i) == PolygonArea(zones[i])
           Record == [area : Int, zone : Nat]
           start == [area |-> -1, zone |-> Null]
           J(f) == f = [i \in 0 .. Len(zones) |->
                         IF i = 0 THEN start
                         ELSE IF area(i) > f[i - 1].area
                         THEN [area |-> area(i), zone |-> i]
                         ELSE f[i - 1]]
           b == CHOOSE f : J(f)
           step == [q \in Record \X (1 .. n) |->
                     IF area(q[2]) > q[1].area
                     THEN [area |-> area(q[2]), zone |-> q[2]] ELSE q[1]]
<1>1. n \in Nat /\ \A i \in 1 .. n : area(i) \in Nat
  <2>1. ASSUME NEW i \in 1 .. n PROVE area(i) \in Nat
    <3>1. zones[i] \in Planar
      OBVIOUS
    <3>2. QED
      BY <3>1, AreasAreNatural
  <2>2. QED
    BY <2>1
<1>2. \E f : J(f)
  <2>1. start \in Record
    BY DEF Null
  <2>2. step \in [Record \X (1 .. n) -> Record]
    <3>1. ASSUME NEW q \in Record \X (1 .. n)
          PROVE  (IF area(q[2]) > q[1].area
                  THEN [area |-> area(q[2]), zone |-> q[2]] ELSE q[1]) \in Record
      <4>1. q[1] \in Record /\ q[2] \in 1 .. n /\ area(q[2]) \in Nat
        BY <1>1
      <4> HIDE DEF area
      <4>2. QED
        BY <4>1
    <3> HIDE DEF area, Record
    <3>2. QED
      BY <3>1
  <2>3. PICK f : Computes(f, n, start, step, Record)
    <3> HIDE DEF start, step, Record
    <3>1. QED
      BY <1>1, <2>1, <2>2, LoopsCompute, Zenon
  <2>4. ASSUME NEW i \in 0 .. n, i # 0
        PROVE  f[i] = IF area(i) > f[i - 1].area
                      THEN [area |-> area(i), zone |-> i] ELSE f[i - 1]
    <3>1. i \in 1 .. n /\ i - 1 \in 0 .. n
      BY <2>4
    <3>2. f[i] = step[<<f[i - 1], i>>] /\ f[i - 1] \in Record
      <4> HIDE DEF start, step, Record
      <4>1. QED
        BY <2>3, <3>1 DEF Computes
    <3>3. <<f[i - 1], i>> \in Record \X (1 .. n)
      BY <3>1, <3>2
    <3> HIDE DEF Record, area
    <3>4. QED
      BY <3>2, <3>3
  <2>5. f[0] = start /\ f = [i \in 0 .. n |-> f[i]]
    <3> HIDE DEF start, step, Record
    <3>1. QED
      BY <2>3 DEF Computes
  <2>6. J(f)
    <3> HIDE DEF area, start
    <3>1. QED
      BY <2>4, <2>5
  <2> HIDE DEF J
  <2>7. QED
    BY <2>6
<1>3. J(b)
  <2> HIDE DEF J
  <2>1. QED
    BY <1>2
<1>4. MainFlyZone(zones) = b[Len(zones)].zone
  BY Zenon DEF MainFlyZone
<1>5. ServerFlyZone(zones) = MainFlyZone(zones)
  BY Zenon DEF MainFlyZone, ServerFlyZone
<1> HIDE DEF b
<1>6. b[0] = start
  BY <1>3, <1>1
<1>7. ASSUME NEW i \in 1 .. n
      PROVE  b[i] = IF area(i) > b[i - 1].area
                    THEN [area |-> area(i), zone |-> i] ELSE b[i - 1]
  <2>1. i \in 0 .. Len(zones) /\ i # 0
    BY <1>1
  <2>2. b = [j \in 0 .. Len(zones) |->
               IF j = 0 THEN start
               ELSE IF area(j) > b[j - 1].area
               THEN [area |-> area(j), zone |-> j] ELSE b[j - 1]]
    BY <1>3, Zenon
  <2> HIDE DEF start, area
  <2>3. QED
    BY <2>1, <2>2, Zenon
\* The record after i zones is of the largest of them.
<1> DEFINE Best(i) == /\ b[i].zone \in 1 .. i /\ b[i].area = area(b[i].zone)
                      /\ \A j \in 1 .. i : area(j) <= b[i].area
           T == {i \in Nat : i + 1 <= n => Best(i + 1)}
<1>8. 0 \in T
  <2>1. SUFFICES ASSUME 1 <= n PROVE Best(1)
    OBVIOUS
  <2>2. 1 \in 1 .. n /\ area(1) \in Nat
    BY <2>1, <1>1
  <2>3. b[1] = IF area(1) > b[0].area
               THEN [area |-> area(1), zone |-> 1] ELSE b[0]
    BY <1>7, <2>2
  <2> HIDE DEF area
  <2>4. b[1] = [area |-> area(1), zone |-> 1]
    BY <1>6, <2>2, <2>3
  <2>5. QED
    BY <2>4, <2>2
<1>9. ASSUME NEW i \in Nat, i \in T PROVE i + 1 \in T
  <2>1. SUFFICES ASSUME (i + 1) + 1 <= n PROVE Best((i + 1) + 1)
    OBVIOUS
  <2> DEFINE k == (i + 1) + 1
  <2>2. /\ k \in 1 .. n /\ k - 1 = i + 1 /\ i + 1 \in 1 .. n /\ i + 1 <= n
        /\ 1 .. k = (1 .. (i + 1)) \cup {k}
    BY <2>1, <1>1
  <2>3. Best(i + 1)
    BY <1>9, <2>2
  <2> HIDE DEF k
  <2>4. b[k] = IF area(k) > b[i + 1].area
               THEN [area |-> area(k), zone |-> k] ELSE b[i + 1]
    BY <1>7, <2>2
  <2>5. /\ area(k) \in Nat /\ \A j \in 1 .. (i + 1) : area(j) \in Nat
    BY <1>1, <2>2
  <2> HIDE DEF area
  <2>6. b[i + 1].area \in Nat
    BY <2>3, <2>5
  <2>7. CASE area(k) > b[i + 1].area
    <3>1. b[k].area = area(k) /\ b[k].zone = k
      BY <2>4, <2>7
    <3>2. \A j \in 1 .. k : area(j) <= area(k)
      BY <2>2, <2>3, <2>5, <2>6, <2>7
    <3>3. k \in 1 .. k
      BY <2>2
    <3>4. QED
      BY <3>1, <3>2, <3>3 DEF k
  <2>8. CASE ~(area(k) > b[i + 1].area)
    <3>1. b[k] = b[i + 1]
      BY <2>4, <2>8
    <3>2. \A j \in 1 .. k : area(j) <= b[i + 1].area
      BY <2>2, <2>3, <2>5, <2>6, <2>8
    <3>3. b[i + 1].zone \in 1 .. k
      BY <2>2, <2>3
    <3>4. Best(k)
      BY <3>1, <3>2, <3>3, <2>3
    <3>5. QED
      BY <3>4 DEF k
  <2>9. QED
    BY <2>7, <2>8
<1>10. Nat \subseteq T
  <2> HIDE DEF T
  <2>1. QED
    BY <1>8, <1>9, NaturalsFromZero
<1>11. n = 0 => MainFlyZone(zones) = Null
  BY <1>4, <1>6
<1>12. ASSUME n # 0 PROVE Largest(zones, MainFlyZone(zones))
  <2>1. n - 1 \in Nat /\ (n - 1) + 1 = n /\ n <= n
    BY <1>1, <1>12
  <2>2. n - 1 \in T
    BY <2>1, <1>10
  <2>3. Best(n)
    BY <2>1, <2>2
  <2>4. QED
    BY <2>3, <1>4 DEF Largest
<1>13. QED
  BY <1>5, <1>11, <1>12

-----------------------------------------------------------------------------
(* The field: what the UI shows and what the server sends.                 *)

LEMMA PolygonsArePlanar ==
  ASSUME GroundProgramAssumption
  PROVE  /\ Polygons \subseteq Planar
         /\ \A zones \in ZoneMissions : zones \in Seq(Polygons) /\ zones \in Seq(Planar)
<1>1. ASSUME NEW v \in Polygons PROVE v \in Planar
  <2>1. PICK n \in 0 .. MaxCorners : v \in [1 .. n -> Points]
    BY DEF Polygons
  <2>2. n \in Nat /\ Points \subseteq Int \X Int
    BY DEF GroundProgramAssumption
  <2>3. v \in [1 .. n -> Int \X Int]
    BY <2>1, <2>2
  <2>4. QED
    BY <2>2, <2>3 DEF Planar
<1>2. ASSUME NEW zones \in ZoneMissions
      PROVE  zones \in Seq(Polygons) /\ zones \in Seq(Planar)
  <2>1. PICK n \in 0 .. MaxZones : zones \in [1 .. n -> Polygons]
    BY DEF ZoneMissions
  <2>2. n \in Nat
    BY DEF GroundProgramAssumption
  <2>3. zones \in [1 .. n -> Planar]
    BY <1>1, <2>1
  <2> HIDE DEF Planar, Polygons
  <2>4. QED
    BY <2>1, <2>2, <2>3
<1>3. QED
  BY <1>1, <1>2

LEMMA OnlyMember ==
  ASSUME NEW x
  PROVE  ToSet(<<x>>) = {x} /\ ToSet(<<>>) = {} /\ <<x>> # <<>> /\ <<x>>[1] = x
  BY DEF ToSet

\* What the map shows of a zone, and of a mission.
OnMap(zone) == [zone |-> zone, outline |-> BoundaryCoordinates(zone)]
MapOf(zones) ==
  IF MainFlyZone(zones) = Null THEN Nothing
  ELSE <<OnMap(zones[MainFlyZone(zones)])>>

FieldInv ==
  /\ serverUp \in BOOLEAN
  /\ shown = Nothing \/ \E zone \in Polygons : shown = <<OnMap(zone)>>
  /\ \/ interopData = Nothing /\ sent \in {Nothing, << <<>> >>} /\ serverUp
     \/ \E zones \in ZoneMissions :
          /\ interopData = <<zones>> /\ shown = MapOf(zones)
          /\ \/ sent = Nothing
             \/ zones # <<>> /\ sent = <<zones[MainFlyZone(zones)]>>
          /\ ~serverUp => zones = <<>>

\* The zones of a mission and the one that is chosen.
LEMMA ChosenZone ==
  ASSUME GroundProgramAssumption, NEW zones \in ZoneMissions
  PROVE  /\ ServerFlyZone(zones) = MainFlyZone(zones)
         /\ MainFlyZone(zones) = Null <=> zones = <<>>
         /\ zones # <<>> => /\ Largest(zones, MainFlyZone(zones))
                            /\ zones[MainFlyZone(zones)] \in Polygons
<1>1. zones \in Seq(Polygons) /\ zones \in Seq(Planar)
  BY PolygonsArePlanar
<1>2. /\ ServerFlyZone(zones) = MainFlyZone(zones)
      /\ Len(zones) = 0 => MainFlyZone(zones) = Null
      /\ Len(zones) # 0 => Largest(zones, MainFlyZone(zones))
  BY <1>1, MainFlyZoneIsLargest
<1>3. Len(zones) = 0 <=> zones = <<>>
  BY <1>1
<1>4. Largest(zones, MainFlyZone(zones))
      => MainFlyZone(zones) # Null /\ zones[MainFlyZone(zones)] \in Polygons
  BY <1>1 DEF Largest, Null
<1>5. QED
  BY <1>2, <1>3, <1>4

LEMMA FieldStepKeepsInv ==
  ASSUME GroundProgramAssumption, FieldInv, [Next]_vars
  PROVE  FieldInv'
<1>1. ASSUME NEW zones \in ZoneMissions, InteropData(zones) PROVE FieldInv'
  <2>1. shown' = MapOf(zones)
    BY <1>1 DEF InteropData, MapOf, OnMap
  <2>2. MapOf(zones) = Nothing \/ \E zone \in Polygons : MapOf(zones) = <<OnMap(zone)>>
    BY ChosenZone DEF MapOf
  <2>3. /\ interopData' = <<zones>> /\ sent' = Nothing /\ serverUp'
        /\ serverUp' \in BOOLEAN
    BY <1>1 DEF InteropData, FieldInv
  <2>4. QED
    BY <2>1, <2>2, <2>3 DEF FieldInv
<1>2. CASE CompileGroundProgram
  <2>1. serverUp /\ UNCHANGED <<interopData, shown>>
    BY <1>2 DEF CompileGroundProgram
  <2>2. CASE interopData = Nothing
    <3>1. sent' = << <<>> >> /\ UNCHANGED serverUp
      BY <1>2, <2>2 DEF CompileGroundProgram
    <3>2. QED
      BY <2>1, <2>2, <3>1 DEF FieldInv
  <2>3. CASE interopData # Nothing
    <3>1. PICK zones \in ZoneMissions :
            /\ interopData = <<zones>> /\ shown = MapOf(zones)
            /\ \/ sent = Nothing
               \/ zones # <<>> /\ sent = <<zones[MainFlyZone(zones)]>>
            /\ ~serverUp => zones = <<>>
      BY <2>3 DEF FieldInv
    <3>2. interopData[1] = zones /\ interopData' = <<zones>> /\ shown' = MapOf(zones)
      BY <2>1, <3>1
    <3>3. /\ MainFlyZone(zones) = Null <=> zones = <<>>
          /\ ServerFlyZone(zones) = MainFlyZone(zones)
      BY ChosenZone
    <3>4. CASE zones = <<>>
      <4>1. serverUp' = FALSE /\ UNCHANGED sent
        BY <1>2, <2>3, <3>2, <3>3, <3>4 DEF CompileGroundProgram
      <4>2. sent' = Nothing
        BY <4>1, <3>1, <3>4
      <4>3. QED
        BY <4>1, <4>2, <3>1, <3>2, <3>4, <2>1 DEF FieldInv
    <3>5. CASE zones # <<>>
      <4>1. sent' = <<zones[MainFlyZone(zones)]>> /\ UNCHANGED serverUp
        BY <1>2, <2>3, <3>2, <3>3, <3>5 DEF CompileGroundProgram
      <4>2. QED
        BY <4>1, <3>1, <3>2, <3>5, <2>1 DEF FieldInv
    <3>6. QED
      BY <3>4, <3>5
  <2>4. QED
    BY <2>2, <2>3
<1>3. CASE ServerRestarts
  BY <1>3 DEF ServerRestarts, FieldInv, Nothing
<1>4. CASE UNCHANGED vars
  BY <1>4 DEF vars, FieldInv
<1>5. QED
  BY <1>1, <1>2, <1>3, <1>4 DEF Next

LEMMA FieldStarts == Init => FieldInv
  BY DEF Init, FieldInv

\* An outline runs against the box, whichever way the zone turned.
LEMMA OutlineTurnsRight ==
  ASSUME NEW zone \in Planar
  PROVE  Shoelace(BoundaryCoordinates(zone)) <= 0
<1>1. Shoelace(zone) \in Int /\ Shoelace(Reverse(zone)) = -Shoelace(zone)
  BY AreasAreNatural, ShoelaceOfReverse
<1>2. QED
  BY <1>1 DEF BoundaryCoordinates, IsClockwise

LEMMA FirstCorner ==
  ASSUME NEW zone \in Planar, zone # <<>>
  PROVE  zone[1] \in Int \X Int
<1>1. Len(zone) \in Nat /\ Len(zone) # 0
  BY DEF Planar
<1>2. QED
  BY <1>1 DEF Planar

LEMMA ArchivedHole ==
  ASSUME NEW zone \in Planar, zone # <<>>
  PROVE  LET archived == ArchivePaths(zone)
         IN  /\ Shoelace(archived.box) # 0
             /\ Shoelace(archived.outline) > 0 => Shoelace(archived.box) < 0
             /\ Shoelace(archived.outline) < 0 => Shoelace(archived.box) > 0
<1> DEFINE box == ArchiveBox(zone[1])
<1>1. zone[1] \in Int \X Int
  BY FirstCorner
<1>2. box \in Planar /\ Shoelace(box) > 0
  BY <1>1, BoxesTurnLeft
<1>3. Shoelace(box) \in Int /\ Shoelace(Reverse(box)) = -Shoelace(box)
  <2> HIDE DEF box
  <2>1. QED
    BY <1>2, AreasAreNatural, ShoelaceOfReverse
<1>4. Shoelace(zone) \in Int
  BY AreasAreNatural
<1>5. /\ ArchivePaths(zone).outline = zone
      /\ ArchivePaths(zone).box = IF Shoelace(zone) < 0 THEN box ELSE Reverse(box)
  BY DEF ArchivePaths, IsClockwise
<1> HIDE DEF box
<1>6. QED
  BY <1>2, <1>3, <1>4, <1>5

\* The field of the program is the zone that the operator sees, and the
\* largest; it is a hole in the shaded box, on both maps; the formula is the
\* area of a zone anywhere; only a mission without zones stops the server.
THEOREM FieldIsTheZoneShown ==
  ASSUME GroundProgramAssumption
  PROVE  Spec => [](/\ ShoelaceIsTheArea /\ SentFieldIsShown /\ FieldIsAHole
                    /\ EveryZoneIsAHole /\ CompilesUnlessNoZone)
<1> DEFINE Inv == /\ ShoelaceIsTheArea /\ SentFieldIsShown /\ FieldIsAHole
                  /\ EveryZoneIsAHole /\ CompilesUnlessNoZone
<1>1. ASSUME FieldInv PROVE Inv
  <2>1. \A m \in ToSet(interopData) :
          /\ m \in ZoneMissions /\ m \in Seq(Polygons) /\ interopData = <<m>>
          /\ shown = MapOf(m)
          /\ \/ sent = Nothing
             \/ m # <<>> /\ sent = <<m[MainFlyZone(m)]>>
          /\ \A zone \in ToSet(m) : zone \in Planar
    <3>1. SUFFICES ASSUME NEW m \in ToSet(interopData)
                   PROVE  /\ m \in ZoneMissions /\ m \in Seq(Polygons)
                          /\ interopData = <<m>> /\ shown = MapOf(m)
                          /\ \/ sent = Nothing
                             \/ m # <<>> /\ sent = <<m[MainFlyZone(m)]>>
                          /\ \A zone \in ToSet(m) : zone \in Planar
      OBVIOUS
    <3>2. interopData # Nothing
      BY OnlyMember DEF Nothing
    <3>3. PICK zones \in ZoneMissions :
            /\ interopData = <<zones>> /\ shown = MapOf(zones)
            /\ \/ sent = Nothing
               \/ zones # <<>> /\ sent = <<zones[MainFlyZone(zones)]>>
      BY <1>1, <3>2 DEF FieldInv
    <3>4. m = zones
      BY <3>3, OnlyMember
    <3>5. zones \in Seq(Polygons) /\ zones \in Seq(Planar)
      BY PolygonsArePlanar
    <3>6. \A zone \in ToSet(zones) : zone \in Planar
      <4> HIDE DEF Planar
      <4>1. QED
        BY <3>5 DEF ToSet
    <3>7. QED
      BY <3>3, <3>4, <3>5, <3>6
  <2>2. ShoelaceIsTheArea
    BY <2>1, ShoelaceIsFan DEF ShoelaceIsTheArea
  <2>3. SentFieldIsShown
    <3>1. SUFFICES ASSUME NEW m \in ToSet(interopData), NEW field \in ToSet(sent)
                   PROVE  /\ \E s \in ToSet(shown) : s.zone = field
                          /\ \A zone \in ToSet(m) :
                               PolygonArea(zone) <= PolygonArea(field)
      BY DEF SentFieldIsShown
    <3> DEFINE k == MainFlyZone(m)
    <3>2. sent # Nothing
      BY OnlyMember DEF Nothing
    <3>3. m # <<>> /\ sent = <<m[k]>> /\ m \in ZoneMissions
      BY <2>1, <3>2
    <3>4. field = m[k]
      BY <3>3, OnlyMember
    <3>5. k # Null /\ Largest(m, k)
      BY <3>3, ChosenZone
    <3>6. shown = <<OnMap(m[k])>>
      BY <2>1, <3>5 DEF MapOf
    <3>7. ToSet(shown) = {OnMap(m[k])} /\ OnMap(m[k]).zone = m[k]
      BY <3>6, OnlyMember DEF OnMap
    <3>8. \A zone \in ToSet(m) : PolygonArea(zone) <= PolygonArea(m[k])
      <4>1. \A zone \in ToSet(m) : \E i \in 1 .. Len(m) : zone = m[i]
        BY <2>1 DEF ToSet
      <4> HIDE DEF k
      <4>2. QED
        BY <4>1, <3>5 DEF Largest
    <3> HIDE DEF k
    <3>9. QED
      BY <3>4, <3>7, <3>8
  <2>4. FieldIsAHole
    <3>1. SUFFICES ASSUME NEW s \in ToSet(shown), s.zone # <<>>
                   PROVE  /\ Shoelace(BoxCoordinates(s.zone[1])) > 0
                          /\ Shoelace(s.outline) <= 0
      BY DEF FieldIsAHole
    <3>2. PICK zone \in Polygons : shown = <<OnMap(zone)>>
      <4>1. shown # Nothing
        BY OnlyMember DEF Nothing
      <4>2. QED
        BY <1>1, <4>1 DEF FieldInv
    <3>3. s.zone = zone /\ s.outline = BoundaryCoordinates(zone)
      BY <3>2, OnlyMember DEF OnMap
    <3>4. zone \in Planar
      BY PolygonsArePlanar
    <3>5. zone[1] \in Int \X Int
      BY <3>1, <3>3, <3>4, FirstCorner
    <3>6. Shoelace(BoxCoordinates(zone[1])) > 0
      BY <3>5, BoxesTurnLeft
    <3>7. Shoelace(BoundaryCoordinates(zone)) <= 0
      BY <3>4, OutlineTurnsRight
    <3>8. QED
      BY <3>3, <3>6, <3>7
  <2>5. EveryZoneIsAHole
    BY <2>1, ArchivedHole DEF EveryZoneIsAHole
  <2>6. CompilesUnlessNoZone
    BY <1>1 DEF FieldInv, CompilesUnlessNoZone
  <2>7. QED
    BY <2>2, <2>3, <2>4, <2>5, <2>6
<1>2. FieldInv => Inv
  BY <1>1
<1> HIDE DEF Inv
<1>3. FieldInv /\ [Next]_vars => FieldInv'
  BY FieldStepKeepsInv
<1>4. Spec => []Inv
  BY <1>2, <1>3, FieldStarts, PTL DEF Spec
<1>5. QED
  BY <1>4 DEF Inv
=============================================================================
