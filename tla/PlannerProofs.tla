--------------------------- MODULE PlannerProofs ---------------------------
(***************************************************************************)
(* Proofs about the mission planner of the archived interface: the range   *)
(* of the plan that is sent, for any number of commands, the fields of a   *)
(* command, for any places, and the text that a mission is sent as, for    *)
(* any bytes.                                                              *)
(*                                                                         *)
(* Every change of the plan makes one whose commands are some of the old   *)
(* ones, without a new mark (SomeOf), or moves a mark as one of two        *)
(* operations does; so a plan never has two starts or two ends.            *)
(***************************************************************************)
EXTENDS PlanRange, PlanFields, RunMission, FiniteSetTheorems, SequenceTheorems,
        TLAPS

-----------------------------------------------------------------------------
(* The range of the plan.                                                  *)

PlanCommands == [id : Ids, isStart : BOOLEAN, isEnd : BOOLEAN]
Marks == {"isStart", "isEnd"}

OneMark(plan, mark) ==
  \A i, j \in DOMAIN plan : plan[i][mark] /\ plan[j][mark] => i = j

\* The number that First returns of a plan with at most one such mark.
IsFirst(plan, mark, none, k) ==
  \/ k \in DOMAIN plan /\ plan[k][mark]
  \/ k = none /\ \A i \in DOMAIN plan : ~plan[i][mark]

IdsDiffer(plan) ==
  \A i, j \in DOMAIN plan : plan[i].id = plan[j].id => i = j

\* The commands of a plan are some of another's, none with a new mark.
SomeOf(plan, old) ==
  \E f \in [DOMAIN plan -> DOMAIN old] :
    /\ \A i, j \in DOMAIN plan : f[i] = f[j] => i = j
    /\ \A i \in DOMAIN plan :
         /\ plan[i].id = old[f[i]].id
         /\ \A mark \in Marks : plan[i][mark] => old[f[i]][mark]

GreenIsRange(plan, rows) ==
  \A i \in DOMAIN plan : rows[i] = IsGreen(plan, i)

GoodPlan(plan) ==
  /\ plan \in Seq(PlanCommands) /\ IdsDiffer(plan)
  /\ \A mark \in Marks : OneMark(plan, mark)

RangeInv ==
  /\ GoodPlan(commands)
  /\ green \in [DOMAIN commands -> BOOLEAN]
  /\ ~partly => GreenIsRange(commands, green)
  /\ popup \in 0 .. Cardinality(Ids)

LEMMA FirstIsTheMarked ==
  ASSUME NEW plan \in Seq(PlanCommands), NEW mark \in Marks,
         OneMark(plan, mark), NEW none
  PROVE  /\ IsFirst(plan, mark, none, First(plan, mark, none))
         /\ \A k : IsFirst(plan, mark, none, k)
                     => k = First(plan, mark, none)
<1> DEFINE S == Marked(plan, mark)
<1>1. CASE S = {}
  BY <1>1 DEF First, IsFirst, Marked
<1>2. CASE S # {}
  <2>1. PICK i \in DOMAIN plan : plan[i][mark]
    BY <1>2 DEF Marked
  <2>2. \A k \in S : k = i
    BY <2>1 DEF Marked, OneMark
  <2>3. i \in S /\ i \in Int
    BY <2>1 DEF Marked
  <2>4. Min(S) = i
    <3>1. \A y \in S : i <= y
      BY <2>2, <2>3
    <3>2. QED
      BY <2>2, <2>3, <3>1 DEF Min
  <2>5. First(plan, mark, none) = i
    BY <1>2, <2>4 DEF First
  <2>6. QED
    BY <2>1, <2>5 DEF IsFirst, OneMark
<1>3. QED
  BY <1>1, <1>2

IsJoined(t, s, u) ==
  /\ Len(s) \in Nat /\ Len(u) \in Nat /\ Len(t) = Len(s) + Len(u)
  /\ DOMAIN t = 1 .. Len(s) + Len(u)
  /\ \A i \in 1 .. Len(s) : t[i] = s[i]
  /\ \A i \in 1 .. Len(u) : t[Len(s) + i] = u[i]

LEMMA Joined ==
  ASSUME NEW S, NEW s \in Seq(S), NEW u \in Seq(S)
  PROVE  s \o u \in Seq(S) /\ IsJoined(s \o u, s, u)
  BY DEF IsJoined

\* The sequence t is s without its element at i, or with x inserted there.
IsRemoved(t, s, i) ==
  /\ Len(t) = Len(s) - 1 /\ DOMAIN t = 1 .. Len(s) - 1
  /\ \A j \in 1 .. Len(s) - 1 :
       /\ j < i => t[j] = s[j]
       /\ j >= i => t[j] = s[j + 1]

IsInserted(t, s, i, x) ==
  /\ Len(t) = Len(s) + 1 /\ DOMAIN t = 1 .. Len(s) + 1
  /\ \A j \in 1 .. Len(s) + 1 :
       /\ j < i => t[j] = s[j]
       /\ j = i => t[j] = x
       /\ j > i => t[j] = s[j - 1]

LEMMA Shifted ==
  ASSUME NEW n \in Nat, NEW i \in 1 .. n, NEW j \in 1 .. n - 1, j >= i
  PROVE  j + 1 - i \in 1 .. n - i
  OBVIOUS

LEMMA Removed ==
  ASSUME NEW S, NEW s \in Seq(S), NEW i \in DOMAIN s
  PROVE  RemoveAt(s, i) \in Seq(S) /\ IsRemoved(RemoveAt(s, i), s, i)
<1> DEFINE a == SubSeq(s, 1, i - 1)
           b == SubSeq(s, i + 1, Len(s))
<1>1. /\ a \in Seq(S) /\ Len(a) = i - 1 /\ \A j \in 1 .. i - 1 : a[j] = s[j]
      /\ Len(s) \in Nat /\ i \in 1 .. Len(s)
  OBVIOUS
<1>2. /\ b \in Seq(S) /\ Len(b) = Len(s) - i
      /\ \A j \in 1 .. Len(s) - i : b[j] = s[j + i]
  OBVIOUS
<1> HIDE DEF a, b
<1> DEFINE t == a \o b
<1>3. t \in Seq(S) /\ IsJoined(t, a, b)
  BY <1>1, <1>2, Joined, Zenon
<1> HIDE DEF t
<1>4. Len(a) + Len(b) = Len(s) - 1
  BY <1>1, <1>2
<1>5. ASSUME NEW j \in 1 .. Len(s) - 1
      PROVE  /\ j < i => t[j] = s[j]
             /\ j >= i => t[j] = s[j + 1]
  <2>1. CASE j < i
    BY <1>1, <1>3, <1>4, <2>1 DEF IsJoined
  <2>2. CASE j >= i
    <3> DEFINE k == j + 1 - i
    <3>1. k \in 1 .. Len(s) - i
      BY <1>1, <2>2, Shifted
    <3>4. k + i = j + 1 /\ (i - 1) + k = j
      BY <1>1
    <3> HIDE DEF k
    <3>2. t[j] = b[k]
      BY <1>1, <1>2, <1>3, <3>1, <3>4 DEF IsJoined
    <3>3. QED
      BY <1>1, <1>2, <2>2, <3>1, <3>2, <3>4
  <2>3. QED
    BY <1>1, <2>1, <2>2
<1>6. t \in Seq(S) /\ Len(t) = Len(s) - 1 /\ DOMAIN t = 1 .. Len(s) - 1
  BY <1>3, <1>4 DEF IsJoined
<1>7. RemoveAt(s, i) = t
  BY DEF RemoveAt, t, a, b
<1>8. QED
  BY <1>5, <1>6, <1>7 DEF IsRemoved

LEMMA Inserted ==
  ASSUME NEW S, NEW s \in Seq(S), NEW i \in 1 .. Len(s) + 1, NEW x \in S
  PROVE  /\ InsertAt(s, i, x) \in Seq(S)
         /\ IsInserted(InsertAt(s, i, x), s, i, x)
<1> DEFINE a == SubSeq(s, 1, i - 1)
           b == SubSeq(s, i, Len(s))
           c == <<x>>
<1>1. /\ a \in Seq(S) /\ Len(a) = i - 1 /\ \A j \in 1 .. i - 1 : a[j] = s[j]
      /\ Len(s) \in Nat /\ i \in Nat
  OBVIOUS
<1>2. /\ b \in Seq(S) /\ Len(b) = Len(s) + 1 - i
      /\ \A j \in 1 .. Len(s) + 1 - i : b[j] = s[j + i - 1]
  OBVIOUS
<1>3. c \in Seq(S) /\ Len(c) = 1 /\ c[1] = x
  OBVIOUS
<1> HIDE DEF a, b, c
<1> DEFINE d == a \o c
           t == d \o b
<1>4. /\ d \in Seq(S) /\ Len(d) = i
      /\ \A j \in 1 .. i - 1 : d[j] = s[j]
      /\ d[i] = x
  <2>1. d \in Seq(S) /\ IsJoined(d, a, c)
    BY <1>1, <1>3, Joined, Zenon
  <2> HIDE DEF d
  <2>2. Len(a) + 1 = i /\ 1 \in 1 .. Len(c)
    BY <1>1, <1>3
  <2>3. d[i] = x
    BY <1>3, <2>1, <2>2 DEF IsJoined
  <2>4. QED
    BY <1>1, <1>3, <2>1, <2>3 DEF IsJoined
<1> HIDE DEF d
<1>5. t \in Seq(S) /\ IsJoined(t, d, b)
  BY <1>2, <1>4, Joined, Zenon
<1> HIDE DEF t
<1>6. i + Len(b) = Len(s) + 1
  BY <1>1, <1>2
<1>7. ASSUME NEW j \in 1 .. Len(s) + 1
      PROVE  /\ j < i => t[j] = s[j]
             /\ j = i => t[j] = x
             /\ j > i => t[j] = s[j - 1]
  <2>1. CASE j <= i
    BY <1>1, <1>4, <1>5, <2>1 DEF IsJoined
  <2>2. CASE j > i
    <3> DEFINE k == j - i
    <3>1. k \in 1 .. Len(s) + 1 - i /\ k + i - 1 = j - 1 /\ i + k = j
      <4>1. i \in Nat /\ j \in Nat /\ Len(s) \in Nat /\ j <= Len(s) + 1
        BY <1>7
      <4>2. QED
        BY <4>1, <2>2
    <3> HIDE DEF k
    <3>2. t[j] = b[k]
      BY <1>2, <1>4, <1>5, <3>1 DEF IsJoined
    <3>3. QED
      BY <1>1, <1>2, <2>2, <3>1, <3>2
  <2>3. QED
    BY <1>1, <2>1, <2>2
<1>8. InsertAt(s, i, x) = t
  BY DEF InsertAt, t, d, c, a, b
<1>9. t \in Seq(S) /\ Len(t) = Len(s) + 1 /\ DOMAIN t = 1 .. Len(s) + 1
  BY <1>4, <1>5, <1>6 DEF IsJoined
<1>10. QED
  BY <1>7, <1>8, <1>9 DEF IsInserted

LEMMA SomeKeepsApart ==
  ASSUME NEW plan, NEW old, SomeOf(plan, old)
  PROVE  /\ IdsDiffer(old) => IdsDiffer(plan)
         /\ \A mark \in Marks : OneMark(old, mark) => OneMark(plan, mark)
<1>1. PICK f \in [DOMAIN plan -> DOMAIN old] :
        /\ \A i, j \in DOMAIN plan : f[i] = f[j] => i = j
        /\ \A i \in DOMAIN plan :
             /\ plan[i].id = old[f[i]].id
             /\ \A mark \in Marks : plan[i][mark] => old[f[i]][mark]
  BY DEF SomeOf
<1>2. \A i \in DOMAIN plan : f[i] \in DOMAIN old
  OBVIOUS
<1>3. IdsDiffer(old) => IdsDiffer(plan)
  BY <1>1, <1>2 DEF IdsDiffer
<1>4. ASSUME NEW mark \in Marks, OneMark(old, mark) PROVE OneMark(plan, mark)
  BY <1>1, <1>2, <1>4 DEF OneMark
<1>5. QED
  BY <1>3, <1>4

LEMMA RemovedIsSome ==
  ASSUME NEW plan \in Seq(PlanCommands), NEW i \in DOMAIN plan
  PROVE  /\ RemoveAt(plan, i) \in Seq(PlanCommands)
         /\ SomeOf(RemoveAt(plan, i), plan)
<1> DEFINE t == RemoveAt(plan, i)
           f == [k \in DOMAIN t |-> IF k < i THEN k ELSE k + 1]
<1>1. t \in Seq(PlanCommands) /\ IsRemoved(t, plan, i)
  BY Removed
<1>2. i \in Nat /\ Len(plan) \in Nat /\ DOMAIN plan = 1 .. Len(plan)
  OBVIOUS
<1> HIDE DEF t
<1>3. \A k \in DOMAIN t : f[k] \in DOMAIN plan /\ t[k] = plan[f[k]]
  BY <1>1, <1>2 DEF IsRemoved
<1>4. \A k, l \in DOMAIN t : f[k] = f[l] => k = l
  BY <1>1, <1>2 DEF IsRemoved
<1>5. f \in [DOMAIN t -> DOMAIN plan]
  BY <1>3
<1> HIDE DEF f
<1>6. SomeOf(t, plan)
  BY <1>3, <1>4, <1>5 DEF SomeOf
<1>7. QED
  BY <1>1, <1>6 DEF t

LEMMA MovedIsSome ==
  ASSUME NEW plan \in Seq(PlanCommands),
         NEW i \in DOMAIN plan, NEW j \in DOMAIN plan
  PROVE  /\ ArrayMove(plan, i, j) \in Seq(PlanCommands)
         /\ SomeOf(ArrayMove(plan, i, j), plan)
<1> DEFINE r == RemoveAt(plan, i)
           t == InsertAt(r, j, plan[i])
           f == [k \in DOMAIN t |->
                  IF k = j THEN i
                  ELSE IF k < j THEN (IF k < i THEN k ELSE k + 1)
                  ELSE (IF k - 1 < i THEN k - 1 ELSE k)]
<1>1. /\ i \in Nat /\ j \in Nat /\ Len(plan) \in Nat
      /\ DOMAIN plan = 1 .. Len(plan) /\ plan[i] \in PlanCommands
  OBVIOUS
<1>2. r \in Seq(PlanCommands) /\ IsRemoved(r, plan, i)
  BY Removed
<1> HIDE DEF r
<1>3. j \in 1 .. Len(r) + 1 /\ Len(r) = Len(plan) - 1
  BY <1>1, <1>2 DEF IsRemoved
<1>4. t \in Seq(PlanCommands) /\ IsInserted(t, r, j, plan[i])
  BY <1>1, <1>2, <1>3, Inserted, Zenon
<1> HIDE DEF t
<1>5. DOMAIN t = 1 .. Len(plan) /\ Len(t) = Len(plan)
  BY <1>1, <1>3, <1>4 DEF IsInserted
<1>6. ASSUME NEW k \in DOMAIN t
      PROVE  f[k] \in DOMAIN plan /\ t[k] = plan[f[k]]
  <2>1. CASE k = j
    BY <1>1, <1>3, <1>4, <1>5, <2>1 DEF IsInserted
  <2>2. CASE k < j
    <3>1. k \in DOMAIN r /\ t[k] = r[k]
      BY <1>1, <1>2, <1>3, <1>4, <1>5, <2>2 DEF IsInserted, IsRemoved
    <3>2. QED
      BY <1>1, <1>2, <1>5, <2>2, <3>1 DEF IsRemoved
  <2>3. CASE k > j
    <3>1. k - 1 \in DOMAIN r /\ t[k] = r[k - 1]
      BY <1>1, <1>2, <1>3, <1>4, <1>5, <2>3 DEF IsInserted, IsRemoved
    <3>2. QED
      BY <1>1, <1>2, <1>5, <2>3, <3>1 DEF IsRemoved
  <2>4. QED
    BY <1>1, <1>5, <2>1, <2>2, <2>3
<1>7. \A k, l \in DOMAIN t : f[k] = f[l] => k = l
  BY <1>1, <1>5
<1>8. f \in [DOMAIN t -> DOMAIN plan]
  BY <1>6
<1> HIDE DEF f
<1>9. SomeOf(t, plan)
  BY <1>6, <1>7, <1>8 DEF SomeOf
<1>10. ArrayMove(plan, i, j) = t
  BY DEF ArrayMove, t, r
<1>11. QED
  BY <1>4, <1>9, <1>10

\* Marks are taken away.
LEMMA Unmarked ==
  ASSUME NEW plan \in Seq(PlanCommands), NEW mark \in Marks
  PROVE  LET t == Unmark(plan, mark)
         IN  /\ t \in Seq(PlanCommands) /\ Len(t) = Len(plan)
             /\ DOMAIN t = DOMAIN plan
             /\ \A k \in DOMAIN plan : t[k][mark] = FALSE
             /\ SomeOf(t, plan)
<1> DEFINE t == Unmark(plan, mark)
           f == [k \in DOMAIN t |-> k]
<1>1. /\ t = [k \in DOMAIN plan |-> [plan[k] EXCEPT ![mark] = FALSE]]
      /\ DOMAIN plan = 1 .. Len(plan) /\ Len(plan) \in Nat
      /\ \A k \in DOMAIN plan : plan[k] \in PlanCommands
  BY DEF Unmark
<1> HIDE DEF t
<1>2. \A c \in PlanCommands :
        /\ [c EXCEPT ![mark] = FALSE] \in PlanCommands
        /\ [c EXCEPT ![mark] = FALSE].id = c.id
        /\ [c EXCEPT ![mark] = FALSE][mark] = FALSE
        /\ \A m \in Marks : [c EXCEPT ![mark] = FALSE][m] => c[m]
  BY DEF PlanCommands, Marks
<1>3. \A k \in DOMAIN plan : t[k] \in PlanCommands
  BY <1>1, <1>2
<1>4. t \in Seq(PlanCommands) /\ Len(t) = Len(plan) /\ DOMAIN t = DOMAIN plan
  BY <1>1, <1>3
<1>5. \A k \in DOMAIN plan :
        /\ t[k].id = plan[k].id
        /\ t[k][mark] = FALSE
        /\ \A m \in Marks : t[k][m] => plan[k][m]
  BY <1>1, <1>2
<1>6. SomeOf(t, plan)
  <2>1. f \in [DOMAIN t -> DOMAIN plan] /\ \A k \in DOMAIN t : f[k] = k
    BY <1>4
  <2> HIDE DEF f
  <2>2. QED
    BY <1>4, <1>5, <2>1 DEF SomeOf
<1>7. QED
  BY <1>4, <1>5, <1>6 DEF t

\* One command's mark is set in a plan that has no other such mark.
LEMMA MarkedAt ==
  ASSUME NEW plan \in Seq(PlanCommands), NEW i \in DOMAIN plan,
         NEW mark \in Marks, NEW v \in BOOLEAN,
         v => \A k \in DOMAIN plan : ~plan[k][mark],
         IdsDiffer(plan), \A m \in Marks : OneMark(plan, m)
  PROVE  LET t == [plan EXCEPT ![i] = [plan[i] EXCEPT ![mark] = v]]
         IN  /\ t \in Seq(PlanCommands) /\ Len(t) = Len(plan)
             /\ IdsDiffer(t)
             /\ \A m \in Marks : OneMark(t, m)
<1> DEFINE c == [plan[i] EXCEPT ![mark] = v]
           t == [plan EXCEPT ![i] = c]
<1>1. plan[i] \in PlanCommands
  OBVIOUS
<1>2. /\ c \in PlanCommands /\ c[mark] = v /\ c.id = plan[i].id
      /\ \A m \in Marks : m # mark => c[m] = plan[i][m]
  BY <1>1 DEF PlanCommands, Marks
<1> HIDE DEF c
<1>3. /\ t \in Seq(PlanCommands)
      /\ Len(t) = Len(plan) /\ DOMAIN t = DOMAIN plan
      /\ t[i] = c /\ \A k \in DOMAIN plan : k # i => t[k] = plan[k]
  BY <1>2
<1> HIDE DEF t
<1>4. IdsDiffer(t)
  BY <1>2, <1>3 DEF IdsDiffer
<1>5. ASSUME NEW m \in Marks PROVE OneMark(t, m)
  <2>1. CASE m = mark
    BY <1>2, <1>3, <2>1 DEF OneMark
  <2>2. CASE m # mark
    BY <1>2, <1>3, <2>2 DEF OneMark
  <2>3. QED
    BY <2>1, <2>2
<1>6. QED
  BY <1>3, <1>4, <1>5 DEF t, c

-----------------------------------------------------------------------------
(* Rows that are not drawn again.                                          *)

LEMMA AppendedRows ==
  ASSUME NEW plan \in Seq(PlanCommands), NEW c \in PlanCommands,
         \A mark \in Marks : OneMark(plan, mark) /\ ~c[mark]
  PROVE  /\ Append(plan, c) \in Seq(PlanCommands)
         /\ \A mark \in Marks : OneMark(Append(plan, c), mark)
         /\ \A i \in DOMAIN plan :
              IsGreen(Append(plan, c), i) = IsGreen(plan, i)
<1> DEFINE n == Len(plan)
           t == Append(plan, c)
           start == First(plan, "isStart", 0)
           end == First(plan, "isEnd", n)
           end2 == First(t, "isEnd", n + 1)
<1>1. /\ n \in Nat /\ DOMAIN plan = 1 .. n /\ DOMAIN t = 1 .. n + 1
      /\ t \in Seq(PlanCommands) /\ Len(t) = n + 1
      /\ t[n + 1] = c /\ \A k \in 1 .. n : t[k] = plan[k]
  OBVIOUS
<1> HIDE DEF t, n
<1>2. "isStart" \in Marks /\ "isEnd" \in Marks
  BY DEF Marks
<1>3. \A mark \in Marks : OneMark(t, mark)
  BY <1>1 DEF OneMark
<1>4. IsFirst(plan, "isStart", 0, start) /\ IsFirst(plan, "isEnd", n, end)
  BY <1>2, FirstIsTheMarked
<1>5. IsFirst(t, "isStart", 0, start)
  BY <1>1, <1>2, <1>4 DEF IsFirst
<1>6. First(t, "isStart", 0) = start
  BY <1>1, <1>2, <1>3, <1>5, FirstIsTheMarked
<1>7. IsFirst(t, "isEnd", n + 1, end2)
  BY <1>1, <1>2, <1>3, FirstIsTheMarked
<1>8. end2 = end \/ (end2 = n + 1 /\ end = n)
  BY <1>1, <1>2, <1>3, <1>4, <1>7 DEF IsFirst, OneMark
<1>9. start \in 0 .. n /\ end \in 0 .. n
  BY <1>1, <1>4 DEF IsFirst
<1> HIDE DEF start, end, end2
<1>10. ASSUME NEW i \in DOMAIN plan
       PROVE  IsGreen(t, i) = IsGreen(plan, i)
  <2>1. IsGreen(t, i) = (start > end2 \/ i \in start .. end2)
    BY <1>1, <1>6 DEF IsGreen, end2
  <2>2. IsGreen(plan, i) = (start > end \/ i \in start .. end)
    BY DEF IsGreen, start, end, n
  <2>3. i \in 1 .. n
    BY <1>1
  <2>4. (start > end2 \/ i \in start .. end2)
          = (start > end \/ i \in start .. end)
    BY <1>1, <1>8, <1>9, <2>3
  <2>5. QED
    BY <2>1, <2>2, <2>4
<1>11. QED
  BY <1>1, <1>3, <1>10 DEF t

LEMMA RangeBefore ==
  ASSUME NEW n \in Nat, NEW i \in 1 .. n, NEW j \in 1 .. n, j < i,
         NEW start \in Int, NEW start2 \in Int,
         NEW end \in Int, NEW end2 \in Int,
         \/ start = start2 /\ start \in 1 .. n /\ start < i
         \/ start2 = start - 1 /\ start \in 1 .. n /\ start > i
         \/ start = 0 /\ start2 = 0,
         \/ end = end2 /\ end \in 1 .. n /\ end < i
         \/ end2 = end - 1 /\ end \in 1 .. n /\ end > i
         \/ end = n /\ end2 = n - 1
  PROVE  (start2 > end2 \/ j \in start2 .. end2)
           <=> (start > end \/ j \in start .. end)
<1>1. CASE start = start2 /\ start \in 1 .. n /\ start < i
  BY <1>1
<1>2. CASE start2 = start - 1 /\ start \in 1 .. n /\ start > i
  BY <1>2
<1>3. CASE start = 0 /\ start2 = 0
  BY <1>3
<1>4. QED
  BY <1>1, <1>2, <1>3

\* The rows before a command that is removed, if it had no mark.
LEMMA RemovedRows ==
  ASSUME NEW plan \in Seq(PlanCommands), NEW i \in DOMAIN plan,
         \A mark \in Marks : OneMark(plan, mark) /\ ~plan[i][mark]
  PROVE  \A j \in DOMAIN plan :
           j < i => IsGreen(RemoveAt(plan, i), j) = IsGreen(plan, j)
<1> DEFINE n == Len(plan)
           t == RemoveAt(plan, i)
           start == First(plan, "isStart", 0)
           end == First(plan, "isEnd", n)
           start2 == First(t, "isStart", 0)
           end2 == First(t, "isEnd", n - 1)
<1>1. /\ n \in Nat /\ DOMAIN plan = 1 .. n /\ i \in 1 .. n
      /\ t \in Seq(PlanCommands) /\ IsRemoved(t, plan, i)
      /\ SomeOf(t, plan)
  BY Removed, RemovedIsSome
<1>2. /\ DOMAIN t = 1 .. n - 1 /\ Len(t) = n - 1
      /\ \A k \in 1 .. n - 1 : /\ k < i => t[k] = plan[k]
                               /\ k >= i => t[k] = plan[k + 1]
  BY <1>1 DEF IsRemoved
<1>3. \A mark \in Marks : OneMark(t, mark)
  BY <1>1, SomeKeepsApart
<1> HIDE DEF t, n
<1>4. "isStart" \in Marks /\ "isEnd" \in Marks
  BY DEF Marks
<1>5. IsFirst(plan, "isStart", 0, start) /\ IsFirst(plan, "isEnd", n, end)
  BY <1>4, FirstIsTheMarked
<1>6. IsFirst(t, "isStart", 0, start2) /\ IsFirst(t, "isEnd", n - 1, end2)
  BY <1>1, <1>3, <1>4, FirstIsTheMarked
<1> HIDE DEF start, end, start2, end2
\* The marks before i stay, those after it are one row less far down.
<1>7. ASSUME NEW mark \in Marks, NEW none, NEW less, NEW k, NEW l,
             IsFirst(plan, mark, none, k), IsFirst(t, mark, less, l)
      PROVE  \/ k = l /\ k \in 1 .. n /\ k < i
             \/ l = k - 1 /\ k \in 1 .. n /\ k > i
             \/ k = none /\ l = less
  <2>1. CASE k \in DOMAIN plan /\ plan[k][mark]
    <3>1. k \in 1 .. n /\ k # i
      BY <1>1, <2>1
    <3>2. CASE k < i
      <4>1. k \in DOMAIN t /\ t[k][mark]
        BY <1>1, <1>2, <2>1, <3>1, <3>2
      <4>2. l = k
        BY <1>3, <1>7, <4>1 DEF IsFirst, OneMark
      <4>3. QED
        BY <3>1, <3>2, <4>2
    <3>3. CASE k > i
      <4>1. k - 1 \in DOMAIN t /\ t[k - 1][mark]
        BY <1>1, <1>2, <2>1, <3>1, <3>3
      <4>2. l = k - 1
        BY <1>3, <1>7, <4>1 DEF IsFirst, OneMark
      <4>3. QED
        BY <3>1, <3>3, <4>2
    <3>4. QED
      BY <1>1, <3>1, <3>2, <3>3
  <2>2. CASE k = none /\ \A j \in DOMAIN plan : ~plan[j][mark]
    <3>1. \A j \in DOMAIN t : ~t[j][mark]
      BY <1>1, <1>2, <2>2
    <3>2. QED
      BY <1>7, <2>2, <3>1 DEF IsFirst
  <2>3. QED
    BY <1>7, <2>1, <2>2 DEF IsFirst
<1>8. ASSUME NEW j \in DOMAIN plan, j < i
      PROVE  IsGreen(t, j) = IsGreen(plan, j)
  <2>1. IsGreen(t, j) = (start2 > end2 \/ j \in start2 .. end2)
    BY <1>2 DEF IsGreen, start2, end2
  <2>2. IsGreen(plan, j) = (start > end \/ j \in start .. end)
    BY DEF IsGreen, start, end, n
  <2>3. \/ start = start2 /\ start \in 1 .. n /\ start < i
        \/ start2 = start - 1 /\ start \in 1 .. n /\ start > i
        \/ start = 0 /\ start2 = 0
    BY <1>4, <1>5, <1>6, <1>7
  <2>4. \/ end = end2 /\ end \in 1 .. n /\ end < i
        \/ end2 = end - 1 /\ end \in 1 .. n /\ end > i
        \/ end = n /\ end2 = n - 1
    BY <1>4, <1>5, <1>6, <1>7
  <2>5. j \in 1 .. n /\ n \in Nat /\ i \in 1 .. n /\ i - 1 <= n - 1
    BY <1>1
  <2> HIDE DEF start, end, start2, end2
  <2>6. start \in Int /\ start2 \in Int /\ end \in Int /\ end2 \in Int
    BY <2>3, <2>4, <2>5
  <2>8. (start2 > end2 \/ j \in start2 .. end2)
          <=> (start > end \/ j \in start .. end)
    BY <1>8, <2>3, <2>4, <2>5, <2>6, RangeBefore, SMTT(30)
  <2>7. QED
    BY <2>1, <2>2, <2>8
<1>9. QED
  BY <1>8 DEF t

-----------------------------------------------------------------------------
(* Plans after a change.                                                   *)

LEMMA SomeIsGood ==
  ASSUME NEW old, GoodPlan(old), NEW plan \in Seq(PlanCommands),
         SomeOf(plan, old)
  PROVE  GoodPlan(plan)
  BY SomeKeepsApart DEF GoodPlan

LEMMA UnmarkedIsGood ==
  ASSUME NEW plan, GoodPlan(plan), NEW mark \in Marks
  PROVE  /\ GoodPlan(Unmark(plan, mark))
         /\ DOMAIN Unmark(plan, mark) = DOMAIN plan
         /\ \A k \in DOMAIN plan : ~Unmark(plan, mark)[k][mark]
<1>1. plan \in Seq(PlanCommands)
  BY DEF GoodPlan
<1>2. /\ Unmark(plan, mark) \in Seq(PlanCommands)
      /\ SomeOf(Unmark(plan, mark), plan)
      /\ DOMAIN Unmark(plan, mark) = DOMAIN plan
      /\ \A k \in DOMAIN plan : ~Unmark(plan, mark)[k][mark]
  BY <1>1, Unmarked
<1>3. QED
  BY <1>2, SomeIsGood

LEMMA UnmarkedTwice ==
  ASSUME NEW plan, GoodPlan(plan), NEW mark \in Marks, NEW other \in Marks,
         other # mark
  PROVE  LET t == Unmark(Unmark(plan, mark), other)
         IN  /\ GoodPlan(t) /\ DOMAIN t = DOMAIN plan
             /\ \A k \in DOMAIN plan : ~t[k][mark]
<1> DEFINE u == Unmark(plan, mark)
           t == Unmark(u, other)
<1>1. /\ GoodPlan(u) /\ DOMAIN u = DOMAIN plan
      /\ \A k \in DOMAIN plan : ~u[k][mark]
  BY UnmarkedIsGood
<1> HIDE DEF u
<1>2. GoodPlan(t) /\ DOMAIN t = DOMAIN u
  BY <1>1, UnmarkedIsGood
<1>3. \A k \in DOMAIN u : t[k][mark] = u[k][mark]
  <2>1. u \in Seq(PlanCommands)
    BY <1>1 DEF GoodPlan
  <2>2. \A k \in DOMAIN u : u[k] \in PlanCommands
    BY <2>1
  <2>3. \A c \in PlanCommands : [c EXCEPT ![other] = FALSE][mark] = c[mark]
    BY DEF PlanCommands, Marks
  <2>4. QED
    BY <2>2, <2>3 DEF Unmark
<1>4. QED
  BY <1>1, <1>2, <1>3 DEF u

\* A mark is set on a plan that has it nowhere, or taken from a command.
LEMMA MarkedIsGood ==
  ASSUME NEW plan, GoodPlan(plan), NEW i \in DOMAIN plan,
         NEW mark \in Marks, NEW v \in BOOLEAN,
         v => \A k \in DOMAIN plan : ~plan[k][mark]
  PROVE  GoodPlan([plan EXCEPT ![i] = [plan[i] EXCEPT ![mark] = v]])
  BY MarkedAt DEF GoodPlan

\* At most as many commands as there are ids.
LEMMA FewCommands ==
  ASSUME RangeAssumption, NEW plan, GoodPlan(plan)
  PROVE  Len(plan) \in 0 .. Cardinality(Ids)
<1> DEFINE n == Len(plan)
           f == [i \in 1 .. n |-> plan[i].id]
<1>1. n \in Nat /\ DOMAIN plan = 1 .. n /\ \A i \in 1 .. n : plan[i].id \in Ids
  <2>1. plan \in Seq(PlanCommands)
    BY DEF GoodPlan
  <2>2. n \in Nat /\ DOMAIN plan = 1 .. n
        /\ \A i \in 1 .. n : plan[i] \in PlanCommands
    BY <2>1
  <2>3. \A c \in PlanCommands : c.id \in Ids
    BY DEF PlanCommands
  <2>4. QED
    BY <2>2, <2>3
<1>2. IsFiniteSet(Ids) /\ Cardinality(Ids) \in Nat
  BY FS_CardinalityType DEF RangeAssumption
<1>3. f \in Injection(1 .. n, Ids)
  BY <1>1 DEF Injection, IsInjective, GoodPlan, IdsDiffer
<1>4. Cardinality(1 .. n) = n
  BY <1>1, FS_Interval
<1>5. Cardinality(1 .. n) <= Cardinality(Ids)
  BY <1>2, <1>3, FS_Injection DEF ExistsInjection
<1>6. QED
  BY <1>1, <1>2, <1>4, <1>5

-----------------------------------------------------------------------------
(* The rows that are drawn.                                                *)

LEMMA ShowAll ==
  ASSUME NEW plan, GoodPlan(plan), NEW range, Show(plan, range, TRUE)
  PROVE  /\ GoodPlan(commands)'
         /\ (green \in [DOMAIN commands -> BOOLEAN])'
         /\ GreenIsRange(commands, green)'
<1>1. /\ commands' = plan
      /\ green' = [i \in DOMAIN plan |-> IsGreen(plan, i)]
  BY DEF Show
<1>2. \A i : IsGreen(plan, i) \in BOOLEAN
  BY DEF IsGreen
<1>3. QED
  BY <1>1, <1>2 DEF GreenIsRange, GoodPlan, IdsDiffer, OneMark

LEMMA ShowSome ==
  ASSUME NEW plan, GoodPlan(plan), NEW range, Show(plan, range, FALSE),
         GoodPlan(commands), green \in [DOMAIN commands -> BOOLEAN]
  PROVE  /\ GoodPlan(commands)'
         /\ (green \in [DOMAIN commands -> BOOLEAN])'
         /\ /\ GreenIsRange(commands, green)
            /\ \A i \in DOMAIN plan \cap DOMAIN commands :
                 i \in range \/ IsGreen(plan, i) = IsGreen(commands, i)
            => GreenIsRange(commands, green)'
<1>1. /\ commands' = plan
      /\ green' = [i \in DOMAIN plan |->
                    IF i \in range \/ i > Len(green)
                    THEN IsGreen(plan, i) ELSE green[i]]
  BY DEF Show
<1>2. \A i : IsGreen(plan, i) \in BOOLEAN
  BY DEF IsGreen
<1>3. /\ DOMAIN green = 1 .. Len(commands) /\ Len(commands) \in Nat
      /\ Len(green) = Len(commands)
  <2>1. commands \in Seq(PlanCommands)
    BY DEF GoodPlan
  <2>2. QED
    BY <2>1
<1>4. \A i \in DOMAIN plan : i \in Nat /\ i >= 1
  BY DEF GoodPlan
<1>5. \A i \in DOMAIN plan : i > Len(green) \/ i \in DOMAIN commands
  BY <1>3, <1>4
<1>6. \A i \in DOMAIN plan : green'[i] \in BOOLEAN
  BY <1>1, <1>2, <1>5
<1>7. (green \in [DOMAIN commands -> BOOLEAN])'
  BY <1>1, <1>6
<1>8. GoodPlan(commands)'
  BY <1>1 DEF GoodPlan, IdsDiffer, OneMark
<1>9. ASSUME GreenIsRange(commands, green),
             \A i \in DOMAIN plan \cap DOMAIN commands :
               i \in range \/ IsGreen(plan, i) = IsGreen(commands, i)
      PROVE  \A i \in DOMAIN plan : green'[i] = IsGreen(plan, i)
  BY <1>1, <1>5, <1>9 DEF GreenIsRange
<1>10. QED
  BY <1>1, <1>7, <1>8, <1>9 DEF GreenIsRange

-----------------------------------------------------------------------------
(* Every step keeps the invariant.                                         *)

\* What a change of the plan that draws every row, and closes the window, does.
LEMMA DrawnAll ==
  ASSUME RangeAssumption, NEW plan, GoodPlan(plan), NEW range,
         Show(plan, range, TRUE), popup' \in 0 .. Cardinality(Ids)
  PROVE  RangeInv'
  BY ShowAll DEF RangeInv

LEMMA Closing == RangeAssumption /\ Close => popup' \in 0 .. Cardinality(Ids)
  BY FS_CardinalityType DEF RangeAssumption, Close

LEMMA Starts ==
  ASSUME RangeAssumption, RangeInv, NEW i, SetCommandStart(i)
  PROVE  RangeInv'
<1> DEFINE once == Unmark(commands, "isStart")
           plan == IF i > First(commands, "isEnd", i)
                   THEN Unmark(once, "isEnd") ELSE once
<1>1. "isStart" \in Marks /\ "isEnd" \in Marks
  BY DEF Marks
<1>2. /\ i \in DOMAIN commands /\ Close
      /\ Show([plan EXCEPT ![i].isStart = TRUE], {i}, TRUE)
  BY DEF SetCommandStart
<1>3. /\ GoodPlan(plan) /\ DOMAIN plan = DOMAIN commands
      /\ \A k \in DOMAIN plan : ~plan[k]["isStart"]
  BY <1>1, UnmarkedIsGood, UnmarkedTwice DEF RangeInv
<1> HIDE DEF plan
<1>4. GoodPlan([plan EXCEPT ![i] = [plan[i] EXCEPT !["isStart"] = TRUE]])
  BY <1>1, <1>2, <1>3, MarkedIsGood
<1>5. QED
  BY <1>2, <1>4, Closing, DrawnAll

LEMMA Ends ==
  ASSUME RangeAssumption, RangeInv, NEW i, SetCommandEnd(i)
  PROVE  RangeInv'
<1> DEFINE once == Unmark(commands, "isEnd")
           plan == IF i < First(commands, "isStart", i)
                   THEN Unmark(once, "isStart") ELSE once
<1>1. "isStart" \in Marks /\ "isEnd" \in Marks
  BY DEF Marks
<1>2. /\ i \in DOMAIN commands /\ Close
      /\ Show([plan EXCEPT ![i].isEnd = TRUE], {i}, TRUE)
  BY DEF SetCommandEnd
<1>3. /\ GoodPlan(plan) /\ DOMAIN plan = DOMAIN commands
      /\ \A k \in DOMAIN plan : ~plan[k]["isEnd"]
  BY <1>1, UnmarkedIsGood, UnmarkedTwice DEF RangeInv
<1> HIDE DEF plan
<1>4. GoodPlan([plan EXCEPT ![i] = [plan[i] EXCEPT !["isEnd"] = TRUE]])
  BY <1>1, <1>2, <1>3, MarkedIsGood
<1>5. QED
  BY <1>2, <1>4, Closing, DrawnAll

LEMMA RemovedIsGood ==
  ASSUME GoodPlan(commands), NEW i \in DOMAIN commands
  PROVE  GoodPlan(RemoveAt(commands, i))
  BY RemovedIsSome, SomeIsGood DEF GoodPlan

LEMMA Deletes ==
  ASSUME RangeAssumption, RangeInv, NEW i, DeleteCommand(i)
  PROVE  RangeInv'
  BY RemovedIsGood, Closing, DrawnAll DEF DeleteCommand, RangeInv

LEMMA Sorts ==
  ASSUME RangeAssumption, RangeInv, NEW i, NEW j, OnSortEnd(i, j)
  PROVE  RangeInv'
<1>1. i \in DOMAIN commands /\ j \in DOMAIN commands
  BY DEF OnSortEnd
<1>2. GoodPlan(ArrayMove(commands, i, j))
  BY <1>1, MovedIsSome, SomeIsGood DEF RangeInv, GoodPlan
<1>3. QED
  BY <1>2, Closing, DrawnAll DEF OnSortEnd

\* Taking marks away where there are none.
LEMMA PopsUpForNothing ==
  ASSUME RangeAssumption, RangeInv, PopupOfNothing
  PROVE  RangeInv'
<1>1. GoodPlan(commands) /\ popup' \in 0 .. Cardinality(Ids)
  BY Closing DEF RangeInv, PopupOfNothing
<1>2. "isStart" \in Marks /\ "isEnd" \in Marks
  BY DEF Marks
<1>3. ASSUME NEW plan, GoodPlan(plan), DOMAIN plan = DOMAIN commands,
             NoSuchCommand(plan)
      PROVE  RangeInv'
  <2> DEFINE unmarked == {i \in DOMAIN plan : plan[i] # commands[i]}
             last == {i \in unmarked : commands[i].isEnd}
  <2>1. PICK range : Show(plan, range, FALSE)
    BY <1>3 DEF NoSuchCommand
  <2>2. partly' = (partly \/ unmarked # {})
    BY <1>3 DEF NoSuchCommand
  <2>3. ASSUME ~partly' PROVE GreenIsRange(commands, green)'
    <3>1. ~partly /\ \A i \in DOMAIN plan : plan[i] = commands[i]
      BY <2>2, <2>3
    <3>2. plan = commands
      <4>1. plan \in Seq(PlanCommands) /\ commands \in Seq(PlanCommands)
        BY <1>1, <1>3 DEF GoodPlan
      <4>2. QED
        BY <1>3, <3>1, <4>1
    <3>3. GreenIsRange(commands, green)
      BY <3>1 DEF RangeInv
    <3>4. QED
      BY <1>1, <2>1, <3>2, <3>3, ShowSome DEF RangeInv
  <2>4. QED
    BY <1>1, <1>3, <2>1, <2>3, ShowSome DEF RangeInv
<1>4. CASE NoSuchCommand(Unmark(Unmark(commands, "isStart"), "isEnd"))
  <2>1. /\ GoodPlan(Unmark(Unmark(commands, "isStart"), "isEnd"))
        /\ DOMAIN Unmark(Unmark(commands, "isStart"), "isEnd")
             = DOMAIN commands
    BY <1>1, <1>2, UnmarkedTwice
  <2>2. QED
    BY <1>3, <1>4, <2>1
<1>5. CASE NoSuchCommand(Unmark(commands, "isEnd"))
  <2>1. /\ GoodPlan(Unmark(commands, "isEnd"))
        /\ DOMAIN Unmark(commands, "isEnd") = DOMAIN commands
    BY <1>1, <1>2, UnmarkedIsGood
  <2>2. QED
    BY <1>3, <1>5, <2>1
<1>6. CASE Show(commands, {}, TRUE)
  BY <1>1, <1>6, DrawnAll
<1>7. QED
  BY <1>4, <1>5, <1>6 DEF PopupOfNothing

\* The rows before the new one keep their color.
LEMMA Adds ==
  ASSUME RangeAssumption, RangeInv, AddCommand
  PROVE  RangeInv'
<1>1. PICK id \in Ids \ {commands[i].id : i \in DOMAIN commands} :
        Show(Append(commands, NewCommand(id)), {Len(commands) + 1}, FALSE)
  BY DEF AddCommand
<1> DEFINE c == NewCommand(id)
           plan == Append(commands, c)
<1>2. c \in PlanCommands /\ c.id = id /\ \A mark \in Marks : ~c[mark]
  BY DEF NewCommand, PlanCommands, Marks
<1>3. commands \in Seq(PlanCommands) /\ IdsDiffer(commands)
      /\ \A mark \in Marks : OneMark(commands, mark)
  BY DEF RangeInv, GoodPlan
<1> HIDE DEF c
<1>4. /\ plan \in Seq(PlanCommands)
      /\ \A mark \in Marks : OneMark(plan, mark)
      /\ \A i \in DOMAIN commands : IsGreen(plan, i) = IsGreen(commands, i)
  BY <1>2, <1>3, AppendedRows
<1>5. IdsDiffer(plan)
  <2>1. /\ DOMAIN plan = 1 .. Len(commands) + 1 /\ Len(commands) \in Nat
        /\ DOMAIN commands = 1 .. Len(commands)
        /\ plan[Len(commands) + 1] = c
        /\ \A k \in DOMAIN commands : plan[k] = commands[k]
    BY <1>3
  <2> HIDE DEF plan
  <2>2. \A k \in DOMAIN commands : plan[k].id # id
    BY <1>1, <2>1
  <2>3. QED
    BY <1>2, <1>3, <2>1, <2>2 DEF IdsDiffer
<1> HIDE DEF plan
<1>6. GoodPlan(plan)
  BY <1>4, <1>5 DEF GoodPlan
<1>7. Show(plan, {Len(commands) + 1}, FALSE)
  BY <1>1 DEF plan, c
<1>8. UNCHANGED <<popup, partly>>
  BY DEF AddCommand
<1>9. QED
  BY <1>4, <1>6, <1>7, <1>8, ShowSome DEF RangeInv

\* The rows before the one that is removed keep their color unless it had a
\* mark.
LEMMA RemovesOnMap ==
  ASSUME RangeAssumption, RangeInv, NEW i, RemoveOnMap(i)
  PROVE  RangeInv'
<1> DEFINE plan == RemoveAt(commands, i)
<1>1. /\ i \in DOMAIN commands
      /\ Show(plan, i .. Len(commands) - 1, FALSE)
      /\ partly' = (partly \/ commands[i].isStart \/ commands[i].isEnd)
      /\ UNCHANGED popup
  BY DEF RemoveOnMap
<1>2. GoodPlan(plan) /\ commands \in Seq(PlanCommands)
  BY <1>1, RemovedIsGood DEF RangeInv, GoodPlan
<1>3. DOMAIN plan = 1 .. Len(commands) - 1 /\ Len(commands) \in Nat
      /\ i \in Nat
  BY <1>1, <1>2, Removed DEF IsRemoved
<1> HIDE DEF plan
<1>4. ASSUME ~partly'
      PROVE  \A j \in DOMAIN plan \cap DOMAIN commands :
               \/ j \in i .. Len(commands) - 1
               \/ IsGreen(plan, j) = IsGreen(commands, j)
  <2>1. \A mark \in Marks : OneMark(commands, mark) /\ ~commands[i][mark]
    BY <1>1, <1>4 DEF Marks, RangeInv, GoodPlan
  <2>2. \A j \in DOMAIN commands :
          j < i => IsGreen(plan, j) = IsGreen(commands, j)
    BY <1>1, <1>2, <2>1, RemovedRows DEF plan
  <2>3. \A j \in DOMAIN plan : j < i \/ j \in i .. Len(commands) - 1
    BY <1>3
  <2>4. QED
    BY <2>2, <2>3
<1>5. QED
  BY <1>1, <1>2, <1>4, ShowSome DEF RangeInv

\* Another browser's change, which may draw all rows or only some.
LEMMA Changes ==
  ASSUME RangeAssumption, RangeInv, CommandsChanged
  PROVE  RangeInv'
<1>1. PICK i \in DOMAIN commands, all \in BOOLEAN :
        \/ Show(RemoveAt(commands, i), i .. Len(commands) - 1, all)
           /\ partly' = ~all
        \/ \E mark \in {"isStart", "isEnd"}, marked \in BOOLEAN :
             /\ marked => Marked(commands, mark) = {}
             /\ Show([commands EXCEPT ![i][mark] = marked], {i}, all)
             /\ partly' = ~all
  BY DEF CommandsChanged
<1>2. UNCHANGED popup /\ GoodPlan(commands)
  BY DEF CommandsChanged, RangeInv
<1>3. ASSUME NEW plan, GoodPlan(plan), NEW range, Show(plan, range, all),
             partly' = ~all
      PROVE  RangeInv'
  <2>1. CASE all = TRUE
    BY <1>2, <1>3, <2>1, DrawnAll DEF RangeInv
  <2>2. CASE all = FALSE
    BY <1>2, <1>3, <2>2, ShowSome DEF RangeInv
  <2>3. QED
    BY <1>1, <2>1, <2>2
<1>4. CASE Show(RemoveAt(commands, i), i .. Len(commands) - 1, all)
           /\ partly' = ~all
  BY <1>2, <1>3, <1>4, RemovedIsGood
<1>5. ASSUME NEW mark \in {"isStart", "isEnd"}, NEW marked \in BOOLEAN,
             marked => Marked(commands, mark) = {},
             Show([commands EXCEPT ![i][mark] = marked], {i}, all),
             partly' = ~all
      PROVE  RangeInv'
  <2>1. mark \in Marks /\ (marked => \A k \in DOMAIN commands :
                                         ~commands[k][mark])
    BY <1>5 DEF Marks, Marked
  <2>2. GoodPlan([commands EXCEPT ![i] =
                    [commands[i] EXCEPT ![mark] = marked]])
    BY <1>2, <2>1, MarkedIsGood
  <2>3. QED
    BY <1>3, <1>5, <2>2
<1>6. QED
  BY <1>1, <1>4, <1>5

LEMMA NoPlanIsGood == GoodPlan(<<>>)
  BY DEF GoodPlan, IdsDiffer, OneMark

LEMMA RangeInvariant ==
  ASSUME RangeAssumption
  PROVE  RangeSpec => []RangeInv
<1>1. RangeInit => RangeInv
  BY NoPlanIsGood, FS_CardinalityType
  DEF RangeInit, RangeInv, GreenIsRange, RangeAssumption
<1>2. ASSUME RangeInv, [RangeNext]_rangeVars PROVE RangeInv'
  <2>1. CASE UNCHANGED rangeVars
    BY <1>2, <2>1
    DEF rangeVars, RangeInv, GoodPlan, IdsDiffer, OneMark, GreenIsRange
  <2>2. ASSUME NEW i \in DOMAIN commands, ContextMenu(i) PROVE RangeInv'
    <3>1. /\ Len(commands) \in 0 .. Cardinality(Ids)
          /\ DOMAIN commands = 1 .. Len(commands)
      BY <1>2, FewCommands DEF RangeInv, GoodPlan
    <3>2. popup' \in 0 .. Cardinality(Ids)
      BY <2>2, <3>1, FS_CardinalityType DEF ContextMenu, RangeAssumption
    <3>3. QED
      BY <1>2, <2>2, <3>2
      DEF ContextMenu, RangeInv, GoodPlan, IdsDiffer, OneMark, GreenIsRange
  <2>3. CASE HideCmdPopup
    BY <1>2, <2>3, FS_CardinalityType
    DEF HideCmdPopup, RangeInv, GoodPlan, IdsDiffer, OneMark, GreenIsRange,
        RangeAssumption
  <2>4. CASE Popup
    BY <1>2, <2>4, Starts, Ends, Deletes, PopsUpForNothing DEF Popup
  <2>5. CASE WholePlan(<<>>)
    BY <1>2, <2>5, NoPlanIsGood, DrawnAll DEF WholePlan, RangeInv
  <2>6. ASSUME NEW i \in DOMAIN commands, OnCommandTypeChange(i)
        PROVE  RangeInv'
    BY <1>2, <2>6, Closing, ShowSome DEF OnCommandTypeChange, RangeInv
  <2>7. QED
    BY <1>2, <2>1, <2>2, <2>3, <2>4, <2>5, <2>6, Adds, Changes,
       RemovesOnMap, Sorts DEF RangeNext
<1>3. QED
  BY <1>1, <1>2, PTL DEF RangeSpec

\* There is a row for each command, and no more commands than ids.
THEOREM RangeTypeCorrect ==
  ASSUME RangeAssumption
  PROVE  RangeSpec => []RangeTypeOK
<1>1. ASSUME RangeInv PROVE RangeTypeOK
  <2>1. commands \in Seq(PlanCommands)
    BY <1>1 DEF RangeInv, GoodPlan
  <2>2. \A i \in DOMAIN commands : commands[i] \in PlanCommands
    BY <2>1
  <2>3. QED
    BY <1>1, <2>2 DEF RangeInv, RangeTypeOK, PlanCommands
<1>2. QED
  BY <1>1, RangeInvariant, PTL

LEMMA AtMostOne ==
  ASSUME NEW S, IsFiniteSet(S), \A i, j \in S : i = j
  PROVE  Cardinality(S) <= 1
<1>1. CASE S = {}
  BY <1>1, FS_EmptySet
<1>2. CASE S # {}
  <2>1. PICK i : S = {i}
    BY <1>2
  <2>2. QED
    BY <2>1, FS_Singleton
<1>3. QED
  BY <1>1, <1>2

\* However the plan is marked, changed, sorted and received, the start and the
\* end that are sent are the only ones, for any number of commands.
THEOREM OneStartAndOneEnd ==
  ASSUME RangeAssumption
  PROVE  RangeSpec => []OneStartOneEnd
<1>1. ASSUME RangeInv, NEW mark \in Marks
      PROVE  Cardinality(Marked(commands, mark)) <= 1
  <2>1. /\ DOMAIN commands = 1 .. Len(commands) /\ Len(commands) \in Nat
        /\ OneMark(commands, mark)
    BY <1>1 DEF RangeInv, GoodPlan
  <2>2. /\ Marked(commands, mark) \subseteq 1 .. Len(commands)
        /\ \A i, j \in Marked(commands, mark) : i = j
    BY <2>1 DEF Marked, OneMark
  <2>3. IsFiniteSet(Marked(commands, mark))
    <3>1. IsFiniteSet(1 .. Len(commands))
      BY <2>1, FS_Interval
    <3>2. QED
      BY <2>2, <3>1, FS_Subset
  <2>4. QED
    BY <2>2, <2>3, AtMostOne
<1>2. RangeInv => OneStartOneEnd
  BY <1>1 DEF OneStartOneEnd, Marks
<1>3. QED
  BY <1>2, RangeInvariant, PTL

\* The green rows are those that are sent, for a plan of any length, although
\* most changes draw only some of the rows.
THEOREM GreenRowsAreSent ==
  ASSUME RangeAssumption
  PROVE  RangeSpec => []GreenIsSent
<1>1. ASSUME RangeInv, ~partly
      PROVE  {i \in DOMAIN green : green[i]} = GetMission(commands)
  <2> DEFINE n == Len(commands)
             start0 == First(commands, "isStart", 0)
             start1 == First(commands, "isStart", 1)
             end == First(commands, "isEnd", n)
  <2>1. /\ commands \in Seq(PlanCommands)
        /\ \A mark \in Marks : OneMark(commands, mark)
        /\ "isStart" \in Marks /\ "isEnd" \in Marks
    BY <1>1 DEF RangeInv, GoodPlan, Marks
  <2>2. n \in Nat /\ DOMAIN commands = 1 .. n /\ DOMAIN green = 1 .. n
    BY <1>1, <2>1 DEF RangeInv
  <2>3. /\ IsFirst(commands, "isStart", 0, start0)
        /\ IsFirst(commands, "isStart", 1, start1)
        /\ IsFirst(commands, "isEnd", n, end)
    BY <2>1, FirstIsTheMarked
  <2> HIDE DEF n, start0, start1, end
  <2>4. \/ start0 \in 1 .. n /\ start1 = start0
        \/ start0 = 0 /\ start1 = 1
    BY <2>1, <2>2, <2>3 DEF IsFirst, OneMark
  <2>5. end \in 1 .. n \/ end = n
    BY <2>2, <2>3 DEF IsFirst
  <2>6. \A i \in 1 .. n :
          green[i] = (start0 > end \/ i \in start0 .. end)
    BY <1>1, <2>2 DEF RangeInv, GreenIsRange, IsGreen, start0, end, n
  <2>7. GetMission(commands) = IF start1 > end THEN 1 .. n ELSE start1 .. end
    BY <2>2 DEF GetMission, start1, end, n
  <2>8. ASSUME NEW i \in 1 .. n
        PROVE  i \in GetMission(commands) <=> green[i]
    <3>1. green[i] <=> start0 > end \/ i \in start0 .. end
      BY <2>6
    <3>2. i \in GetMission(commands) <=> start1 > end \/ i \in start1 .. end
      BY <2>7
    <3>3. CASE start0 = 0 /\ start1 = 1
      BY <2>2, <2>5, <3>1, <3>2, <3>3
    <3>4. CASE start0 \in 1 .. n /\ start1 = start0
      BY <3>1, <3>2, <3>4
    <3>5. QED
      BY <2>4, <3>3, <3>4
  <2>9. GetMission(commands) \subseteq 1 .. n
    <3>1. start1 >= 1 /\ start1 \in Int /\ end <= n /\ end \in Int
      BY <2>2, <2>4, <2>5
    <3>2. start1 .. end \subseteq 1 .. n
      BY <2>2, <3>1
    <3>3. QED
      BY <2>7, <3>2
  <2>10. QED
    BY <2>2, <2>8, <2>9
<1>2. RangeInv => GreenIsSent
  BY <1>1 DEF GreenIsSent
<1>3. QED
  BY <1>2, RangeInvariant, PTL

\* The window of a row is always the clicked command's, when only the list
\* changes the plan while it is open.
THEOREM WindowActsOnTheClicked ==
  ASSUME RangeAssumption, Careful
  PROVE  RangeSpec => []WindowIsForTheClicked
<1>1. RangeInit => WindowIsForTheClicked
  BY DEF RangeInit, WindowIsForTheClicked
<1>2. ASSUME RangeInv, WindowIsForTheClicked, [RangeNext]_rangeVars
      PROVE  WindowIsForTheClicked'
  <2>1. CASE AddCommand
    <3>1. PICK c : commands' = Append(commands, c)
      BY <2>1 DEF AddCommand, Show
    <3>2. /\ commands \in Seq(PlanCommands)
          /\ UNCHANGED <<popup, clicked>>
      BY <1>2, <2>1 DEF RangeInv, GoodPlan, AddCommand
    <3>3. \A k \in DOMAIN commands :
            k \in DOMAIN commands' /\ commands'[k] = commands[k]
      BY <3>1, <3>2
    <3>4. QED
      BY <1>2, <3>2, <3>3 DEF WindowIsForTheClicked
  <2>2. ASSUME NEW i \in DOMAIN commands, ContextMenu(i)
        PROVE  WindowIsForTheClicked'
    BY <2>2 DEF ContextMenu, WindowIsForTheClicked
  <2>3. CASE popup' = 0
    BY <2>3 DEF WindowIsForTheClicked
  <2>4. CASE Popup
    BY <2>3, <2>4 DEF Popup, SetCommandStart, SetCommandEnd, DeleteCommand,
                      PopupOfNothing, Close
  <2>5. QED
    BY <1>2, <2>1, <2>2, <2>3, <2>4
    DEF RangeNext, rangeVars, HideCmdPopup, CommandsChanged, WholePlan,
        OnCommandTypeChange, RemoveOnMap, OnSortEnd, Close,
        WindowIsForTheClicked
<1>3. QED
  BY <1>1, <1>2, RangeInvariant, PTL DEF RangeSpec

-----------------------------------------------------------------------------
(* The fields of a command.                                                *)

PositionTypes == {"Position2D", "Position3D"}
FieldPositions == [place : Places \cup {Origin}, altitude : Int]

\* Every field is of the command's type, and a position is one.
GoodFields(kind, fields) ==
  /\ DOMAIN fields \subseteq DOMAIN FieldTypes[kind]
  /\ \A name \in DOMAIN fields :
       FieldTypes[kind][name] \in PositionTypes
         => fields[name] \in FieldPositions

IsCommand(c) ==
  /\ c = [kind |-> c.kind, fields |-> c.fields, link |-> c.link,
          plain |-> c.plain]
  /\ c.kind \in Kinds

AreaHasCorners ==
  command.link = "area" => "surveyPolygon" \in DOMAIN command.fields

FieldsInv ==
  /\ IsCommand(command)
  /\ GoodFields(command.kind, command.fields)
  /\ LinkedIsThere /\ AreaHasCorners

\* The types of a kind, as a table.
LEMMA TypesOfKinds ==
  /\ Kinds = {"Nothing", "Sleep", "Waypoint", "Goto", "BombDrop", "Survey",
              "OffAxis"}
  /\ DOMAIN FieldTypes["Nothing"] = {}
  /\ DOMAIN FieldTypes["Sleep"] = {"time"}
  /\ DOMAIN FieldTypes["Waypoint"] = {"goal"}
  /\ DOMAIN FieldTypes["Goto"] = {"goal", "comeToStop"}
  /\ DOMAIN FieldTypes["BombDrop"] = {"dropZone"}
  /\ DOMAIN FieldTypes["Survey"] = {"surveyPolygon", "altitude"}
  /\ DOMAIN FieldTypes["OffAxis"] = {"photographerLocation",
                                     "subjectLocation"}
  BY DEF Kinds, FieldTypes

LEMMA TypesOfFields ==
  /\ FieldTypes["Sleep"]["time"] = "double"
  /\ FieldTypes["Waypoint"]["goal"] = "Position3D"
  /\ FieldTypes["Goto"]["goal"] = "Position3D"
  /\ FieldTypes["Goto"]["comeToStop"] = "bool"
  /\ FieldTypes["BombDrop"]["dropZone"] = "Position2D"
  /\ FieldTypes["Survey"]["surveyPolygon"] = "polygon"
  /\ FieldTypes["Survey"]["altitude"] = "double"
  /\ FieldTypes["OffAxis"]["photographerLocation"] = "Position3D"
  /\ FieldTypes["OffAxis"]["subjectLocation"] = "Position2D"
  BY DEF FieldTypes

LEMMA Keys ==
  /\ PosKey("Nothing") = NoKey /\ PosKey("Sleep") = NoKey
  /\ PosKey("Survey") = NoKey
  /\ PosKey("Waypoint") = "goal" /\ PosKey("Goto") = "goal"
  /\ PosKey("BombDrop") = "dropZone"
  /\ PosKey("OffAxis") = "photographerLocation"
  BY DEF PosKey

\* The key is that of a position of the type, or of none.
LEMMA KeyIsPosition ==
  ASSUME NEW kind \in Kinds
  PROVE  /\ PosKey(kind) # NoKey =>
              /\ PosKey(kind) \in DOMAIN FieldTypes[kind]
              /\ FieldTypes[kind][PosKey(kind)] \in PositionTypes
         /\ PosKey(kind) = NoKey => NoKey \notin DOMAIN FieldTypes[kind]
  BY TypesOfKinds, TypesOfFields, Keys DEF PositionTypes, NoKey

\* A field of the same name has the same type in every kind.
LEMMA SameNameSameType ==
  ASSUME NEW kind \in Kinds, NEW other \in Kinds,
         NEW name \in DOMAIN FieldTypes[kind] \cap DOMAIN FieldTypes[other]
  PROVE  FieldTypes[kind][name] = FieldTypes[other][name]
  BY TypesOfKinds, TypesOfFields

LEMMA PlacesOfPositions ==
  ASSUME NEW position \in FieldPositions, NEW place \in Places
  PROVE  [position EXCEPT !.place = place] \in FieldPositions
  BY DEF FieldPositions

\* Converting a position keeps its place.
LEMMA ConvertedPlace ==
  ASSUME NEW position \in FieldPositions, NEW type
  PROVE  /\ Converted(position, type) \in FieldPositions
         /\ Converted(position, type).place = position.place
  BY DEF Converted, FieldPositions, Unset

LEMMA MadePositions ==
  ASSUME FieldsAssumption, NEW type \in PositionTypes, NEW place \in Places
  PROVE  /\ AddField(type) \in FieldPositions
         /\ At(place, "Position2D").place = place
         /\ Position(place, 30) \in FieldPositions
         /\ Position(place, 30).place = place
  BY DEF AddField, At, Position, FieldPositions, PositionTypes, Unset

-----------------------------------------------------------------------------
(* A change of the type.                                                   *)

LEMMA MadeFields ==
  ASSUME FieldsAssumption, NEW c, c.kind \in Kinds,
         GoodFields(c.kind, c.fields), NEW kind \in Kinds
  PROVE  /\ GoodFields(kind, MakeCommand(c, kind))
         /\ PosKey(kind) # NoKey /\ Has(c.fields, PosKey(c.kind)) =>
              /\ Has(MakeCommand(c, kind), PosKey(kind))
              /\ MakeCommand(c, kind)[PosKey(kind)].place
                   = c.fields[PosKey(c.kind)].place
<1> DEFINE types == FieldTypes[kind]
           key == PosKey(kind)
           both == key # NoKey /\ Has(c.fields, PosKey(c.kind))
           position == c.fields[PosKey(c.kind)]
           moved == IF both
                    THEN [name \in DOMAIN c.fields \cup {key} |->
                            IF name = key
                            THEN Converted(position, types[name])
                            ELSE c.fields[name]]
                    ELSE c.fields
           made == MakeCommand(c, kind)
<1>1. made = [name \in {n \in DOMAIN types :
                          Has(moved, n) \/ IsNull(c, moved, n)} |->
                IF Has(moved, name) THEN moved[name]
                ELSE AddField(types[name])]
  BY DEF MakeCommand
<1>2. ASSUME both
      PROVE  /\ position \in FieldPositions
             /\ key \in DOMAIN types
  <2>1. PosKey(c.kind) \in DOMAIN FieldTypes[c.kind]
    BY <1>2 DEF Has, GoodFields
  <2>2. FieldTypes[c.kind][PosKey(c.kind)] \in PositionTypes
    BY <2>1, KeyIsPosition
  <2>3. QED
    BY <1>2, <2>2, KeyIsPosition DEF Has, GoodFields
<1>3. DOMAIN made \subseteq DOMAIN types
  BY <1>1
<1>4. ASSUME NEW name \in DOMAIN made, types[name] \in PositionTypes
      PROVE  made[name] \in FieldPositions
  <2>1. CASE ~Has(moved, name)
    <3>1. made[name] = AddField(types[name])
      BY <1>1, <2>1
    <3>2. QED
      BY <1>4, <3>1, MadePositions DEF FieldsAssumption
  <2>2. CASE both /\ name = key
    <3>1. made[name] = Converted(position, types[name])
      BY <1>1, <2>2 DEF Has
    <3>2. QED
      BY <1>2, <2>2, <3>1, ConvertedPlace
  <2>3. CASE Has(moved, name) /\ ~(both /\ name = key)
    <3>1. name \in DOMAIN c.fields /\ made[name] = c.fields[name]
      BY <1>1, <2>3 DEF Has
    <3>2. FieldTypes[c.kind][name] = types[name]
      BY <1>1, <3>1, SameNameSameType DEF GoodFields
    <3>3. QED
      BY <1>4, <3>1, <3>2 DEF GoodFields
  <2>4. QED
    BY <2>1, <2>2, <2>3
<1>5. ASSUME both
      PROVE  key \in DOMAIN made /\ made[key].place = position.place
  <2>1. key \in DOMAIN made /\ made[key] = Converted(position, types[key])
    BY <1>1, <1>2, <1>5 DEF Has
  <2>2. QED
    BY <1>2, <1>5, <2>1, ConvertedPlace
<1> HIDE DEF made
<1>6. GoodFields(kind, made)
  BY <1>3, <1>4 DEF GoodFields
<1>7. QED
  BY <1>5, <1>6 DEF made, Has

-----------------------------------------------------------------------------
(* Every edit keeps what the link promises.                                *)

\* The fields of a new command, whatever is left of the old one's.
LEMMA CommandMade ==
  ASSUME NEW kind \in Kinds, NEW fields, NEW link,
         command' = Command(kind, fields, link)
  PROVE  /\ IsCommand(command') /\ command'.kind = kind
         /\ command'.fields = fields /\ command'.link = link
  BY DEF Command, IsCommand

LEMMA FieldSet ==
  ASSUME FieldsInv, NEW name \in DOMAIN command.fields, NEW value,
         Set(name, value)
  PROVE  /\ IsCommand(command') /\ command'.kind = command.kind
         /\ command'.link = command.link
         /\ command'.fields = [command.fields EXCEPT ![name] = value]
  BY DEF FieldsInv, IsCommand, Set

\* A position is moved of a command without a link, or another's altitude set.
LEMMA PositionSet ==
  ASSUME FieldsInv, NEW name \in DOMAIN command.fields,
         NEW value \in FieldPositions, Set(name, value),
         FieldTypes[command.kind][name] \in PositionTypes,
         \/ command.link = "none"
         \/ value.place = command.fields[name].place
  PROVE  FieldsInv'
<1>1. /\ IsCommand(command') /\ command'.kind = command.kind
      /\ command'.link = command.link
      /\ command'.fields = [command.fields EXCEPT ![name] = value]
  BY FieldSet
<1>2. GoodFields(command.kind, command.fields)
  BY DEF FieldsInv
<1>3. GoodFields(command'.kind, command'.fields)
  BY <1>1, <1>2 DEF GoodFields
<1>4. LinkedIsThere'
  <2>1. CASE command.link = "none"
    BY <1>1, <2>1 DEF LinkedIsThere
  <2>2. CASE command.link = "point" /\ value.place = command.fields[name].place
    BY <1>1, <2>2 DEF LinkedIsThere, FieldsInv, Has
  <2>3. CASE command.link = "area" /\ value.place = command.fields[name].place
    <3>1. command.kind = "Survey" /\ name # "surveyPolygon"
      BY <2>3, TypesOfFields DEF LinkedIsThere, FieldsInv, PositionTypes
    <3>2. QED
      BY <1>1, <2>3, <3>1 DEF LinkedIsThere, FieldsInv
  <2>4. QED
    BY <1>1, <2>1, <2>2, <2>3 DEF LinkedIsThere
<1>5. QED
  BY <1>1, <1>3, <1>4 DEF FieldsInv, AreaHasCorners

LEMMA FieldChanges ==
  ASSUME FieldsInv, NEW name \in DOMAIN FieldTypes[command.kind],
         ChangedCommandField(name)
  PROVE  FieldsInv'
<1> DEFINE type == FieldTypes[command.kind][name]
           value == command.fields[name]
<1>1. /\ IsCommand(command) /\ command.kind \in Kinds
      /\ GoodFields(command.kind, command.fields)
      /\ LinkedIsThere
  BY DEF FieldsInv, IsCommand
<1>2. CASE type \in {"double", "bool"}
  <2> DEFINE fields == [n \in DOMAIN command.fields \cup {name} |->
                          IF n = name THEN Number ELSE command.fields[n]]
  <2>1. command' = [command EXCEPT !.fields = fields]
    BY <1>2 DEF ChangedCommandField
  <2>2. /\ IsCommand(command') /\ command'.kind = command.kind
        /\ command'.link = command.link /\ command'.fields = fields
    BY <1>1, <2>1 DEF IsCommand
  <2>3. /\ DOMAIN fields = DOMAIN command.fields \cup {name}
        /\ \A n \in DOMAIN command.fields :
             n # name => fields[n] = command.fields[n]
    OBVIOUS
  <2> HIDE DEF fields
  <2>4. GoodFields(command.kind, fields)
    BY <1>1, <1>2, <2>3 DEF GoodFields, PositionTypes
  <2>5. PosKey(command.kind) # NoKey => name # PosKey(command.kind)
    BY <1>1, <1>2, KeyIsPosition DEF PositionTypes
  <2>6. command.link = "point" => PosKey(command.kind) # NoKey
    BY <1>1, KeyIsPosition DEF LinkedIsThere, Has, GoodFields
  <2>7. command.kind = "Survey" => name # "surveyPolygon"
    BY <1>2, TypesOfFields
  <2>8. LinkedIsThere'
    <3>1. CASE command.link = "point"
      <4> DEFINE key == PosKey(command.kind)
      <4>1. /\ key \in DOMAIN command.fields /\ key # name
            /\ command.fields[key].place = Home
        BY <1>1, <2>5, <2>6, <3>1 DEF LinkedIsThere, Has
      <4>2. key \in DOMAIN fields /\ fields[key] = command.fields[key]
        BY <2>3, <4>1
      <4>3. QED
        BY <2>2, <3>1, <4>1, <4>2 DEF LinkedIsThere, Has
    <3>2. CASE command.link = "area"
      <4>1. command.kind = "Survey"
        BY <1>1, <3>2 DEF LinkedIsThere
      <4>2. fields.surveyPolygon = command.fields.surveyPolygon
        BY <2>3, <2>7, <3>2, <4>1 DEF FieldsInv, AreaHasCorners
      <4>3. QED
        BY <1>1, <2>2, <3>2, <4>1, <4>2 DEF LinkedIsThere
    <3>3. QED
      BY <2>2, <3>1, <3>2 DEF LinkedIsThere
  <2>9. QED
    BY <2>2, <2>3, <2>4, <2>8 DEF FieldsInv, AreaHasCorners
<1>3. CASE type = "polygon"
  <2>1. /\ name \in DOMAIN command.fields /\ command.link = "none"
        /\ \E v : Set(name, v)
    BY <1>3 DEF ChangedCommandField, Has
  <2>2. PICK v : Set(name, v)
    BY <2>1
  <2>3. /\ IsCommand(command') /\ command'.kind = command.kind
        /\ command'.link = "none"
        /\ command'.fields = [command.fields EXCEPT ![name] = v]
    BY <2>1, <2>2, FieldSet
  <2>4. GoodFields(command'.kind, command'.fields)
    BY <1>1, <1>3, <2>3 DEF GoodFields, PositionTypes
  <2>5. QED
    BY <2>3, <2>4 DEF FieldsInv, LinkedIsThere, AreaHasCorners
<1>4. CASE type \in PositionTypes
  <2>1. /\ name \in DOMAIN command.fields
        /\ \/ /\ command.link = "none"
              /\ \E p \in Places : Set(name, [value EXCEPT !.place = p])
           \/ \E altitude \in {0, 30} :
                Set(name, [value EXCEPT !.altitude = altitude])
    BY <1>4 DEF ChangedCommandField, Has, PositionTypes
  <2>2. value \in FieldPositions
    BY <1>1, <1>4, <2>1 DEF GoodFields
  <2> HIDE DEF value
  <2>3. ASSUME command.link = "none",
               NEW p \in Places, Set(name, [value EXCEPT !.place = p])
        PROVE  FieldsInv'
    <3>1. [value EXCEPT !.place = p] \in FieldPositions
      BY <2>2, PlacesOfPositions
    <3>2. QED
      BY <1>4, <2>1, <2>3, <3>1, PositionSet
  <2>4. ASSUME NEW altitude \in {0, 30},
               Set(name, [value EXCEPT !.altitude = altitude])
        PROVE  FieldsInv'
    <3>1. /\ [value EXCEPT !.altitude = altitude] \in FieldPositions
          /\ [value EXCEPT !.altitude = altitude].place = value.place
      BY <2>2 DEF FieldPositions
    <3>2. QED
      BY <1>4, <2>1, <2>4, <3>1, PositionSet DEF value
  <2>5. QED
    BY <2>1, <2>3, <2>4
<1>5. type \in {"double", "bool", "polygon"} \cup PositionTypes
  BY <1>1, TypesOfKinds, TypesOfFields DEF PositionTypes
<1>6. QED
  BY <1>2, <1>3, <1>4, <1>5

LEMMA Drags ==
  ASSUME FieldsInv, NEW place \in Places, Dragend(place)
  PROVE  FieldsInv'
<1> DEFINE key == PosKey(command.kind)
           value == [command.fields[key] EXCEPT !.place = place]
<1>1. /\ command.link = "none" /\ key \in DOMAIN command.fields
      /\ Set(key, value)
  BY DEF Dragend, Has
<1>2. command.kind \in Kinds /\ GoodFields(command.kind, command.fields)
  BY DEF FieldsInv, IsCommand
<1>3. FieldTypes[command.kind][key] \in PositionTypes
  BY <1>1, <1>2, KeyIsPosition DEF GoodFields
<1>4. value \in FieldPositions
  BY <1>1, <1>2, <1>3, PlacesOfPositions DEF GoodFields, Unset
<1> HIDE DEF value, key
<1>5. QED
  BY <1>1, <1>3, <1>4, PositionSet

LEMMA TypeChanges ==
  ASSUME FieldsAssumption, FieldsInv, NEW kind \in Kinds, ChangeType(kind)
  PROVE  FieldsInv'
<1> DEFINE fields == MakeCommand(command, kind)
           link == IF command.link = "point" /\ PosKey(kind) # NoKey
                   THEN "point" ELSE "none"
<1>1. command' = Command(kind, fields, link)
  BY DEF ChangeType
<1>2. /\ GoodFields(kind, fields)
      /\ PosKey(kind) # NoKey /\ Has(command.fields, PosKey(command.kind)) =>
           /\ Has(fields, PosKey(kind))
           /\ fields[PosKey(kind)].place
                = command.fields[PosKey(command.kind)].place
  BY MadeFields DEF FieldsInv, IsCommand
<1> HIDE DEF fields
<1>3. /\ IsCommand(command') /\ command'.kind = kind
      /\ command'.fields = fields /\ command'.link = link
  BY <1>1, CommandMade
<1>4. LinkedIsThere'
  BY <1>2, <1>3 DEF FieldsInv, LinkedIsThere
<1>5. QED
  BY <1>2, <1>3, <1>4 DEF FieldsInv, AreaHasCorners

LEMMA Makes ==
  ASSUME FieldsAssumption,
         \/ AddNothingCommand \/ AddSurveyCommand
         \/ \E p \in Places, link \in {"none", "point"} :
              AddGotoCommand(p, link)
  PROVE  FieldsInv'
<1>1. CASE AddNothingCommand
  <2>1. command' = Command("Nothing", <<>>, "none")
    BY <1>1 DEF AddNothingCommand
  <2>2. /\ IsCommand(command') /\ command'.kind = "Nothing"
        /\ command'.fields = <<>> /\ command'.link = "none"
    BY <2>1, TypesOfKinds, CommandMade
  <2>3. DOMAIN <<>> = {}
    OBVIOUS
  <2>4. QED
    BY <2>2, <2>3 DEF FieldsInv, GoodFields, LinkedIsThere, AreaHasCorners
<1>2. CASE AddSurveyCommand
  <2> DEFINE corners == [i \in 1 .. 3 |-> At(Area, "Position2D")]
             fields == [surveyPolygon |-> corners, altitude |-> Number]
  <2>1. command' = Command("Survey", fields, "area")
    BY <1>2 DEF AddSurveyCommand
  <2>2. /\ IsCommand(command') /\ command'.kind = "Survey"
        /\ command'.fields = fields /\ command'.link = "area"
    BY <2>1, TypesOfKinds, CommandMade
  <2>3. \A i \in DOMAIN corners : corners[i].place = Area
    BY MadePositions DEF FieldsAssumption, PositionTypes
  <2>4. GoodFields("Survey", fields)
    BY TypesOfKinds, TypesOfFields DEF GoodFields, PositionTypes
  <2>5. /\ fields.surveyPolygon = corners
        /\ "surveyPolygon" \in DOMAIN fields
    OBVIOUS
  <2> HIDE DEF fields
  <2>6. QED
    BY <2>2, <2>3, <2>4, <2>5 DEF FieldsInv, LinkedIsThere, AreaHasCorners
<1>3. ASSUME NEW p \in Places, NEW link \in {"none", "point"},
             AddGotoCommand(p, link)
      PROVE  FieldsInv'
  <2> DEFINE fields == [goal |-> Position(p, 30), comeToStop |-> Number]
  <2>1. /\ command' = Command("Goto", fields, link)
        /\ link = "point" => p = Home
    BY <1>3 DEF AddGotoCommand
  <2>2. /\ IsCommand(command') /\ command'.kind = "Goto"
        /\ command'.fields = fields /\ command'.link = link
    BY <2>1, TypesOfKinds, CommandMade
  <2>3. Position(p, 30) \in FieldPositions /\ Position(p, 30).place = p
    BY MadePositions DEF PositionTypes
  <2>4. GoodFields("Goto", fields)
    BY <2>3, TypesOfKinds, TypesOfFields DEF GoodFields, PositionTypes
  <2>5. fields.goal = Position(p, 30) /\ "goal" \in DOMAIN fields
    OBVIOUS
  <2> HIDE DEF fields
  <2>6. LinkedIsThere'
    BY <2>1, <2>2, <2>3, <2>5, Keys DEF LinkedIsThere, Has
  <2>7. QED
    BY <2>2, <2>4, <2>6 DEF FieldsInv, AreaHasCorners
<1>4. QED
  BY <1>1, <1>2, <1>3

LEMMA FieldsInvariant ==
  ASSUME FieldsAssumption
  PROVE  FieldsSpec => []FieldsInv
<1>1. FieldsInit => FieldsInv
  <2> SUFFICES ASSUME FieldsInit PROVE FieldsInv
    OBVIOUS
  <2>1. /\ IsCommand(command) /\ command.kind = "Nothing"
        /\ command.fields = <<>> /\ command.link = "none"
    BY TypesOfKinds DEF FieldsInit, Command, IsCommand
  <2>2. DOMAIN <<>> = {}
    OBVIOUS
  <2>3. QED
    BY <2>1, <2>2 DEF FieldsInv, GoodFields, LinkedIsThere, AreaHasCorners
<1>2. ASSUME FieldsInv, [FieldsNext]_fieldsVars PROVE FieldsInv'
  <2>1. CASE UNCHANGED fieldsVars
    BY <1>2, <2>1 DEF fieldsVars, FieldsInv, LinkedIsThere, AreaHasCorners
  <2>2. CASE ReturnFromServer
    <3>1. /\ IsCommand(command') /\ command'.kind = command.kind
          /\ command'.fields = command.fields /\ command'.link = command.link
      BY <1>2, <2>2 DEF ReturnFromServer, FieldsInv, IsCommand
    <3>2. QED
      BY <1>2, <3>1 DEF FieldsInv, LinkedIsThere, AreaHasCorners
  <2>3. QED
    BY <1>2, <2>1, <2>2, Makes, TypeChanges, FieldChanges, Drags
    DEF FieldsNext
<1>3. QED
  BY <1>1, <1>2, PTL DEF FieldsSpec

\* A command has only fields of its type, and one that stands for an object of
\* the mission is at the object, for any places and however it is edited.
THEOREM LinkedCommandsStay ==
  ASSUME FieldsAssumption
  PROVE  FieldsSpec => [](FieldsAreOfTheType /\ LinkedIsThere)
<1>1. FieldsInv => FieldsAreOfTheType /\ LinkedIsThere
  BY DEF FieldsInv, GoodFields, IsCommand, FieldsAreOfTheType
<1>2. QED
  BY <1>1, FieldsInvariant, PTL

\* A change of type between types that have a position keeps the place.
THEOREM TypeChangesKeepPlace ==
  ASSUME FieldsAssumption
  PROVE  FieldsSpec => PlaceKept
<1>1. FieldsInv /\ [FieldsNext]_fieldsVars => [KeepsPlace]_fieldsVars
  <2> SUFFICES ASSUME FieldsInv, NEW kind \in Kinds, ChangeType(kind),
                      Has(command.fields, PosKey(command.kind)),
                      PosKey(kind) # NoKey
               PROVE  /\ Has(command'.fields, PosKey(kind))
                      /\ command'.fields[PosKey(kind)].place
                           = command.fields[PosKey(command.kind)].place
    BY DEF KeepsPlace
  <2>1. command'.fields = MakeCommand(command, kind)
    BY CommandMade DEF ChangeType
  <2>2. QED
    BY <2>1, MadeFields DEF FieldsInv, IsCommand
<1>2. QED
  BY <1>1, FieldsInvariant, PTL DEF FieldsSpec, PlaceKept

-----------------------------------------------------------------------------
(* The text of a mission that is run.                                      *)

Byte == 0 .. 255

\* The bits of a byte, and of a digit, from the first.
LEMMA BitsOfAByte ==
  ASSUME NEW x \in Int
  PROVE  /\ BitOf(x, 8, 0) = (x % 256) \div 128
         /\ BitOf(x, 8, 1) = (x % 128) \div 64
         /\ BitOf(x, 8, 2) = (x % 64) \div 32
         /\ BitOf(x, 8, 3) = (x % 32) \div 16
         /\ BitOf(x, 8, 4) = (x % 16) \div 8
         /\ BitOf(x, 8, 5) = (x % 8) \div 4
         /\ BitOf(x, 8, 6) = (x % 4) \div 2
         /\ BitOf(x, 8, 7) = (x % 2) \div 1
BY DEF BitOf, Bits

LEMMA BitsOfADigit ==
  ASSUME NEW x \in Int
  PROVE  /\ BitOf(x, 6, 0) = (x % 64) \div 32
         /\ BitOf(x, 6, 1) = (x % 32) \div 16
         /\ BitOf(x, 6, 2) = (x % 16) \div 8
         /\ BitOf(x, 6, 3) = (x % 8) \div 4
         /\ BitOf(x, 6, 4) = (x % 4) \div 2
         /\ BitOf(x, 6, 5) = (x % 2) \div 1
BY DEF BitOf, Bits

\* The four digits of three bytes.
LEMMA DigitsOfAChunk ==
  ASSUME NEW a \in Byte, NEW b \in Byte, NEW c \in Byte
  PROVE  Chunk(a, b, c) = <<a \div 4, (a % 4) * 16 + b \div 16,
                            (b % 16) * 4 + c \div 64, c % 64>>
<1> DEFINE chunk == a * 65536 + b * 256 + c
<1>1. /\ Bits(chunk, 18, 24) = (chunk % 16777216) \div 262144
      /\ Bits(chunk, 12, 18) = (chunk % 262144) \div 4096
      /\ Bits(chunk, 6, 12) = (chunk % 4096) \div 64
      /\ Bits(chunk, 0, 6) = (chunk % 64) \div 1
  BY DEF Bits
<1>2. Chunk(a, b, c) = <<Bits(chunk, 18, 24), Bits(chunk, 12, 18),
                         Bits(chunk, 6, 12), Bits(chunk, 0, 6)>>
  BY DEF Chunk
<1>a. PICK h \in 0 .. 63, l \in 0 .. 3 :
        a = 4 * h + l /\ h = a \div 4 /\ l = a % 4
  BY DEF Byte
<1>b. PICK i \in 0 .. 15, j \in 0 .. 15 :
        b = 16 * i + j /\ i = b \div 16 /\ j = b % 16
  BY DEF Byte
<1>c. PICK m \in 0 .. 3, n \in 0 .. 63 :
        c = 64 * m + n /\ m = c \div 64 /\ n = c % 64
  BY DEF Byte
<1>3. chunk = 262144 * h + 65536 * l + 4096 * i + 256 * j + 64 * m + n
  BY <1>a, <1>b, <1>c
<1> HIDE DEF chunk
<1>4. (chunk % 16777216) \div 262144 = h
  BY <1>3
<1>5. (chunk % 262144) \div 4096 = l * 16 + i
  BY <1>3
<1>6. (chunk % 4096) \div 64 = j * 4 + m
  BY <1>3
<1>7. (chunk % 64) \div 1 = n
  BY <1>3
<1>8. QED
  BY <1>1, <1>2, <1>4, <1>5, <1>6, <1>7, <1>a, <1>b, <1>c

LEMMA BitsOfTheDigits ==
  ASSUME NEW a \in Byte, NEW b \in Byte, NEW c \in Byte,
         NEW d1, d1 = a \div 4, NEW d2, d2 = (a % 4) * 16 + b \div 16,
         NEW d3, d3 = (b % 16) * 4 + c \div 64, NEW d4, d4 = c % 64
  PROVE  /\ BitOf(d1, 6, 0) = BitOf(a, 8, 0)
         /\ BitOf(d1, 6, 1) = BitOf(a, 8, 1)
         /\ BitOf(d1, 6, 2) = BitOf(a, 8, 2)
         /\ BitOf(d1, 6, 3) = BitOf(a, 8, 3)
         /\ BitOf(d1, 6, 4) = BitOf(a, 8, 4)
         /\ BitOf(d1, 6, 5) = BitOf(a, 8, 5)
         /\ BitOf(d2, 6, 0) = BitOf(a, 8, 6)
         /\ BitOf(d2, 6, 1) = BitOf(a, 8, 7)
         /\ BitOf(d2, 6, 2) = BitOf(b, 8, 0)
         /\ BitOf(d2, 6, 3) = BitOf(b, 8, 1)
         /\ BitOf(d2, 6, 4) = BitOf(b, 8, 2)
         /\ BitOf(d2, 6, 5) = BitOf(b, 8, 3)
         /\ BitOf(d3, 6, 0) = BitOf(b, 8, 4)
         /\ BitOf(d3, 6, 1) = BitOf(b, 8, 5)
         /\ BitOf(d3, 6, 2) = BitOf(b, 8, 6)
         /\ BitOf(d3, 6, 3) = BitOf(b, 8, 7)
         /\ BitOf(d3, 6, 4) = BitOf(c, 8, 0)
         /\ BitOf(d3, 6, 5) = BitOf(c, 8, 1)
         /\ BitOf(d4, 6, 0) = BitOf(c, 8, 2)
         /\ BitOf(d4, 6, 1) = BitOf(c, 8, 3)
         /\ BitOf(d4, 6, 2) = BitOf(c, 8, 4)
         /\ BitOf(d4, 6, 3) = BitOf(c, 8, 5)
         /\ BitOf(d4, 6, 4) = BitOf(c, 8, 6)
         /\ BitOf(d4, 6, 5) = BitOf(c, 8, 7)
<1>1. /\ a \in Int /\ b \in Int /\ c \in Int
      /\ d1 \in Int /\ d2 \in Int /\ d3 \in Int /\ d4 \in Int
  BY DEF Byte
<1>2. /\ BitOf(d1, 6, 0) = BitOf(a, 8, 0)
      /\ BitOf(d1, 6, 1) = BitOf(a, 8, 1)
      /\ BitOf(d1, 6, 2) = BitOf(a, 8, 2)
      /\ BitOf(d1, 6, 3) = BitOf(a, 8, 3)
      /\ BitOf(d1, 6, 4) = BitOf(a, 8, 4)
      /\ BitOf(d1, 6, 5) = BitOf(a, 8, 5)
  <2>1. /\ BitOf(d1, 6, 0) = (d1 % 64) \div 32
        /\ BitOf(d1, 6, 1) = (d1 % 32) \div 16
        /\ BitOf(d1, 6, 2) = (d1 % 16) \div 8
        /\ BitOf(d1, 6, 3) = (d1 % 8) \div 4
        /\ BitOf(d1, 6, 4) = (d1 % 4) \div 2
        /\ BitOf(d1, 6, 5) = (d1 % 2) \div 1
    BY <1>1, BitsOfADigit
  <2>2. /\ BitOf(a, 8, 0) = (a % 256) \div 128
        /\ BitOf(a, 8, 1) = (a % 128) \div 64
        /\ BitOf(a, 8, 2) = (a % 64) \div 32
        /\ BitOf(a, 8, 3) = (a % 32) \div 16
        /\ BitOf(a, 8, 4) = (a % 16) \div 8
        /\ BitOf(a, 8, 5) = (a % 8) \div 4
    BY <1>1, BitsOfAByte
  <2>3. /\ (d1 % 64) \div 32 = (a % 256) \div 128
        /\ (d1 % 32) \div 16 = (a % 128) \div 64
        /\ (d1 % 16) \div 8 = (a % 64) \div 32
        /\ (d1 % 8) \div 4 = (a % 32) \div 16
        /\ (d1 % 4) \div 2 = (a % 16) \div 8
        /\ (d1 % 2) \div 1 = (a % 8) \div 4
    BY DEF Byte
  <2>4. QED
    BY <2>1, <2>2, <2>3
<1>3. /\ BitOf(d2, 6, 0) = BitOf(a, 8, 6)
      /\ BitOf(d2, 6, 1) = BitOf(a, 8, 7)
      /\ BitOf(d2, 6, 2) = BitOf(b, 8, 0)
      /\ BitOf(d2, 6, 3) = BitOf(b, 8, 1)
      /\ BitOf(d2, 6, 4) = BitOf(b, 8, 2)
      /\ BitOf(d2, 6, 5) = BitOf(b, 8, 3)
  <2>1. /\ BitOf(d2, 6, 0) = (d2 % 64) \div 32
        /\ BitOf(d2, 6, 1) = (d2 % 32) \div 16
        /\ BitOf(d2, 6, 2) = (d2 % 16) \div 8
        /\ BitOf(d2, 6, 3) = (d2 % 8) \div 4
        /\ BitOf(d2, 6, 4) = (d2 % 4) \div 2
        /\ BitOf(d2, 6, 5) = (d2 % 2) \div 1
    BY <1>1, BitsOfADigit
  <2>2. /\ BitOf(a, 8, 6) = (a % 4) \div 2
        /\ BitOf(a, 8, 7) = (a % 2) \div 1
        /\ BitOf(b, 8, 0) = (b % 256) \div 128
        /\ BitOf(b, 8, 1) = (b % 128) \div 64
        /\ BitOf(b, 8, 2) = (b % 64) \div 32
        /\ BitOf(b, 8, 3) = (b % 32) \div 16
    BY <1>1, BitsOfAByte
  <2>3. /\ (d2 % 64) \div 32 = (a % 4) \div 2
        /\ (d2 % 32) \div 16 = (a % 2) \div 1
    BY DEF Byte
  <2>4. /\ (d2 % 16) \div 8 = (b % 256) \div 128
        /\ (d2 % 8) \div 4 = (b % 128) \div 64
        /\ (d2 % 4) \div 2 = (b % 64) \div 32
        /\ (d2 % 2) \div 1 = (b % 32) \div 16
    BY DEF Byte
  <2>5. QED
    BY <2>1, <2>2, <2>3, <2>4
<1>4. /\ BitOf(d3, 6, 0) = BitOf(b, 8, 4)
      /\ BitOf(d3, 6, 1) = BitOf(b, 8, 5)
      /\ BitOf(d3, 6, 2) = BitOf(b, 8, 6)
      /\ BitOf(d3, 6, 3) = BitOf(b, 8, 7)
      /\ BitOf(d3, 6, 4) = BitOf(c, 8, 0)
      /\ BitOf(d3, 6, 5) = BitOf(c, 8, 1)
  <2>1. /\ BitOf(d3, 6, 0) = (d3 % 64) \div 32
        /\ BitOf(d3, 6, 1) = (d3 % 32) \div 16
        /\ BitOf(d3, 6, 2) = (d3 % 16) \div 8
        /\ BitOf(d3, 6, 3) = (d3 % 8) \div 4
        /\ BitOf(d3, 6, 4) = (d3 % 4) \div 2
        /\ BitOf(d3, 6, 5) = (d3 % 2) \div 1
    BY <1>1, BitsOfADigit
  <2>2. /\ BitOf(b, 8, 4) = (b % 16) \div 8
        /\ BitOf(b, 8, 5) = (b % 8) \div 4
        /\ BitOf(b, 8, 6) = (b % 4) \div 2
        /\ BitOf(b, 8, 7) = (b % 2) \div 1
        /\ BitOf(c, 8, 0) = (c % 256) \div 128
        /\ BitOf(c, 8, 1) = (c % 128) \div 64
    BY <1>1, BitsOfAByte
  <2>3. /\ (d3 % 64) \div 32 = (b % 16) \div 8
        /\ (d3 % 32) \div 16 = (b % 8) \div 4
    BY DEF Byte
  <2>4a. (d3 % 16) \div 8 = (b % 4) \div 2
    BY DEF Byte
  <2>4b. (d3 % 8) \div 4 = (b % 2) \div 1
    BY DEF Byte
  <2>5. /\ (d3 % 4) \div 2 = (c % 256) \div 128
        /\ (d3 % 2) \div 1 = (c % 128) \div 64
    BY DEF Byte
  <2>6. QED
    BY <2>1, <2>2, <2>3, <2>4a, <2>4b, <2>5
<1>5. /\ BitOf(d4, 6, 0) = BitOf(c, 8, 2)
      /\ BitOf(d4, 6, 1) = BitOf(c, 8, 3)
      /\ BitOf(d4, 6, 2) = BitOf(c, 8, 4)
      /\ BitOf(d4, 6, 3) = BitOf(c, 8, 5)
      /\ BitOf(d4, 6, 4) = BitOf(c, 8, 6)
      /\ BitOf(d4, 6, 5) = BitOf(c, 8, 7)
  <2>1. /\ BitOf(d4, 6, 0) = (d4 % 64) \div 32
        /\ BitOf(d4, 6, 1) = (d4 % 32) \div 16
        /\ BitOf(d4, 6, 2) = (d4 % 16) \div 8
        /\ BitOf(d4, 6, 3) = (d4 % 8) \div 4
        /\ BitOf(d4, 6, 4) = (d4 % 4) \div 2
        /\ BitOf(d4, 6, 5) = (d4 % 2) \div 1
    BY <1>1, BitsOfADigit
  <2>2. /\ BitOf(c, 8, 2) = (c % 64) \div 32
        /\ BitOf(c, 8, 3) = (c % 32) \div 16
        /\ BitOf(c, 8, 4) = (c % 16) \div 8
        /\ BitOf(c, 8, 5) = (c % 8) \div 4
        /\ BitOf(c, 8, 6) = (c % 4) \div 2
        /\ BitOf(c, 8, 7) = (c % 2) \div 1
    BY <1>1, BitsOfAByte
  <2>3. /\ (d4 % 64) \div 32 = (c % 64) \div 32
        /\ (d4 % 32) \div 16 = (c % 32) \div 16
        /\ (d4 % 16) \div 8 = (c % 16) \div 8
        /\ (d4 % 8) \div 4 = (c % 8) \div 4
        /\ (d4 % 4) \div 2 = (c % 4) \div 2
        /\ (d4 % 2) \div 1 = (c % 2) \div 1
    BY DEF Byte
  <2>4. QED
    BY <2>1, <2>2, <2>3
<1>6. QED
  BY <1>2, <1>3, <1>4, <1>5
\* Of three bytes as one text, bit m of the one is bit m of the other.
LEMMA ChunkKeepsBits ==
  ASSUME NEW a \in Byte, NEW b \in Byte, NEW c \in Byte, NEW m \in 0 .. 23
  PROVE  BitOf(Chunk(a, b, c)[m \div 6 + 1], 6, m % 6)
           = BitOf(<<a, b, c>>[m \div 8 + 1], 8, m % 8)
<1> DEFINE d1 == a \div 4
           d2 == (a % 4) * 16 + b \div 16
           d3 == (b % 16) * 4 + c \div 64
           d4 == c % 64
           text == <<d1, d2, d3, d4>>
           bytes == <<a, b, c>>
<1>1. Chunk(a, b, c) = text
  BY DigitsOfAChunk
<1>2. /\ text[1] = d1 /\ text[2] = d2 /\ text[3] = d3 /\ text[4] = d4
      /\ bytes[1] = a /\ bytes[2] = b /\ bytes[3] = c
  OBVIOUS
<1>3. /\ BitOf(d1, 6, 0) = BitOf(a, 8, 0)
      /\ BitOf(d1, 6, 1) = BitOf(a, 8, 1)
      /\ BitOf(d1, 6, 2) = BitOf(a, 8, 2)
      /\ BitOf(d1, 6, 3) = BitOf(a, 8, 3)
      /\ BitOf(d1, 6, 4) = BitOf(a, 8, 4)
      /\ BitOf(d1, 6, 5) = BitOf(a, 8, 5)
  BY BitsOfTheDigits
<1>4. /\ BitOf(d2, 6, 0) = BitOf(a, 8, 6)
      /\ BitOf(d2, 6, 1) = BitOf(a, 8, 7)
      /\ BitOf(d2, 6, 2) = BitOf(b, 8, 0)
      /\ BitOf(d2, 6, 3) = BitOf(b, 8, 1)
      /\ BitOf(d2, 6, 4) = BitOf(b, 8, 2)
      /\ BitOf(d2, 6, 5) = BitOf(b, 8, 3)
  BY BitsOfTheDigits
<1>5. /\ BitOf(d3, 6, 0) = BitOf(b, 8, 4)
      /\ BitOf(d3, 6, 1) = BitOf(b, 8, 5)
      /\ BitOf(d3, 6, 2) = BitOf(b, 8, 6)
      /\ BitOf(d3, 6, 3) = BitOf(b, 8, 7)
      /\ BitOf(d3, 6, 4) = BitOf(c, 8, 0)
      /\ BitOf(d3, 6, 5) = BitOf(c, 8, 1)
  BY BitsOfTheDigits
<1>6. /\ BitOf(d4, 6, 0) = BitOf(c, 8, 2)
      /\ BitOf(d4, 6, 1) = BitOf(c, 8, 3)
      /\ BitOf(d4, 6, 2) = BitOf(c, 8, 4)
      /\ BitOf(d4, 6, 3) = BitOf(c, 8, 5)
      /\ BitOf(d4, 6, 4) = BitOf(c, 8, 6)
      /\ BitOf(d4, 6, 5) = BitOf(c, 8, 7)
  BY BitsOfTheDigits
<1> HIDE DEF d1, d2, d3, d4, text, bytes
<1>7. BitOf(text[m \div 6 + 1], 6, m % 6) = BitOf(bytes[m \div 8 + 1], 8, m % 8)
  <2>1. CASE m \in 0 .. 5
    <3>1. m \div 6 + 1 = 1 /\ m % 6 = m - 0
      BY <2>1
    <3>2. QED
      BY <1>2, <1>3, <2>1, <3>1
  <2>2. CASE m \in 6 .. 11
    <3>1. m \div 6 + 1 = 2 /\ m % 6 = m - 6
      BY <2>2
    <3>2. QED
      BY <1>2, <1>4, <2>2, <3>1
  <2>3. CASE m \in 12 .. 17
    <3>1. m \div 6 + 1 = 3 /\ m % 6 = m - 12
      BY <2>3
    <3>2. QED
      BY <1>2, <1>5, <2>3, <3>1
  <2>4. CASE m \in 18 .. 23
    <3>1. m \div 6 + 1 = 4 /\ m % 6 = m - 18
      BY <2>4
    <3>2. QED
      BY <1>2, <1>6, <2>4, <3>1
  <2>5. QED
    BY <2>1, <2>2, <2>3, <2>4
<1>8. QED
  BY <1>1, <1>7 DEF bytes
\* What is left of the bytes goes as if zeros followed it, with paddings for
\* the digits that only these would have.
LEMMA RemainderOfOne ==
  ASSUME NEW a \in Byte
  PROVE  Remainder(<<a>>) = <<Chunk(a, 0, 0)[1], Chunk(a, 0, 0)[2], Pad, Pad>>
<1>1. Remainder(<<a>>) = <<Bits(a, 2, 8), Bits(a, 0, 2) * 2^4, Pad, Pad>>
  BY DEF Remainder
<1>2. /\ Bits(a, 2, 8) = (a % 256) \div 4
      /\ Bits(a, 0, 2) * 2^4 = ((a % 4) \div 1) * 16
  BY DEF Bits, Byte
<1>3. Chunk(a, 0, 0) = <<a \div 4, (a % 4) * 16 + 0 \div 16,
                         (0 % 16) * 4 + 0 \div 64, 0 % 64>>
  <2>1. 0 \in Byte
    BY DEF Byte
  <2>2. QED
    BY <2>1, DigitsOfAChunk
<1>4. /\ (a % 256) \div 4 = a \div 4
      /\ ((a % 4) \div 1) * 16 = (a % 4) * 16 + 0 \div 16
  BY DEF Byte
<1>5. QED
  BY <1>1, <1>2, <1>3, <1>4

LEMMA RemainderOfTwo ==
  ASSUME NEW a \in Byte, NEW b \in Byte
  PROVE  Remainder(<<a, b>>)
           = <<Chunk(a, b, 0)[1], Chunk(a, b, 0)[2], Chunk(a, b, 0)[3], Pad>>
<1> DEFINE chunk == a * 256 + b
<1>1. Remainder(<<a, b>>) = <<Bits(chunk, 10, 16), Bits(chunk, 4, 10),
                              Bits(chunk, 0, 4) * 2^2, Pad>>
  BY DEF Remainder
<1>2. /\ Bits(chunk, 10, 16) = (chunk % 65536) \div 1024
      /\ Bits(chunk, 4, 10) = (chunk % 1024) \div 16
      /\ Bits(chunk, 0, 4) * 2^2 = ((chunk % 16) \div 1) * 4
  BY DEF Bits, Byte
<1>3. Chunk(a, b, 0) = <<a \div 4, (a % 4) * 16 + b \div 16,
                         (b % 16) * 4 + 0 \div 64, 0 % 64>>
  <2>1. 0 \in Byte
    BY DEF Byte
  <2>2. QED
    BY <2>1, DigitsOfAChunk
<1>a. PICK h \in 0 .. 63, l \in 0 .. 3 :
        a = 4 * h + l /\ h = a \div 4 /\ l = a % 4
  BY DEF Byte
<1>b. PICK i \in 0 .. 15, j \in 0 .. 15 :
        b = 16 * i + j /\ i = b \div 16 /\ j = b % 16
  BY DEF Byte
<1>c. chunk = 1024 * h + 256 * l + 16 * i + j
  BY <1>a, <1>b
<1> HIDE DEF chunk
<1>4. (chunk % 65536) \div 1024 = h
  BY <1>c
<1>5. (chunk % 1024) \div 16 = l * 16 + i
  BY <1>c
<1>6. ((chunk % 16) \div 1) * 4 = j * 4
  BY <1>c
<1>7. /\ (chunk % 65536) \div 1024 = a \div 4
      /\ (chunk % 1024) \div 16 = (a % 4) * 16 + b \div 16
      /\ ((chunk % 16) \div 1) * 4 = (b % 16) * 4 + 0 \div 64
  BY <1>4, <1>5, <1>6, <1>a, <1>b
<1>8. QED
  BY <1>1, <1>2, <1>3, <1>7

LEMMA BitsOfZero ==
  ASSUME NEW i \in 0 .. 7
  PROVE  BitOf(0, 8, i) = 0
<1>1. /\ BitOf(0, 8, 0) = (0 % 256) \div 128
      /\ BitOf(0, 8, 1) = (0 % 128) \div 64
      /\ BitOf(0, 8, 2) = (0 % 64) \div 32
      /\ BitOf(0, 8, 3) = (0 % 32) \div 16
      /\ BitOf(0, 8, 4) = (0 % 16) \div 8
      /\ BitOf(0, 8, 5) = (0 % 8) \div 4
      /\ BitOf(0, 8, 6) = (0 % 4) \div 2
      /\ BitOf(0, 8, 7) = (0 % 2) \div 1
  BY BitsOfAByte
<1>2. QED
  BY <1>1

\* Where a bit is among the digits and among the bytes.
LEMMA PlaceOfABit ==
  ASSUME NEW k \in Nat, NEW i, i = k \div 24, NEW m, m = k % 24
  PROVE  /\ i \in Nat /\ m \in 0 .. 23 /\ k = 24 * i + m
         /\ k \div 6 = 4 * i + m \div 6 /\ k % 6 = m % 6
         /\ k \div 8 = 3 * i + m \div 8 /\ k % 8 = m % 8
         /\ m \div 6 \in 0 .. 3 /\ m \div 8 \in 0 .. 2
         /\ m % 6 \in 0 .. 5 /\ m % 8 \in 0 .. 7
<1>1. i \in Nat /\ m \in 0 .. 23 /\ k = 24 * i + m
  OBVIOUS
<1>2. k \div 6 = 4 * i + m \div 6 /\ k % 6 = m % 6
  BY <1>1
<1>3. k \div 8 = 3 * i + m \div 8 /\ k % 8 = m % 8
  BY <1>1
<1>4. /\ m \div 6 \in 0 .. 3 /\ m \div 8 \in 0 .. 2
      /\ m % 6 \in 0 .. 5 /\ m % 8 \in 0 .. 7
  BY <1>1
<1>5. QED
  BY <1>1, <1>2, <1>3, <1>4

\* The digit at a place, in the chunks and in what is left.
Whole(bytes) == Len(bytes) \div 3
Left(bytes)  == SubSeq(bytes, 3 * Whole(bytes) + 1, Len(bytes))
Zero(bytes, j) == IF j <= Len(bytes) THEN bytes[j] ELSE 0

Parts(n, w, r) == n \in Nat /\ w \in Nat /\ r \in 0 .. 2 /\ n = 3 * w + r

RangesOfParts(n, w, r) ==
  /\ 3 * w + 1 \in Int /\ n \in Int
  /\ \A j \in 3 * w + 1 .. n : j \in 1 .. n
  /\ r = IF 3 * w + 1 <= n THEN n - (3 * w + 1) + 1 ELSE 0
  /\ \A j \in 1 .. r : /\ j \in 1 .. n - (3 * w + 1) + 1
                       /\ (3 * w + 1) + j - 1 = 3 * w + j
  /\ r >= 1 => 3 * w + 1 \in 1 .. n
  /\ r = 2 => 3 * w + 2 \in 1 .. n
  /\ (3 * w + 1 <= n) = (r >= 1) /\ (3 * w + 2 <= n) = (r = 2)

LEMMA PartsHaveRanges ==
  ASSUME NEW n, NEW w, NEW r, Parts(n, w, r)
  PROVE  RangesOfParts(n, w, r)
BY DEF Parts, RangesOfParts

LEMMA PartsOfALength ==
  ASSUME NEW n \in Nat
  PROVE  Parts(n, n \div 3, n % 3)
BY DEF Parts

LeftGoes(bytes, n, w, r) ==
  /\ Left(bytes) \in Seq(Byte) /\ Len(Left(bytes)) = r
  /\ \A j \in 1 .. r : Left(bytes)[j] = bytes[3 * w + j]

LEMMA LeftOfBytes ==
  ASSUME NEW bytes \in Seq(Byte), NEW w, w = Whole(bytes), NEW r,
         Parts(Len(bytes), w, r)
  PROVE  LeftGoes(bytes, Len(bytes), w, r)
<1> DEFINE n == Len(bytes)
           p == 3 * w + 1
           rest == SubSeq(bytes, p, n)
<1>1. RangesOfParts(n, w, r)
  BY PartsHaveRanges
<1>2. \A j \in 1 .. n : bytes[j] \in Byte
  BY ElementOfSeq
<1>3. Left(bytes) = rest
  BY DEF Left
<1> HIDE DEF n
<1>4. /\ p \in Int /\ n \in Int
      /\ \A j \in p .. n : j \in 1 .. n
      /\ r = IF p <= n THEN n - p + 1 ELSE 0
      /\ \A j \in 1 .. r : j \in 1 .. n - p + 1 /\ p + j - 1 = 3 * w + j
  BY <1>1 DEF RangesOfParts
<1> HIDE DEF p
<1>5. \A j \in p .. n : bytes[j] \in Byte
  BY <1>2, <1>4
<1>6. /\ rest \in Seq(Byte)
      /\ Len(rest) = IF p <= n THEN n - p + 1 ELSE 0
      /\ \A j \in 1 .. n - p + 1 : rest[j] = bytes[p + j - 1]
  <2>1. p \in Int /\ n \in Int
    BY <1>4
  <2>2. rest \in Seq(Byte)
    BY <1>5, <2>1, SubSeqProperties
  <2>3. Len(rest) = IF p <= n THEN n - p + 1 ELSE 0
    BY <1>5, <2>1, SubSeqProperties
  <2>4. \A j \in 1 .. n - p + 1 : rest[j] = bytes[p + j - 1]
    BY <1>5, <2>1, SubSeqProperties
  <2>5. QED
    BY <2>2, <2>3, <2>4
<1> HIDE DEF rest
<1>7. Len(rest) = r
  BY <1>4, <1>6
<1>8. \A j \in 1 .. r : rest[j] = bytes[3 * w + j]
  BY <1>4, <1>6, Zenon
<1>9. QED
  BY <1>3, <1>6, <1>7, <1>8, Zenon DEF LeftGoes

LEMMA RemainderOfLeft ==
  ASSUME NEW bytes \in Seq(Byte), NEW w, w = Whole(bytes), NEW r,
         Parts(Len(bytes), w, r), NEW x, x = Zero(bytes, 3 * w + 1),
         NEW y, y = Zero(bytes, 3 * w + 2)
  PROVE  /\ x \in Byte /\ y \in Byte
         /\ r = 0 => Remainder(Left(bytes)) = <<>>
         /\ r = 1 => /\ y = 0
                     /\ Remainder(Left(bytes)) =
                          <<Chunk(x, y, 0)[1], Chunk(x, y, 0)[2], Pad, Pad>>
         /\ r = 2 => Remainder(Left(bytes)) =
                       <<Chunk(x, y, 0)[1], Chunk(x, y, 0)[2],
                         Chunk(x, y, 0)[3], Pad>>
<1> DEFINE n == Len(bytes)
           rest == Left(bytes)
<1>1. /\ n \in Nat /\ w \in Nat /\ r \in 0 .. 2 /\ n = 3 * w + r
      /\ rest \in Seq(Byte) /\ Len(rest) = r
      /\ \A j \in 1 .. r : rest[j] = bytes[3 * w + j]
  <2>1. LeftGoes(bytes, n, w, r)
    BY LeftOfBytes
  <2>2. QED
    BY <2>1, Zenon DEF LeftGoes, Parts
<1>2. \A j \in 1 .. n : bytes[j] \in Byte
  BY ElementOfSeq
<1>3. 0 \in Byte
  BY DEF Byte
<1>b. /\ r >= 1 => 3 * w + 1 \in 1 .. n
      /\ r = 2 => 3 * w + 2 \in 1 .. n
      /\ (3 * w + 1 <= n) = (r >= 1) /\ (3 * w + 2 <= n) = (r = 2)
  <2>1. RangesOfParts(n, w, r)
    BY PartsHaveRanges
  <2>2. QED
    BY <2>1, Zenon DEF RangesOfParts
<1>4. x = IF r >= 1 THEN bytes[3 * w + 1] ELSE 0
  <2>1. x = IF 3 * w + 1 <= n THEN bytes[3 * w + 1] ELSE 0
    BY Zenon DEF Zero
  <2>2. QED
    BY <1>b, <2>1, Zenon
<1>5. y = IF r = 2 THEN bytes[3 * w + 2] ELSE 0
  <2>1. y = IF 3 * w + 2 <= n THEN bytes[3 * w + 2] ELSE 0
    BY Zenon DEF Zero
  <2>2. QED
    BY <1>b, <2>1, Zenon
<1> HIDE DEF n, rest
<1>6. x \in Byte
  BY <1>2, <1>3, <1>4, <1>b, Zenon
<1>7. y \in Byte
  BY <1>2, <1>3, <1>5, <1>b, Zenon
<1>8. r = 0 => Remainder(rest) = <<>>
  BY <1>1 DEF Remainder
<1>9. ASSUME r = 1
      PROVE  /\ y = 0
             /\ Remainder(rest)
                  = <<Chunk(x, y, 0)[1], Chunk(x, y, 0)[2], Pad, Pad>>
  <2>1. y = 0
    BY <1>5, <1>9
  <2>2. rest = <<x>>
    <3>1. Len(rest) = 1 /\ rest[1] = x
      BY <1>1, <1>4, <1>9
    <3>2. <<x>> \in Seq(Byte)
      BY <1>6
    <3>3. Len(<<x>>) = 1 /\ <<x>>[1] = x
      OBVIOUS
    <3>4. Len(rest) = Len(<<x>>) /\ \A j \in 1 .. Len(rest) : rest[j] = <<x>>[j]
      BY <3>1, <3>3
    <3>5. QED
      BY <1>1, <3>2, <3>4, SeqEqual
  <2>3. Remainder(<<x>>) = <<Chunk(x, 0, 0)[1], Chunk(x, 0, 0)[2], Pad, Pad>>
    BY <1>6, RemainderOfOne
  <2>4. QED
    BY <2>1, <2>2, <2>3
<1>10. ASSUME r = 2
       PROVE  Remainder(rest)
                = <<Chunk(x, y, 0)[1], Chunk(x, y, 0)[2], Chunk(x, y, 0)[3], Pad>>
  <2>1. rest = <<x, y>>
    <3>1. Len(rest) = 2 /\ rest[1] = x /\ rest[2] = y
      BY <1>1, <1>4, <1>5, <1>10
    <3>2. <<x, y>> \in Seq(Byte)
      BY <1>6, <1>7
    <3>3. Len(<<x, y>>) = 2 /\ <<x, y>>[1] = x /\ <<x, y>>[2] = y
      OBVIOUS
    <3>4. Len(rest) = Len(<<x, y>>)
          /\ \A j \in 1 .. Len(rest) : rest[j] = <<x, y>>[j]
      BY <3>1, <3>3
    <3>5. QED
      BY <1>1, <3>2, <3>4, SeqEqual
  <2>2. Remainder(<<x, y>>)
          = <<Chunk(x, y, 0)[1], Chunk(x, y, 0)[2], Chunk(x, y, 0)[3], Pad>>
    BY <1>6, <1>7, RemainderOfTwo
  <2>3. QED
    BY <2>1, <2>2
<1>11. rest = Left(bytes)
  BY DEF rest
<1>12. QED
  BY <1>6, <1>7, <1>8, <1>9, <1>10, <1>11
\* The digits of the chunks, and those of what is left.
DigitAt(bytes, k) ==
  LET i == 3 * ((k - 1) \div 4)
  IN  Chunk(bytes[i + 1], bytes[i + 2], bytes[i + 3])[((k - 1) % 4) + 1]
Chunks(bytes) == [k \in 1 .. 4 * Whole(bytes) |-> DigitAt(bytes, k)]

LEMMA TextHasTwoParts ==
  ASSUME NEW bytes
  PROVE  Bin2String(bytes) = Chunks(bytes) \o Remainder(Left(bytes))
BY DEF Bin2String, Chunks, DigitAt, Left, Whole

\* A chunk has four digits.
LEMMA ChunksHaveDigits ==
  ASSUME NEW a \in Byte, NEW b \in Byte, NEW c \in Byte, NEW j \in 1 .. 4
  PROVE  Chunk(a, b, c)[j] \in Int
<1>1. Chunk(a, b, c) = <<a \div 4, (a % 4) * 16 + b \div 16,
                         (b % 16) * 4 + c \div 64, c % 64>>
  BY DigitsOfAChunk
<1>2. /\ a \div 4 \in Int /\ (a % 4) * 16 + b \div 16 \in Int
      /\ (b % 16) * 4 + c \div 64 \in Int /\ c % 64 \in Int
  BY DEF Byte
<1>3. QED
  BY <1>1, <1>2

\* The bytes of the chunk that a bit of the chunks is in.
InChunks(k, i, m, w) ==
  /\ i \in Nat /\ m \in 0 .. 23 /\ k = 24 * i + m /\ i < w
  /\ 3 * i + 1 \in 1 .. 3 * w /\ 3 * i + 2 \in 1 .. 3 * w
  /\ 3 * i + 3 \in 1 .. 3 * w
  /\ k \div 6 + 1 \in 1 .. 4 * w
  /\ 3 * ((k \div 6 + 1 - 1) \div 4) = 3 * i
  /\ ((k \div 6 + 1 - 1) % 4) + 1 = m \div 6 + 1
  /\ k % 6 = m % 6 /\ k % 8 = m % 8
  /\ m \div 8 \in 0 .. 2 /\ k \div 8 + 1 = 3 * i + (m \div 8 + 1)

LEMMA BitsInChunks ==
  ASSUME NEW w \in Nat, NEW k \in Nat, k < 24 * w
  PROVE  InChunks(k, k \div 24, k % 24, w)
<1> DEFINE i == k \div 24
           m == k % 24
<1>1. /\ i \in Nat /\ m \in 0 .. 23 /\ k = 24 * i + m
      /\ k \div 6 = 4 * i + m \div 6 /\ k % 6 = m % 6
      /\ k \div 8 = 3 * i + m \div 8 /\ k % 8 = m % 8
      /\ m \div 6 \in 0 .. 3 /\ m \div 8 \in 0 .. 2
  BY PlaceOfABit
<1> HIDE DEF i, m
<1>2. i < w
  BY <1>1
<1>3. (k \div 6) \div 4 = i /\ (k \div 6) % 4 = m \div 6
  BY <1>1
<1>4. k \div 6 + 1 \in 1 .. 4 * w
  BY <1>1, <1>2
<1>5. k \div 6 + 1 - 1 = k \div 6
  BY <1>1
<1>6. /\ 3 * i + 1 \in 1 .. 3 * w /\ 3 * i + 2 \in 1 .. 3 * w
      /\ 3 * i + 3 \in 1 .. 3 * w
  BY <1>1, <1>2
<1>7. k \div 8 + 1 = 3 * i + (m \div 8 + 1)
  BY <1>1
<1>8. InChunks(k, i, m, w)
  BY <1>1, <1>2, <1>3, <1>4, <1>5, <1>6, <1>7 DEF InChunks
<1>9. QED
  BY <1>8 DEF i, m

\* The bits of the chunks are those of their bytes.
LEMMA ChunksKeepBits ==
  ASSUME NEW bytes \in Seq(Byte), NEW w \in Nat, w = Whole(bytes),
         3 * w <= Len(bytes), NEW k \in Nat, k < 24 * w
  PROVE  /\ k \div 6 + 1 \in 1 .. 4 * w
         /\ BitOf(Chunks(bytes)[k \div 6 + 1], 6, k % 6)
              = BitOf(bytes[k \div 8 + 1], 8, k % 8)
<1> DEFINE i == k \div 24
           m == k % 24
           q == k \div 6 + 1
           a == bytes[3 * i + 1]
           b == bytes[3 * i + 2]
           c == bytes[3 * i + 3]
           three == <<a, b, c>>
<1>1. InChunks(k, i, m, w)
  BY BitsInChunks
<1> HIDE DEF i, m, q
<1>2. \A j \in 1 .. 3 * w : bytes[j] \in Byte
  <2>1. \A j \in 1 .. Len(bytes) : bytes[j] \in Byte
    BY ElementOfSeq
  <2>2. Len(bytes) \in Nat
    BY LenProperties
  <2>3. \A j \in 1 .. 3 * w : j \in 1 .. Len(bytes)
    BY <2>2
  <2>4. QED
    BY <2>1, <2>3
<1>3. a \in Byte /\ b \in Byte /\ c \in Byte
  BY <1>1, <1>2, Zenon DEF InChunks
<1>4. Chunks(bytes)[q] = Chunk(a, b, c)[m \div 6 + 1]
  <2>1. q \in 1 .. 4 * Whole(bytes)
    BY <1>1 DEF InChunks, q
  <2>2. Chunks(bytes)[q] = DigitAt(bytes, q)
    BY <2>1, Zenon DEF Chunks
  <2>3. 3 * ((q - 1) \div 4) = 3 * i /\ ((q - 1) % 4) + 1 = m \div 6 + 1
    <3>1. q = k \div 6 + 1
      BY DEF q
    <3>2. /\ 3 * ((k \div 6 + 1 - 1) \div 4) = 3 * i
          /\ ((k \div 6 + 1 - 1) % 4) + 1 = m \div 6 + 1
      BY <1>1, Zenon DEF InChunks
    <3>3. QED
      BY <3>1, <3>2
  <2>4. DigitAt(bytes, q) = Chunk(a, b, c)[m \div 6 + 1]
    BY <2>3, Zenon DEF DigitAt
  <2>5. QED
    BY <2>2, <2>4
<1>5. m \in 0 .. 23
  BY <1>1 DEF InChunks
<1> HIDE DEF a, b, c
<1>6. BitOf(Chunk(a, b, c)[m \div 6 + 1], 6, m % 6)
        = BitOf(three[m \div 8 + 1], 8, m % 8)
  BY <1>3, <1>5, ChunkKeepsBits
<1>7. three[m \div 8 + 1] = bytes[k \div 8 + 1]
  <2>1. three[1] = a /\ three[2] = b /\ three[3] = c
    OBVIOUS
  <2>2. m \div 8 = 0 \/ m \div 8 = 1 \/ m \div 8 = 2
    BY <1>5
  <2>3. k \div 8 + 1 = 3 * i + (m \div 8 + 1)
    BY <1>1 DEF InChunks
  <2>4. CASE m \div 8 = 0
    BY <2>1, <2>3, <2>4 DEF a
  <2>5. CASE m \div 8 = 1
    BY <2>1, <2>3, <2>5 DEF b
  <2>6. CASE m \div 8 = 2
    BY <2>1, <2>3, <2>6 DEF c
  <2>7. QED
    BY <2>2, <2>4, <2>5, <2>6
<1>8. k % 6 = m % 6 /\ k % 8 = m % 8 /\ q \in 1 .. 4 * w
  BY <1>1 DEF InChunks, q
<1>9. QED
  BY <1>4, <1>6, <1>7, <1>8, Zenon DEF q
\* The bits of what is left are those of its bytes, and zeros.
LEMMA LeftKeepsBits ==
  ASSUME NEW bytes \in Seq(Byte), NEW w, w = Whole(bytes), NEW r,
         Parts(Len(bytes), w, r), r > 0, NEW m \in 0 .. 6 * (r + 1) - 1
  PROVE  BitOf(Remainder(Left(bytes))[m \div 6 + 1], 6, m % 6)
           = IF m < 8 * r THEN BitOf(bytes[3 * w + (m \div 8 + 1)], 8, m % 8)
             ELSE 0
<1> DEFINE x == Zero(bytes, 3 * w + 1)
           y == Zero(bytes, 3 * w + 2)
           R == Remainder(Left(bytes))
           C == Chunk(x, y, 0)
           three == <<x, y, 0>>
<1>1. /\ x \in Byte /\ y \in Byte
      /\ r = 1 => y = 0 /\ R = <<C[1], C[2], Pad, Pad>>
      /\ r = 2 => R = <<C[1], C[2], C[3], Pad>>
  BY RemainderOfLeft
<1>2. /\ r = 1 \/ r = 2
      /\ 3 * w + 1 \in 1 .. Len(bytes)
      /\ r = 2 => 3 * w + 2 \in 1 .. Len(bytes)
  <2>1. r \in 0 .. 2
    BY DEF Parts
  <2>2. RangesOfParts(Len(bytes), w, r)
    BY PartsHaveRanges
  <2>3. r = 1 \/ r = 2
    BY <2>1
  <2>4. r >= 1
    BY <2>3
  <2>5. QED
    BY <2>2, <2>3, <2>4, Zenon DEF RangesOfParts
<1>3. x = bytes[3 * w + 1] /\ (r = 2 => y = bytes[3 * w + 2])
  <2>1. Len(bytes) \in Nat
    BY LenProperties
  <2>2. 3 * w + 1 <= Len(bytes) /\ (r = 2 => 3 * w + 2 <= Len(bytes))
    BY <1>2, <2>1
  <2>3. QED
    BY <2>2, Zenon DEF Zero
<1> HIDE DEF x, y, R, C
<1>4. m \in 0 .. 23 /\ 0 \in Byte
  BY <1>2 DEF Byte
<1>5. BitOf(C[m \div 6 + 1], 6, m % 6) = BitOf(three[m \div 8 + 1], 8, m % 8)
  BY <1>1, <1>4, ChunkKeepsBits DEF C
<1>6. R[m \div 6 + 1] = C[m \div 6 + 1]
  <2>1. CASE r = 1
    <3>1. m \div 6 + 1 = 1 \/ m \div 6 + 1 = 2
      BY <1>4, <2>1
    <3>2. R[1] = C[1] /\ R[2] = C[2]
      BY <1>1, <2>1
    <3>3. QED
      BY <3>1, <3>2, Zenon
  <2>2. CASE r = 2
    <3>1. m \div 6 + 1 = 1 \/ m \div 6 + 1 = 2 \/ m \div 6 + 1 = 3
      BY <1>4, <2>2
    <3>2. R[1] = C[1] /\ R[2] = C[2] /\ R[3] = C[3]
      BY <1>1, <2>2
    <3>3. QED
      BY <3>1, <3>2, Zenon
  <2>3. QED
    BY <1>2, <2>1, <2>2
<1>7. three[1] = x /\ three[2] = y /\ three[3] = 0
  OBVIOUS
<1> HIDE DEF three
<1>8. m % 8 \in 0 .. 7
  BY <1>4
<1>9. CASE m < 8 * r
  <2>1. \/ m \div 8 = 0
        \/ m \div 8 = 1 /\ r = 2
    BY <1>2, <1>4, <1>9
  <2>2. three[m \div 8 + 1] = bytes[3 * w + (m \div 8 + 1)]
    <3>1. CASE m \div 8 = 0
      <4>1. m \div 8 + 1 = 1
        BY <3>1
      <4>2. QED
        BY <1>3, <1>7, <4>1, Zenon
    <3>2. CASE m \div 8 = 1 /\ r = 2
      <4>1. m \div 8 + 1 = 2
        BY <3>2
      <4>2. QED
        BY <1>3, <1>7, <3>2, <4>1, Zenon
    <3>3. QED
      BY <2>1, <3>1, <3>2
  <2>3. BitOf(R[m \div 6 + 1], 6, m % 6)
          = BitOf(bytes[3 * w + (m \div 8 + 1)], 8, m % 8)
    BY <1>5, <1>6, <2>2, Zenon
  <2>4. QED
    BY <1>9, <2>3, Zenon DEF R
<1>10. CASE ~ (m < 8 * r)
  <2>1. \/ m \div 8 + 1 = 2 /\ r = 1
        \/ m \div 8 + 1 = 3
    BY <1>2, <1>4, <1>10
  <2>2. three[m \div 8 + 1] = 0
    BY <1>1, <1>7, <2>1, Zenon
  <2>3. BitOf(0, 8, m % 8) = 0
    BY <1>8, BitsOfZero
  <2>4. BitOf(R[m \div 6 + 1], 6, m % 6) = 0
    BY <1>5, <1>6, <2>2, <2>3, Zenon
  <2>5. QED
    BY <1>10, <2>4, Zenon DEF R
<1>11. QED
  BY <1>9, <1>10

\* The parts of the text, as sequences.
LEMMA PartsOfTheText ==
  ASSUME NEW bytes \in Seq(Byte), NEW w, w = Whole(bytes), NEW r,
         Parts(Len(bytes), w, r)
  PROVE  /\ Chunks(bytes) \in Seq(Int) /\ Len(Chunks(bytes)) = 4 * w
         /\ Remainder(Left(bytes)) \in Seq(Int)
         /\ Len(Remainder(Left(bytes))) = IF r = 0 THEN 0 ELSE 4
         /\ r = 1 => /\ Remainder(Left(bytes))[3] = Pad
                     /\ Remainder(Left(bytes))[4] = Pad
         /\ r = 2 => Remainder(Left(bytes))[4] = Pad
<1> DEFINE x == Zero(bytes, 3 * w + 1)
           y == Zero(bytes, 3 * w + 2)
           R == Remainder(Left(bytes))
           C == Chunk(x, y, 0)
<1>1. /\ x \in Byte /\ y \in Byte
      /\ r = 0 => R = <<>>
      /\ r = 1 => R = <<C[1], C[2], Pad, Pad>>
      /\ r = 2 => R = <<C[1], C[2], C[3], Pad>>
  BY RemainderOfLeft
<1>2. w \in Nat /\ r \in 0 .. 2 /\ Len(bytes) \in Nat /\ 3 * w <= Len(bytes)
  BY DEF Parts
<1>3. Chunks(bytes) \in Seq(Int) /\ Len(Chunks(bytes)) = 4 * w
  <2>1. \A q \in 1 .. 4 * w : DigitAt(bytes, q) \in Int
    <3> SUFFICES ASSUME NEW q \in 1 .. 4 * w PROVE DigitAt(bytes, q) \in Int
      OBVIOUS
    <3> DEFINE i == 3 * ((q - 1) \div 4)
               j == ((q - 1) % 4) + 1
    <3>1. /\ j \in 1 .. 4 /\ i + 1 \in 1 .. Len(bytes)
          /\ i + 2 \in 1 .. Len(bytes) /\ i + 3 \in 1 .. Len(bytes)
      <4>1. PICK p \in Nat, h \in 0 .. 3 :
              q - 1 = 4 * p + h /\ (q - 1) \div 4 = p /\ (q - 1) % 4 = h
        <5> DEFINE p == (q - 1) \div 4
                   h == (q - 1) % 4
        <5>1. p \in Nat /\ h \in 0 .. 3 /\ q - 1 = 4 * p + h
          BY <1>2
        <5>2. QED
          BY <5>1
      <4>2. p + 1 <= w
        BY <1>2, <4>1
      <4>3. 3 * p + 3 <= Len(bytes)
        BY <1>2, <4>1, <4>2
      <4>4. QED
        BY <1>2, <4>1, <4>3
    <3> HIDE DEF i, j
    <3>2. bytes[i + 1] \in Byte /\ bytes[i + 2] \in Byte /\ bytes[i + 3] \in Byte
      BY <3>1, ElementOfSeq
    <3>3. Chunk(bytes[i + 1], bytes[i + 2], bytes[i + 3])[j] \in Int
      BY <3>1, <3>2, ChunksHaveDigits
    <3>4. QED
      BY <3>3 DEF DigitAt, i, j
  <2>2. Chunks(bytes) = [q \in 1 .. 4 * w |-> DigitAt(bytes, q)]
    BY DEF Chunks
  <2>3. 4 * w \in Nat
    BY <1>2
  <2>4. QED
    BY <2>1, <2>2, <2>3
<1> HIDE DEF x, y, R
<1>4. C[1] \in Int /\ C[2] \in Int /\ C[3] \in Int /\ Pad \in Int
  <2>1. 0 \in Byte /\ 1 \in 1 .. 4 /\ 2 \in 1 .. 4 /\ 3 \in 1 .. 4
    BY DEF Byte
  <2>2. QED
    BY <1>1, <2>1, ChunksHaveDigits DEF Pad
<1> HIDE DEF C
<1>5. R \in Seq(Int) /\ Len(R) = IF r = 0 THEN 0 ELSE 4
  <2>1. CASE r = 0
    BY <1>1, <2>1
  <2>2. CASE r = 1
    <3>1. <<C[1], C[2], Pad, Pad>> \in Seq(Int)
      BY <1>4
    <3>2. Len(<<C[1], C[2], Pad, Pad>>) = 4
      OBVIOUS
    <3>3. QED
      BY <1>1, <2>2, <3>1, <3>2
  <2>3. CASE r = 2
    <3>1. <<C[1], C[2], C[3], Pad>> \in Seq(Int)
      BY <1>4
    <3>2. Len(<<C[1], C[2], C[3], Pad>>) = 4
      OBVIOUS
    <3>3. QED
      BY <1>1, <2>3, <3>1, <3>2
  <2>4. QED
    BY <1>2, <2>1, <2>2, <2>3
<1>6. /\ r = 1 => R[3] = Pad /\ R[4] = Pad
      /\ r = 2 => R[4] = Pad
  BY <1>1
<1>7. QED
  BY <1>3, <1>5, <1>6 DEF R
\* How many digits a text has, and where a bit of them is.
LEMMA CountOfDigits ==
  ASSUME NEW n, NEW w, NEW r, Parts(n, w, r)
  PROVE  /\ (8 * n + 5) \div 6 = 4 * w + (IF r = 0 THEN 0 ELSE r + 1)
         /\ 8 * n = 24 * w + 8 * r
<1>1. n \in Nat /\ w \in Nat /\ r \in 0 .. 2 /\ n = 3 * w + r
  BY DEF Parts
<1>2. 8 * n = 24 * w + 8 * r
  BY <1>1
<1>3. CASE r = 0
  BY <1>1, <1>3
<1>4. CASE r = 1
  BY <1>1, <1>4
<1>5. CASE r = 2
  BY <1>1, <1>5
<1>6. QED
  BY <1>1, <1>2, <1>3, <1>4, <1>5

AfterChunks(k, m, w, r) ==
  /\ m \in 0 .. 6 * (r + 1) - 1 /\ k = 24 * w + m
  /\ k \div 6 + 1 = 4 * w + (m \div 6 + 1) /\ m \div 6 + 1 \in 1 .. r + 1
  /\ k % 6 = m % 6 /\ k % 8 = m % 8
  /\ k \div 8 + 1 = 3 * w + (m \div 8 + 1)

LEMMA BitsAfterChunks ==
  ASSUME NEW w \in Nat, NEW r \in 1 .. 2,
         NEW k \in 24 * w .. 6 * (4 * w + (r + 1)) - 1
  PROVE  AfterChunks(k, k - 24 * w, w, r)
<1> DEFINE m == k - 24 * w
<1>1. m \in 0 .. 6 * (r + 1) - 1 /\ k = 24 * w + m
  OBVIOUS
<1> HIDE DEF m
<1>2. k \div 6 = 4 * w + m \div 6 /\ m \div 6 \in 0 .. r
  BY <1>1
<1>3. k % 6 = m % 6 /\ k % 8 = m % 8
  BY <1>1
<1>4. k \div 8 = 3 * w + m \div 8
  BY <1>1
<1>5. /\ k \div 6 + 1 = 4 * w + (m \div 6 + 1) /\ m \div 6 + 1 \in 1 .. r + 1
      /\ k \div 8 + 1 = 3 * w + (m \div 8 + 1)
  BY <1>1, <1>2, <1>4
<1>6. AfterChunks(k, m, w, r)
  BY <1>1, <1>3, <1>5 DEF AfterChunks
<1>7. QED
  BY <1>6 DEF m

\* bin2string writes base64, of any sequence of bytes.
LEMMA Bin2StringIsBase64 ==
  ASSUME NEW bytes \in Seq(Byte)
  PROVE  IsBase64Of(Bin2String(bytes), bytes)
<1> DEFINE n == Len(bytes)
           w == Whole(bytes)
           r == n % 3
           F == Chunks(bytes)
           R == Remainder(Left(bytes))
           text == Bin2String(bytes)
           digits == (8 * n + 5) \div 6
           bits == BitsOfBytes(bytes)
<1>1. Parts(n, w, r)
  <2>1. n \in Nat
    BY LenProperties
  <2>2. Parts(n, n \div 3, n % 3)
    BY <2>1, PartsOfALength
  <2>3. QED
    BY <2>2, Zenon DEF Whole
<1>2. /\ F \in Seq(Int) /\ Len(F) = 4 * w
      /\ R \in Seq(Int) /\ Len(R) = IF r = 0 THEN 0 ELSE 4
      /\ r = 1 => R[3] = Pad /\ R[4] = Pad
      /\ r = 2 => R[4] = Pad
  BY <1>1, PartsOfTheText
<1>3. text = F \o R
  BY TextHasTwoParts
<1>4. /\ digits = 4 * w + (IF r = 0 THEN 0 ELSE r + 1)
      /\ 8 * n = 24 * w + 8 * r
  <2>1. digits = (8 * n + 5) \div 6
    OBVIOUS
  <2> HIDE DEF n, w, r, digits
  <2>2. /\ (8 * n + 5) \div 6 = 4 * w + (IF r = 0 THEN 0 ELSE r + 1)
        /\ 8 * n = 24 * w + 8 * r
    BY <1>1, CountOfDigits
  <2>3. QED
    BY <2>1, <2>2, Zenon
<1>5. /\ DOMAIN bits = 0 .. 8 * n - 1
      /\ \A k \in 0 .. 8 * n - 1 : bits[k] = BitOf(bytes[k \div 8 + 1], 8, k % 8)
  BY DEF BitsOfBytes
<1>6. \A k \in Nat : k < 24 * w =>
        /\ k \div 6 + 1 \in 1 .. 4 * w
        /\ BitOf(F[k \div 6 + 1], 6, k % 6) = BitOf(bytes[k \div 8 + 1], 8, k % 8)
  <2>1. w \in Nat /\ 3 * w <= Len(bytes)
    BY <1>1 DEF Parts
  <2>2. QED
    BY <2>1, ChunksKeepBits
<1>7. r > 0 => \A m \in 0 .. 6 * (r + 1) - 1 :
        BitOf(R[m \div 6 + 1], 6, m % 6)
          = IF m < 8 * r THEN BitOf(bytes[3 * w + (m \div 8 + 1)], 8, m % 8)
            ELSE 0
  BY <1>1, LeftKeepsBits
<1> HIDE DEF w, r, F, R, text, bits, n, digits
<1>8. n \in Nat /\ w \in Nat /\ r \in 0 .. 2 /\ n = 3 * w + r
  BY <1>1 DEF Parts
<1>9. Len(text) = 4 * w + (IF r = 0 THEN 0 ELSE 4)
  <2>1. Len(F \o R) = Len(F) + Len(R)
    BY <1>2, ConcatProperties
  <2>2. QED
    BY <1>2, <1>3, <2>1, Zenon
<1>10. /\ \A q \in 1 .. 4 * w : text[q] = F[q]
       /\ r > 0 => \A q \in 1 .. 4 : text[4 * w + q] = R[q]
  <2>1. \A q \in 1 .. Len(F) + Len(R) :
          (F \o R)[q] = IF q <= Len(F) THEN F[q] ELSE R[q - Len(F)]
    BY <1>2, ConcatProperties
  <2>2. \A q \in 1 .. Len(text) :
          text[q] = IF q <= 4 * w THEN F[q] ELSE R[q - 4 * w]
    BY <1>2, <1>3, <1>8, <1>9, <2>1
  <2>3. \A q \in 1 .. 4 * w : text[q] = F[q]
    BY <1>8, <1>9, <2>2
  <2>4. ASSUME r > 0, NEW q \in 1 .. 4 PROVE text[4 * w + q] = R[q]
    <3> DEFINE z == 4 * w + q
    <3>1. z \in 1 .. Len(text) /\ ~ (z <= 4 * w) /\ z - 4 * w = q
      BY <1>8, <1>9, <2>4
    <3> HIDE DEF z
    <3>2. text[z] = IF z <= 4 * w THEN F[z] ELSE R[z - 4 * w]
      BY <2>2, <3>1, Zenon
    <3>3. text[z] = R[q]
      BY <3>1, <3>2, Zenon
    <3>4. QED
      BY <3>3 DEF z
  <2>5. QED
    BY <2>3, <2>4
<1>11. Len(text) % 4 = 0 /\ Len(text) - digits \in 0 .. 2
  BY <1>4, <1>8, <1>9
<1>12. ASSUME NEW q \in digits + 1 .. Len(text) PROVE text[q] = Pad
  <2>1. CASE r = 0
    BY <1>4, <1>8, <1>9, <1>12, <2>1
  <2>2. CASE r = 1
    <3>1. q = 4 * w + 3 \/ q = 4 * w + 4
      BY <1>4, <1>8, <1>9, <1>12, <2>2
    <3>2. text[4 * w + 3] = R[3] /\ text[4 * w + 4] = R[4]
      BY <1>10, <2>2
    <3>3. QED
      BY <1>2, <2>2, <3>1, <3>2
  <2>3. CASE r = 2
    <3>1. q = 4 * w + 4
      BY <1>4, <1>8, <1>9, <1>12, <2>3
    <3>2. text[4 * w + 4] = R[4]
      BY <1>10, <2>3
    <3>3. QED
      BY <1>2, <2>3, <3>1, <3>2
  <2>4. QED
    BY <1>8, <2>1, <2>2, <2>3
<1>13. ASSUME NEW k \in 0 .. 6 * digits - 1
       PROVE  BitOf(text[k \div 6 + 1], 6, k % 6)
                = IF k \in DOMAIN bits THEN bits[k] ELSE 0
  <2>1. k \in Nat
    BY <1>4, <1>8
  <2>2. CASE k < 24 * w
    <3>1. k \in 0 .. 8 * n - 1
      BY <1>4, <1>8, <2>1, <2>2
    <3>2. bits[k] = BitOf(bytes[k \div 8 + 1], 8, k % 8)
      BY <1>5, <3>1
    <3>3. /\ k \div 6 + 1 \in 1 .. 4 * w
          /\ BitOf(F[k \div 6 + 1], 6, k % 6)
               = BitOf(bytes[k \div 8 + 1], 8, k % 8)
      BY <1>6, <2>1, <2>2
    <3>4. text[k \div 6 + 1] = F[k \div 6 + 1]
      BY <1>10, <3>3
    <3>5. QED
      BY <1>5, <3>1, <3>2, <3>3, <3>4, Zenon
  <2>3. CASE ~ (k < 24 * w)
    <3> DEFINE m == k - 24 * w
    <3>1. r \in 1 .. 2 /\ k \in 24 * w .. 6 * (4 * w + (r + 1)) - 1
      BY <1>4, <1>8, <1>13, <2>3
    <3>2. AfterChunks(k, m, w, r)
      BY <1>8, <3>1, BitsAfterChunks
    <3> HIDE DEF m
    <3>3. /\ m \in 0 .. 6 * (r + 1) - 1 /\ k = 24 * w + m
          /\ k \div 6 + 1 = 4 * w + (m \div 6 + 1)
          /\ m \div 6 + 1 \in 1 .. r + 1
          /\ k % 6 = m % 6 /\ k % 8 = m % 8
          /\ k \div 8 + 1 = 3 * w + (m \div 8 + 1)
      BY <3>2, Zenon DEF AfterChunks
    <3>4. r > 0 /\ m \div 6 + 1 \in 1 .. 4
      <4>1. m \div 6 + 1 \in 1 .. r + 1
        BY <3>3
      <4>2. QED
        BY <3>1, <4>1
    <3>5. text[k \div 6 + 1] = R[m \div 6 + 1]
      BY <1>10, <3>3, <3>4, Zenon
    <3>6. BitOf(R[m \div 6 + 1], 6, m % 6)
            = IF m < 8 * r THEN BitOf(bytes[3 * w + (m \div 8 + 1)], 8, m % 8)
              ELSE 0
      BY <1>7, <3>3, <3>4, Zenon
    <3>7. (m < 8 * r) = (k \in 0 .. 8 * n - 1)
      BY <1>4, <1>8, <2>1, <3>1, <3>3
    <3>8. BitOf(text[k \div 6 + 1], 6, k % 6)
            = IF k \in 0 .. 8 * n - 1
              THEN BitOf(bytes[k \div 8 + 1], 8, k % 8) ELSE 0
      BY <3>3, <3>5, <3>6, <3>7, Zenon
    <3>9. QED
      BY <1>5, <3>8, Zenon
  <2>4. QED
    BY <2>2, <2>3
<1>14. QED
  BY <1>11, <1>12, <1>13, Zenon DEF IsBase64Of, text, n, digits, bits

RunInv == mission \in Seq(Byte)

LEMMA MissionIsBytes ==
  ASSUME RunMissionAssumption
  PROVE  RunSpec => []RunInv
<1>1. RunInit => RunInv
  BY DEF RunInit, RunInv
<1>2. ASSUME RunInv, [RunNext]_runVars PROVE RunInv'
  <2>1. CASE UNCHANGED <<mission, sent>>
    BY <1>2, <2>1 DEF RunInv
  <2>2. CASE SendRunMissionCommand
    BY <1>2, <2>2 DEF SendRunMissionCommand, RunInv
  <2>3. ASSUME NEW byte \in Bytes, Edit(byte) PROVE RunInv'
    <3>1. byte \in Byte /\ mission' = Append(mission, byte)
      BY <2>3 DEF RunMissionAssumption, Edit, Byte
    <3>2. mission \in Seq(Byte)
      BY <1>2 DEF RunInv
    <3>3. Append(mission, byte) \in Seq(Byte)
      BY <3>1, <3>2, AppendProperties
    <3>4. QED
      BY <3>1, <3>3, Zenon DEF RunInv
  <2>4. QED
    BY <1>2, <2>1, <2>2, <2>3 DEF RunNext, runVars
<1>3. QED
  BY <1>1, <1>2, PTL DEF RunSpec

\* A mission is sent in base64, of any length and with any bytes: bin2string
\* keeps every bit of every byte and pads what is left.
THEOREM MissionsAreSentInBase64 ==
  ASSUME RunMissionAssumption
  PROVE  RunSpec => SentIsBase64
<1>1. ASSUME RunInv, SendRunMissionCommand
      PROVE  IsBase64Of(sent'[1], mission)
  <2>1. sent' = <<Bin2String(mission)>>
    BY <1>1 DEF SendRunMissionCommand
  <2>2. sent'[1] = Bin2String(mission)
    BY <2>1
  <2>3. IsBase64Of(Bin2String(mission), mission)
    BY <1>1, Bin2StringIsBase64 DEF RunInv
  <2>4. QED
    BY <2>2, <2>3
<1>2. RunInv => [SendsBase64]_runVars
  BY <1>1 DEF SendsBase64
<1>3. QED
  BY <1>2, MissionIsBytes, PTL DEF SentIsBase64

=============================================================================
