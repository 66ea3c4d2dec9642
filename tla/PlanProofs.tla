----------------------------- MODULE PlanProofs -----------------------------
(***************************************************************************)
(* Theorems about the plan that browsers share, for every set of browsers  *)
(* and any number of commands, edits and remounts: that an error about the *)
(* plan stays where it is; that the browsers agree when no two changes     *)
(* crossed; and that changes which crossed are merged.                     *)
(***************************************************************************)
EXTENDS PlanSync, FiniteSetTheorems, SequenceTheorems, WellFoundedInduction,
        TLAPS

-----------------------------------------------------------------------------
(* Numbers and sequences.                                                  *)

Below == {ss \in Nat \X Nat : ss[1] < ss[2]}

LEMMA BelowIsWellFounded == IsWellFoundedOn(Below, Nat)
<1>1. OpToRel(<, Nat) = Below
  BY DEF OpToRel, Below
<1>2. QED
  BY <1>1, NatLessThanWellFounded

LEMMA LeastOf ==
  ASSUME NEW S, S \subseteq Nat, S # {}
  PROVE  Min(S) \in S /\ \A x \in S : Min(S) <= x
<1>1. PICK x \in S : \A y \in S : ~(<<y, x>> \in Below)
  BY BelowIsWellFounded, WFMin
<1>2. ASSUME NEW y \in S PROVE x <= y
  <2>1. x \in Nat /\ y \in Nat /\ ~(<<y, x>> \in Below)
    BY <1>1
  <2>2. QED
    BY <2>1 DEF Below
<1>3. QED
  BY <1>2 DEF Min

LEMMA GreatestOf ==
  ASSUME NEW n \in Nat, NEW S, S \subseteq 1 .. n, S # {}
  PROVE  Max(S) \in S /\ \A x \in S : Max(S) >= x
<1> DEFINE T == {x \in Nat : n - x \in S}
<1>1. T \subseteq Nat
  OBVIOUS
<1>2. T # {}
  <2>1. PICK x \in S : TRUE
    OBVIOUS
  <2>2. n - x \in Nat /\ n - (n - x) = x
    BY <2>1
  <2>3. QED
    BY <2>1, <2>2
<1>3. PICK t \in T : \A u \in T : t <= u
  <2> HIDE DEF T
  <2>1. QED
    BY <1>1, <1>2, LeastOf
<1>4. n - t \in S /\ t \in Nat
  OBVIOUS
<1>5. ASSUME NEW y \in S PROVE n - t >= y
  <2>1. y \in 1 .. n /\ n - y \in Nat /\ n - (n - y) = y
    OBVIOUS
  <2>2. n - y \in T
    BY <2>1
  <2>3. t <= n - y
    BY <1>3, <2>2
  <2>4. QED
    BY <1>4, <2>1, <2>3
<1>6. QED
  BY <1>4, <1>5 DEF Max

LEMMA OfTwo ==
  ASSUME NEW a \in Nat, NEW b \in Nat
  PROVE  /\ Min({a, b}) = IF a <= b THEN a ELSE b
         /\ Max({a, b}) = IF a <= b THEN b ELSE a
<1>1. Min({a, b}) \in {a, b} /\ Min({a, b}) <= a /\ Min({a, b}) <= b
  BY LeastOf
<1>2. Max({a, b}) \in {a, b} /\ Max({a, b}) >= a /\ Max({a, b}) >= b
  <2>1. \E x \in {a, b} : \A y \in {a, b} : x >= y
    OBVIOUS
  <2>2. QED
    BY <2>1 DEF Max
<1>3. QED
  BY <1>1, <1>2

IsJoined(t, s, u) ==
  /\ Len(s) \in Nat /\ Len(u) \in Nat /\ Len(t) = Len(s) + Len(u)
  /\ DOMAIN t = 1 .. Len(s) + Len(u)
  /\ \A i \in 1 .. Len(s) : t[i] = s[i]
  /\ \A i \in 1 .. Len(u) : t[Len(s) + i] = u[i]

LEMMA Joined ==
  ASSUME NEW S, NEW s \in Seq(S), NEW u \in Seq(S)
  PROVE  s \o u \in Seq(S) /\ IsJoined(s \o u, s, u)
  BY DEF IsJoined

\* The sequence t is s without its element at i, or with x inserted there.
IsRemoved(t, s, i) ==
  /\ Len(t) = Len(s) - 1 /\ DOMAIN t = 1 .. Len(s) - 1
  /\ \A j \in 1 .. Len(s) - 1 :
       /\ j < i => t[j] = s[j]
       /\ j >= i => t[j] = s[j + 1]

IsInserted(t, s, i, x) ==
  /\ Len(t) = Len(s) + 1 /\ DOMAIN t = 1 .. Len(s) + 1
  /\ \A j \in 1 .. Len(s) + 1 :
       /\ j < i => t[j] = s[j]
       /\ j = i => t[j] = x
       /\ j > i => t[j] = s[j - 1]

LEMMA Shifted ==
  ASSUME NEW n \in Nat, NEW i \in 1 .. n, NEW j \in 1 .. n - 1, j >= i
  PROVE  j + 1 - i \in 1 .. n - i
  OBVIOUS

LEMMA Removed ==
  ASSUME NEW S, NEW s \in Seq(S), NEW i \in DOMAIN s
  PROVE  RemoveAt(s, i) \in Seq(S) /\ IsRemoved(RemoveAt(s, i), s, i)
<1> DEFINE a == SubSeq(s, 1, i - 1)
           b == SubSeq(s, i + 1, Len(s))
<1>1. /\ a \in Seq(S) /\ Len(a) = i - 1 /\ \A j \in 1 .. i - 1 : a[j] = s[j]
      /\ Len(s) \in Nat /\ i \in 1 .. Len(s)
  OBVIOUS
<1>2. /\ b \in Seq(S) /\ Len(b) = Len(s) - i
      /\ \A j \in 1 .. Len(s) - i : b[j] = s[j + i]
  OBVIOUS
<1> HIDE DEF a, b
<1> DEFINE t == a \o b
<1>3. t \in Seq(S) /\ IsJoined(t, a, b)
  BY <1>1, <1>2, Joined, Zenon
<1> HIDE DEF t
<1>4. Len(a) + Len(b) = Len(s) - 1
  BY <1>1, <1>2
<1>5. ASSUME NEW j \in 1 .. Len(s) - 1
      PROVE  /\ j < i => t[j] = s[j]
             /\ j >= i => t[j] = s[j + 1]
  <2>1. CASE j < i
    BY <1>1, <1>3, <1>4, <2>1 DEF IsJoined
  <2>2. CASE j >= i
    <3> DEFINE k == j + 1 - i
    <3>1. k \in 1 .. Len(s) - i
      BY <1>1, <2>2, Shifted
    <3>4. k + i = j + 1 /\ (i - 1) + k = j
      BY <1>1
    <3> HIDE DEF k
    <3>2. t[j] = b[k]
      BY <1>1, <1>2, <1>3, <3>1, <3>4 DEF IsJoined
    <3>3. QED
      BY <1>1, <1>2, <2>2, <3>1, <3>2, <3>4
  <2>3. QED
    BY <1>1, <2>1, <2>2
<1>6. t \in Seq(S) /\ Len(t) = Len(s) - 1 /\ DOMAIN t = 1 .. Len(s) - 1
  BY <1>3, <1>4 DEF IsJoined
<1>7. RemoveAt(s, i) = t
  BY DEF RemoveAt, t, a, b
<1>8. QED
  BY <1>5, <1>6, <1>7 DEF IsRemoved

LEMMA Inserted ==
  ASSUME NEW S, NEW s \in Seq(S), NEW i \in 1 .. Len(s) + 1, NEW x \in S
  PROVE  /\ InsertAt(s, i, x) \in Seq(S)
         /\ IsInserted(InsertAt(s, i, x), s, i, x)
<1> DEFINE a == SubSeq(s, 1, i - 1)
           b == SubSeq(s, i, Len(s))
           c == <<x>>
<1>1. /\ a \in Seq(S) /\ Len(a) = i - 1 /\ \A j \in 1 .. i - 1 : a[j] = s[j]
      /\ Len(s) \in Nat /\ i \in Nat
  OBVIOUS
<1>2. /\ b \in Seq(S) /\ Len(b) = Len(s) + 1 - i
      /\ \A j \in 1 .. Len(s) + 1 - i : b[j] = s[j + i - 1]
  OBVIOUS
<1>3. c \in Seq(S) /\ Len(c) = 1 /\ c[1] = x
  OBVIOUS
<1> HIDE DEF a, b, c
<1> DEFINE d == a \o c
           t == d \o b
<1>4. /\ d \in Seq(S) /\ Len(d) = i
      /\ \A j \in 1 .. i - 1 : d[j] = s[j]
      /\ d[i] = x
  <2>1. d \in Seq(S) /\ IsJoined(d, a, c)
    BY <1>1, <1>3, Joined, Zenon
  <2> HIDE DEF d
  <2>2. Len(a) + 1 = i /\ 1 \in 1 .. Len(c)
    BY <1>1, <1>3
  <2>3. d[i] = x
    BY <1>3, <2>1, <2>2 DEF IsJoined
  <2>4. QED
    BY <1>1, <1>3, <2>1, <2>3 DEF IsJoined
<1> HIDE DEF d
<1>5. t \in Seq(S) /\ IsJoined(t, d, b)
  BY <1>2, <1>4, Joined, Zenon
<1> HIDE DEF t
<1>6. i + Len(b) = Len(s) + 1
  BY <1>1, <1>2
<1>7. ASSUME NEW j \in 1 .. Len(s) + 1
      PROVE  /\ j < i => t[j] = s[j]
             /\ j = i => t[j] = x
             /\ j > i => t[j] = s[j - 1]
  <2>1. CASE j <= i
    BY <1>1, <1>4, <1>5, <2>1 DEF IsJoined
  <2>2. CASE j > i
    <3> DEFINE k == j - i
    <3>1. k \in 1 .. Len(s) + 1 - i /\ k + i - 1 = j - 1 /\ i + k = j
      <4>1. i \in Nat /\ j \in Nat /\ Len(s) \in Nat /\ j <= Len(s) + 1
        BY <1>7
      <4>2. QED
        BY <4>1, <2>2
    <3> HIDE DEF k
    <3>2. t[j] = b[k]
      BY <1>2, <1>4, <1>5, <3>1 DEF IsJoined
    <3>3. QED
      BY <1>1, <1>2, <2>2, <3>1, <3>2
  <2>3. QED
    BY <1>1, <2>1, <2>2
<1>8. InsertAt(s, i, x) = t
  BY DEF InsertAt, t, d, c, a, b
<1>9. t \in Seq(S) /\ Len(t) = Len(s) + 1 /\ DOMAIN t = 1 .. Len(s) + 1
  BY <1>4, <1>5, <1>6 DEF IsJoined
<1>10. QED
  BY <1>7, <1>8, <1>9 DEF IsInserted

\* The sequence t is s with x at its end; or s without its first element.
IsAppended(t, s, x) ==
  /\ Len(s) \in Nat /\ Len(t) = Len(s) + 1
  /\ DOMAIN s = 1 .. Len(s) /\ DOMAIN t = 1 .. Len(s) + 1
  /\ \A i \in 1 .. Len(s) : t[i] = s[i]
  /\ t[Len(s) + 1] = x

LEMMA Appended ==
  ASSUME NEW S, NEW s \in Seq(S), NEW x \in S
  PROVE  /\ Append(s, x) \in Seq(S) /\ Append(s, x) # <<>>
         /\ IsAppended(Append(s, x), s, x)
  BY DEF IsAppended

IsTailOf(t, s) ==
  /\ Len(s) \in Nat /\ Len(t) = Len(s) - 1
  /\ DOMAIN s = 1 .. Len(s) /\ DOMAIN t = 1 .. Len(s) - 1
  /\ \A i \in 1 .. Len(s) - 1 : t[i] = s[i + 1]

LEMMA WithoutHead ==
  ASSUME NEW S, NEW s \in Seq(S), s # <<>>
  PROVE  /\ Head(s) \in S /\ Head(s) = s[1] /\ Len(s) >= 1
         /\ Tail(s) \in Seq(S) /\ IsTailOf(Tail(s), s)
  BY DEF IsTailOf

\* What is taken from the head of one queue and put at the end of the one
\* before it stays where it was in the two together.
LEMMA HeadIsMoved ==
  ASSUME NEW S, NEW a \in Seq(S), NEW b \in Seq(S), b # <<>>
  PROVE  Append(a, Head(b)) \o Tail(b) = a \o b
<1> DEFINE c == Append(a, Head(b))
           d == Tail(b)
           t == c \o d
           s == a \o b
<1>1. /\ Head(b) \in S /\ Head(b) = b[1] /\ Len(b) >= 1
      /\ d \in Seq(S) /\ IsTailOf(d, b)
  BY WithoutHead
<1>2. c \in Seq(S) /\ IsAppended(c, a, Head(b))
  BY <1>1, Appended
<1> HIDE DEF c, d
<1>3. t \in Seq(S) /\ IsJoined(t, c, d)
  BY <1>1, <1>2, Joined, Zenon
<1>4. s \in Seq(S) /\ IsJoined(s, a, b)
  BY Joined, Zenon
<1> HIDE DEF t, s
<1>5. Len(t) = Len(a) + Len(b) /\ Len(s) = Len(a) + Len(b)
  BY <1>1, <1>2, <1>3, <1>4 DEF IsJoined, IsAppended, IsTailOf
<1>6. ASSUME NEW i \in 1 .. Len(t) PROVE t[i] = s[i]
  <2>1. CASE i <= Len(a)
    BY <1>2, <1>3, <1>4, <2>1 DEF IsJoined, IsAppended
  <2>2. CASE i = Len(a) + 1
    BY <1>1, <1>2, <1>3, <1>4, <2>2 DEF IsJoined, IsAppended
  <2>3. CASE i > Len(a) + 1
    <3> DEFINE k == i - Len(c)
    <3>1. /\ k \in 1 .. Len(d) /\ Len(c) + k = i /\ k + 1 \in 1 .. Len(b)
          /\ Len(a) + (k + 1) = i
      BY <1>1, <1>2, <1>3, <1>5, <2>3 DEF IsJoined, IsAppended, IsTailOf
    <3> HIDE DEF k
    <3>2. t[i] = d[k] /\ s[i] = b[k + 1]
      BY <1>3, <1>4, <3>1 DEF IsJoined
    <3>3. QED
      BY <1>1, <3>1, <3>2 DEF IsTailOf
  <2>4. QED
    BY <1>4, <1>5, <2>1, <2>2, <2>3 DEF IsJoined
<1>7. t = s
  BY <1>3, <1>4, <1>5, <1>6, SeqEqual
<1>8. QED
  BY <1>7 DEF t, s, c, d

\* What is put at the end of the second of two queues, or taken from the head
\* of the first.
LEMMA JoinedWithAppended ==
  ASSUME NEW S, NEW a \in Seq(S), NEW b \in Seq(S), NEW x \in S
  PROVE  a \o Append(b, x) = Append(a \o b, x)
<1> DEFINE t == a \o Append(b, x)
           s == a \o b
           r == Append(s, x)
<1>1. Append(b, x) \in Seq(S) /\ IsAppended(Append(b, x), b, x)
  BY Appended
<1>2. t \in Seq(S) /\ IsJoined(t, a, Append(b, x))
  BY <1>1, Joined, Zenon
<1>3. s \in Seq(S) /\ IsJoined(s, a, b)
  BY Joined, Zenon
<1> HIDE DEF t, s
<1>4. r \in Seq(S) /\ IsAppended(r, s, x)
  BY <1>3, Appended
<1> HIDE DEF r
<1>5. Len(t) = Len(r) /\ Len(r) = Len(a) + Len(b) + 1
  BY <1>1, <1>2, <1>3, <1>4 DEF IsJoined, IsAppended
<1>6. ASSUME NEW i \in 1 .. Len(t) PROVE t[i] = r[i]
  <2>1. CASE i <= Len(a)
    BY <1>2, <1>3, <1>4, <2>1 DEF IsJoined, IsAppended
  <2>2. CASE i > Len(a)
    <3> DEFINE k == i - Len(a)
    <3>1. k \in 1 .. Len(b) + 1 /\ Len(a) + k = i
      BY <1>2, <1>3, <1>5, <2>2 DEF IsJoined
    <3> HIDE DEF k
    <3>2. t[i] = Append(b, x)[k]
      BY <1>1, <1>2, <3>1 DEF IsJoined, IsAppended
    <3>3. CASE k = Len(b) + 1
      <4>1. i = Len(s) + 1
        BY <1>3, <3>1, <3>3 DEF IsJoined
      <4>2. QED
        BY <1>1, <1>4, <3>2, <3>3, <4>1 DEF IsAppended
    <3>4. CASE k # Len(b) + 1
      <4>1. k \in 1 .. Len(b) /\ i \in 1 .. Len(s)
        BY <1>3, <3>1, <3>4 DEF IsJoined
      <4>2. QED
        BY <1>1, <1>3, <1>4, <3>1, <3>2, <4>1 DEF IsAppended, IsJoined
    <3>5. QED
      BY <3>3, <3>4
  <2>3. QED
    BY <1>2, <2>1, <2>2 DEF IsJoined
<1>7. t = r
  BY <1>2, <1>4, <1>5, <1>6, SeqEqual
<1>8. QED
  BY <1>7 DEF t, r, s

LEMMA TailOfJoined ==
  ASSUME NEW S, NEW a \in Seq(S), NEW b \in Seq(S), a # <<>>
  PROVE  /\ a \o b # <<>> /\ Head(a \o b) = Head(a)
         /\ Tail(a \o b) = Tail(a) \o b
<1> DEFINE s == a \o b
           r == Tail(s)
           d == Tail(a)
           t == d \o b
<1>1. /\ Head(a) = a[1] /\ Len(a) >= 1 /\ d \in Seq(S) /\ IsTailOf(d, a)
  BY WithoutHead
<1> HIDE DEF d
<1>2. s \in Seq(S) /\ IsJoined(s, a, b)
  BY Joined, Zenon
<1>3. t \in Seq(S) /\ IsJoined(t, d, b)
  BY <1>1, Joined, Zenon
<1> HIDE DEF s, t
<1>4. s # <<>> /\ s[1] = a[1]
  BY <1>1, <1>2 DEF IsJoined
<1>5. Head(s) = s[1] /\ r \in Seq(S) /\ IsTailOf(r, s)
  BY <1>2, <1>4, WithoutHead
<1> HIDE DEF r
<1>6. Len(r) = Len(t)
  BY <1>1, <1>2, <1>3, <1>5 DEF IsJoined, IsTailOf
<1>7. ASSUME NEW i \in 1 .. Len(r) PROVE r[i] = t[i]
  <2>1. i + 1 \in 1 .. Len(s) /\ r[i] = s[i + 1] /\ i \in Nat
    BY <1>2, <1>5 DEF IsTailOf, IsJoined
  <2>2. CASE i <= Len(a) - 1
    <3>1. i + 1 \in 1 .. Len(a) /\ i \in 1 .. Len(d)
      BY <1>1, <1>2, <2>1, <2>2 DEF IsJoined, IsTailOf
    <3>2. QED
      BY <1>1, <1>2, <1>3, <2>1, <3>1 DEF IsJoined, IsTailOf
  <2>3. CASE i > Len(a) - 1
    <3> DEFINE k == i - Len(d)
    <3>1. k \in 1 .. Len(b) /\ Len(d) + k = i /\ Len(a) + k = i + 1
      BY <1>1, <1>2, <1>3, <1>6, <2>1, <2>3 DEF IsJoined, IsTailOf
    <3> HIDE DEF k
    <3>2. s[i + 1] = b[k] /\ t[i] = b[k]
      BY <1>2, <1>3, <3>1 DEF IsJoined
    <3>3. QED
      BY <2>1, <3>2
  <2>4. QED
    BY <1>2, <2>1, <2>2, <2>3 DEF IsJoined
<1>8. r = t
  BY <1>3, <1>5, <1>6, <1>7, SeqEqual
<1>9. QED
  BY <1>1, <1>4, <1>5, <1>8 DEF r, s, t, d

-----------------------------------------------------------------------------
(* What is kept and sent.                                                  *)

Commands  == [value : Nat \cup {-2}, interop : BOOLEAN]
Plans     == {p \in Seq(Commands) : Len(p) <= MaxLength}
Intervals == {r \in [startIndex : Nat \ {0}, endIndex : Nat \ {0}] :
                r.startIndex <= r.endIndex}
Ranges    == {WholePlan} \cup Intervals

PlanChanges ==
  [type : {"commands_changed"}, commands : Plans, changedCommands : Ranges,
   restoreCommands : BOOLEAN]
Requests   == [type : {"request_commands"}, restoreCommands : BOOLEAN]
Messages   == PlanChanges \cup Requests
Components ==
  [mounted : BOOLEAN, listens : BOOLEAN, commands : Plans \cup {<<Err>>},
   invalidCommands : BOOLEAN, commandChangeSendQueue : Seq(PlanChanges)]

\* A component with the error has nothing else, and cannot show every plan.
Sound(u, h) ==
  IF h.invalidCommands THEN h.commands = <<Err>> /\ u \notin Agreeing
  ELSE h.commands \in Plans

CountersOK ==
  /\ edits \in Nat /\ remounts \in Nat
  /\ overlapped \in BOOLEAN /\ reshaped \in BOOLEAN
  /\ editors \in [1 .. MaxLength -> SUBSET UIs]

ChannelsOK ==
  plan \in Plans /\ toServer \in [UIs -> Seq(Messages)]
    /\ toUi \in [UIs -> Seq(PlanChanges)]

HomesOK ==
  /\ home \in [UIs -> [now : Components, old : Components]]
  /\ \A u \in UIs : /\ Sound(u, home[u].now) /\ Sound(u, home[u].old)
                    /\ home[u].now.listens

PlanInv == CountersOK /\ ChannelsOK /\ HomesOK

LEMMA ErrIsNoCommand == Err \notin Commands /\ Undefined \in Commands
  BY DEF Err, Undefined, Command, Commands

LEMMA PlanFacts ==
  ASSUME NEW p \in Plans
  PROVE  /\ p \in Seq(Commands) /\ Len(p) \in Nat /\ DOMAIN p = 1 .. Len(p)
         /\ Len(p) <= MaxLength
         /\ \A i \in DOMAIN p : p[i] \in Commands
  BY DEF Plans

LEMMA PlansFromFunctions ==
  ASSUME PlanSyncAssumption, NEW n \in Nat, n <= MaxLength,
         NEW p \in [1 .. n -> Commands]
  PROVE  p \in Plans /\ Len(p) = n /\ DOMAIN p = 1 .. n
<1>1. p \in Seq(Commands) /\ Len(p) = n /\ DOMAIN p = 1 .. n
  <2> HIDE DEF Commands
  <2>1. QED
    OBVIOUS
<1>2. QED
  BY <1>1 DEF Plans

LEMMA EmptyPlan == PlanSyncAssumption => <<>> \in Plans
  BY DEF Plans, PlanSyncAssumption

\* Which positions a change is about.
About(m, i) ==
  i \in m.changedCommands.startIndex .. m.changedCommands.endIndex

IsChange(m) == m.type = "commands_changed"

LEMMA MessageFacts ==
  /\ \A m \in PlanChanges :
       /\ m \in Messages /\ IsChange(m) /\ m.commands \in Plans
       /\ m.changedCommands \in Ranges /\ m.restoreCommands \in BOOLEAN
  /\ \A m \in Messages : IsChange(m) => m \in PlanChanges
  /\ \A m \in Messages : ~IsChange(m) => m.type = "request_commands"
  /\ \A m \in Messages : m.restoreCommands \in BOOLEAN
  /\ \A m \in Messages : m.type = "request_commands" => ~IsChange(m)
  /\ \A c \in BOOLEAN : Request(c) \in Messages /\ ~IsChange(Request(c))
  /\ \A m \in Messages :
       ~IsChange(m) => m = Request(TRUE) \/ m = Request(FALSE)
<1>1. \A m \in PlanChanges :
        /\ m \in Messages /\ IsChange(m) /\ m.commands \in Plans
        /\ m.changedCommands \in Ranges /\ m.restoreCommands \in BOOLEAN
  BY DEF PlanChanges, Messages, IsChange
<1>2. \A m \in Messages : m \in PlanChanges \/ m \in Requests
  BY DEF Messages
<1>3. \A m \in Requests : /\ ~IsChange(m) /\ m.type = "request_commands"
                          /\ m.restoreCommands \in BOOLEAN
                          /\ m = Request(m.restoreCommands)
  BY DEF Requests, IsChange, Request
<1>4. \A c \in BOOLEAN : Request(c) \in Messages /\ ~IsChange(Request(c))
  BY DEF Requests, IsChange, Request, Messages
<1>5. \A m \in PlanChanges : m.type # "request_commands"
  BY DEF PlanChanges
<1>6. QED
  BY <1>1, <1>2, <1>3, <1>4, <1>5

LEMMA IntervalFacts ==
  /\ WholePlan \notin Intervals
  /\ \A i, j \in Nat \ {0} : i <= j => Between(i, j) \in Intervals
  /\ \A r \in Intervals : /\ r.startIndex \in Nat \ {0} /\ r.endIndex \in Nat \ {0}
                          /\ r.startIndex <= r.endIndex
                          /\ r \in Ranges
  /\ \A r \in Ranges : r # WholePlan => r \in Intervals
  BY DEF WholePlan, Intervals, Between, Ranges

LEMMA ChangeFacts ==
  ASSUME NEW commands \in Plans, NEW range \in Ranges, NEW restore \in BOOLEAN
  PROVE  LET c == Change(commands, range, restore)
         IN  /\ c \in PlanChanges /\ c.commands = commands
             /\ c.changedCommands = range /\ c.restoreCommands = restore
  BY DEF Change, PlanChanges

\* m is the change c when it is joined with the one queued before it.
Joins(m, l, c) ==
  /\ m \in PlanChanges /\ m.commands = c.commands
  /\ m.restoreCommands = c.restoreCommands
  /\ m.changedCommands # WholePlan /\ l.changedCommands # WholePlan
  /\ c.changedCommands # WholePlan
  /\ \A i \in Nat : About(m, i) <=> About(l, i) \/ About(c, i)

\* The change c is at the end of r, where q ended.
Extends(r, q, c) ==
  \/ r = Append(q, c)
  \/ \E m : q # <<>> /\ Joins(m, Last(q), c) /\ r = Append(Front(q), m)

LEMMA FrontFacts ==
  ASSUME NEW S, NEW q \in Seq(S), q # <<>>
  PROVE  /\ Front(q) \in Seq(S) /\ Last(q) \in S /\ Last(q) = q[Len(q)]
         /\ Len(q) \in Nat /\ Len(q) >= 1 /\ Len(Front(q)) = Len(q) - 1
         /\ DOMAIN Front(q) = 1 .. Len(q) - 1 /\ DOMAIN q = 1 .. Len(q)
         /\ \A i \in 1 .. Len(q) - 1 : Front(q)[i] = q[i]
<1>1. Len(q) \in Nat /\ Len(q) >= 1 /\ DOMAIN q = 1 .. Len(q)
  BY WithoutHead
<1>2. Last(q) = q[Len(q)] /\ q[Len(q)] \in S
  BY <1>1 DEF Last
<1> DEFINE n == Len(q) - 1
<1>3. n \in Nat /\ n <= Len(q)
  BY <1>1
<1> HIDE DEF n
<1> DEFINE f == SubSeq(q, 1, n)
<1>4. /\ f \in Seq(S) /\ Len(f) = n /\ DOMAIN f = 1 .. n
      /\ \A i \in 1 .. n : f[i] = q[i]
  BY <1>3
<1>5. Front(q) = f
  BY DEF Front, n
<1>6. QED
  BY <1>1, <1>2, <1>4, <1>5 DEF n

LEMMA QueueExtends ==
  ASSUME NEW q \in Seq(PlanChanges), NEW c \in PlanChanges
  PROVE  /\ AddToCommandSendQueue(q, c) \in Seq(PlanChanges)
         /\ Extends(AddToCommandSendQueue(q, c), q, c)
<1> DEFINE r == c.changedCommands
           l == IF q = <<>> THEN WholePlan ELSE Last(q).changedCommands
           touches == /\ l # WholePlan /\ r # WholePlan
                      /\ r.startIndex <= l.endIndex + 1
                      /\ r.endIndex >= l.startIndex - 1
           merged == Between(Min({r.startIndex, l.startIndex}),
                             Max({r.endIndex, l.endIndex}))
           m == [c EXCEPT !.changedCommands = merged]
<1>1. AddToCommandSendQueue(q, c)
      = IF touches THEN Append(Front(q), m) ELSE Append(q, c)
  BY DEF AddToCommandSendQueue
<1>2. CASE ~touches
  <2>1. AddToCommandSendQueue(q, c) = Append(q, c)
    BY <1>1, <1>2
  <2>2. QED
    BY <2>1, Appended, Zenon DEF Extends
<1>3. CASE touches
  <2>1. q # <<>> /\ l = Last(q).changedCommands
    BY <1>3
  <2>2. Last(q) \in PlanChanges /\ Front(q) \in Seq(PlanChanges)
    BY <2>1, FrontFacts
  <2>3. l \in Intervals /\ r \in Intervals
    <3>1. l \in Ranges /\ r \in Ranges
      BY <2>1, <2>2, MessageFacts
    <3>2. QED
      BY <3>1, <1>3, IntervalFacts
  <2>4. /\ l.startIndex \in Nat \ {0} /\ l.endIndex \in Nat \ {0}
        /\ r.startIndex \in Nat \ {0} /\ r.endIndex \in Nat \ {0}
        /\ l.startIndex <= l.endIndex /\ r.startIndex <= r.endIndex
    BY <2>3, IntervalFacts
  <2> DEFINE lo == Min({r.startIndex, l.startIndex})
             hi == Max({r.endIndex, l.endIndex})
  <2>5. /\ lo = (IF r.startIndex <= l.startIndex THEN r.startIndex ELSE l.startIndex)
        /\ hi = (IF r.endIndex <= l.endIndex THEN l.endIndex ELSE r.endIndex)
    BY <2>4, OfTwo
  <2> HIDE DEF lo, hi
  <2>6. lo \in Nat \ {0} /\ hi \in Nat \ {0} /\ lo <= hi
    BY <2>4, <2>5
  <2>7. merged \in Intervals /\ merged = Between(lo, hi)
    BY <2>6, IntervalFacts DEF lo, hi
  <2>8. merged.startIndex = lo /\ merged.endIndex = hi
    BY <2>7 DEF Between
  <2>9. \A i \in Nat : (lo <= i /\ i <= hi)
          <=> (l.startIndex <= i /\ i <= l.endIndex)
              \/ (r.startIndex <= i /\ i <= r.endIndex)
    BY <2>4, <2>5, <1>3
  <2> HIDE DEF merged, l, r
  <2>10. /\ m \in PlanChanges /\ m.commands = c.commands
         /\ m.restoreCommands = c.restoreCommands /\ m.changedCommands = merged
    <3>1. merged \in Ranges
      BY <2>7, IntervalFacts
    <3>2. QED
      BY <3>1 DEF PlanChanges
  <2> HIDE DEF m
  <2>11. merged # WholePlan /\ l # WholePlan /\ r # WholePlan
    BY <2>3, <2>7, IntervalFacts
  <2>12. \A i \in Nat : About(m, i) <=> About(Last(q), i) \/ About(c, i)
    <3>1. \A i \in Nat :
            /\ About(m, i) <=> (lo <= i /\ i <= hi)
            /\ About(Last(q), i) <=> (l.startIndex <= i /\ i <= l.endIndex)
            /\ About(c, i) <=> (r.startIndex <= i /\ i <= r.endIndex)
      BY <2>1, <2>4, <2>6, <2>8, <2>10 DEF About, r
    <3>2. QED
      BY <3>1, <2>9
  <2>13. Joins(m, Last(q), c)
    BY <2>1, <2>10, <2>11, <2>12 DEF Joins, r
  <2>14. AddToCommandSendQueue(q, c) = Append(Front(q), m)
    BY <1>1, <1>3 DEF m, merged, l, r
  <2>15. Append(Front(q), m) \in Seq(PlanChanges)
    BY <2>2, <2>10, Appended
  <2>16. QED
    BY <2>1, <2>13, <2>14, <2>15 DEF Extends
<1>4. QED
  BY <1>2, <1>3

-----------------------------------------------------------------------------
(* What each operation makes of a plan.                                    *)

\* A change leaves everything outside its range as it is.
Follows(commands, m) ==
  \/ m.changedCommands = WholePlan
  \/ \A i \in DOMAIN m.commands :
       ~About(m, i) => i \in DOMAIN commands /\ commands[i] = m.commands[i]

\* The plan becomes new, and differs from it only in the range.
Edited(commands, new, range) ==
  /\ new \in Plans /\ range \in Ranges
  /\ Follows(commands, Change(new, range, FALSE))

LEMMA EditedInRange ==
  ASSUME NEW commands \in Plans, NEW new \in Plans,
         NEW a \in Nat \ {0}, NEW b \in Nat \ {0}, a <= b,
         \A i \in DOMAIN new :
           i < a \/ i > b => i \in DOMAIN commands /\ commands[i] = new[i]
  PROVE  Edited(commands, new, Between(a, b))
<1> DEFINE r == Between(a, b)
           c == Change(new, r, FALSE)
<1>1. r \in Ranges /\ r.startIndex = a /\ r.endIndex = b
  BY IntervalFacts DEF Between
<1> HIDE DEF r
<1>2. c.commands = new /\ c.changedCommands = r
  BY DEF Change, c
<1> HIDE DEF c
<1>3. \A i \in DOMAIN new : ~About(c, i) => i < a \/ i > b
  <2>1. DOMAIN new \subseteq Nat
    BY PlanFacts
  <2>2. QED
    BY <1>1, <1>2, <2>1 DEF About
<1>4. Follows(commands, c)
  BY <1>2, <1>3 DEF Follows
<1>5. QED
  BY <1>1, <1>4 DEF Edited, c, r

LEMMA FieldEdited ==
  ASSUME PlanSyncAssumption, NEW p \in Plans, NEW i \in DOMAIN p,
         NEW v \in Nat
  PROVE  /\ Edited(p, [p EXCEPT ![i].value = v], Between(i, i))
         /\ DOMAIN [p EXCEPT ![i].value = v] = DOMAIN p
         /\ \A j \in DOMAIN p : j # i => [p EXCEPT ![i].value = v][j] = p[j]
         /\ \A j \in DOMAIN p :
              [p EXCEPT ![i].value = v][j].interop = p[j].interop
<1> DEFINE n == [p EXCEPT ![i].value = v]
<1>1. /\ Len(p) \in Nat /\ DOMAIN p = 1 .. Len(p) /\ Len(p) <= MaxLength
      /\ \A j \in DOMAIN p : p[j] \in Commands
      /\ p \in Seq(Commands)
  BY PlanFacts
<1>2. p \in [1 .. Len(p) -> Commands]
  <2> HIDE DEF Commands
  <2>1. QED
    BY <1>1
<1>3. DOMAIN n = DOMAIN p /\ \A j \in DOMAIN p : j # i => n[j] = p[j]
  BY <1>2
<1>4. n[i] = [p[i] EXCEPT !.value = v]
  BY <1>2
<1>5. n[i] \in Commands /\ n[i].interop = p[i].interop
  BY <1>1, <1>4 DEF Commands
<1>6. n \in [1 .. Len(p) -> Commands]
  <2>1. \A j \in 1 .. Len(p) : n[j] \in Commands
    BY <1>1, <1>3, <1>5
  <2> HIDE DEF Commands
  <2>2. n = [j \in 1 .. Len(p) |-> n[j]]
    BY <1>1, <1>2
  <2> HIDE DEF n
  <2>3. QED
    BY <2>1, <2>2
<1> HIDE DEF n
<1>7. n \in Plans
  BY <1>1, <1>6, PlansFromFunctions
<1>8. Edited(p, n, Between(i, i))
  <2>1. i \in Nat \ {0}
    BY <1>1
  <2>2. \A j \in DOMAIN n : j < i \/ j > i => j \in DOMAIN p /\ p[j] = n[j]
    BY <1>3, <2>1
  <2>3. QED
    BY <1>7, <2>1, <2>2, EditedInRange
<1>9. \A j \in DOMAIN p : n[j].interop = p[j].interop
  BY <1>3, <1>5
<1>10. QED
  BY <1>3, <1>8, <1>9 DEF n

LEMMA CommandAdded ==
  ASSUME PlanSyncAssumption, NEW p \in Plans, Len(p) + 1 <= MaxLength,
         NEW c \in Commands
  PROVE  Edited(p, Append(p, c), Between(Len(p) + 1, Len(p) + 1))
<1> DEFINE n == Append(p, c)
<1>1. /\ p \in Seq(Commands) /\ Len(p) \in Nat /\ DOMAIN p = 1 .. Len(p)
  BY PlanFacts
<1>2. n \in Seq(Commands) /\ IsAppended(n, p, c)
  BY <1>1, Appended
<1> HIDE DEF n
<1>3. n \in Plans
  BY <1>2 DEF Plans, IsAppended
<1>4. \A i \in DOMAIN n : i < Len(p) + 1 \/ i > Len(p) + 1
                            => i \in DOMAIN p /\ p[i] = n[i]
  BY <1>2 DEF IsAppended
<1>5. Len(p) + 1 \in Nat \ {0} /\ Len(p) + 1 <= Len(p) + 1
  BY <1>1
<1>6. QED
  BY <1>3, <1>4, <1>5, EditedInRange DEF n

LEMMA CommandDeleted ==
  ASSUME PlanSyncAssumption, NEW p \in Plans, NEW i \in DOMAIN p
  PROVE  Edited(p, RemoveAt(p, i), Between(i, Len(p)))
<1> DEFINE n == RemoveAt(p, i)
<1>1. /\ p \in Seq(Commands) /\ Len(p) \in Nat /\ DOMAIN p = 1 .. Len(p)
      /\ Len(p) <= MaxLength
  BY PlanFacts
<1>2. n \in Seq(Commands) /\ IsRemoved(n, p, i)
  BY <1>1, Removed
<1> HIDE DEF n
<1>3. n \in Plans
  <2>1. Len(n) <= MaxLength
    BY <1>1, <1>2 DEF IsRemoved, PlanSyncAssumption
  <2>2. QED
    BY <1>2, <2>1 DEF Plans
<1>4. \A j \in DOMAIN n : j < i \/ j > Len(p)
                            => j \in DOMAIN p /\ p[j] = n[j]
  BY <1>1, <1>2 DEF IsRemoved
<1>5. i \in Nat \ {0} /\ Len(p) \in Nat \ {0} /\ i <= Len(p)
  BY <1>1
<1>6. QED
  BY <1>3, <1>4, <1>5, EditedInRange DEF n

LEMMA CommandMoved ==
  ASSUME PlanSyncAssumption, NEW p \in Plans, NEW i \in DOMAIN p,
         NEW j \in DOMAIN p
  PROVE  Edited(p, InsertAt(RemoveAt(p, i), j, p[i]),
                Between(Min({i, j}), Max({i, j})))
<1> DEFINE r == RemoveAt(p, i)
           n == InsertAt(r, j, p[i])
<1>1. /\ p \in Seq(Commands) /\ Len(p) \in Nat /\ DOMAIN p = 1 .. Len(p)
      /\ Len(p) <= MaxLength /\ p[i] \in Commands
  BY PlanFacts
<1>2. r \in Seq(Commands) /\ IsRemoved(r, p, i)
  BY <1>1, Removed
<1> HIDE DEF r
<1>3. j \in 1 .. Len(r) + 1
  BY <1>1, <1>2 DEF IsRemoved
<1>4. n \in Seq(Commands) /\ IsInserted(n, r, j, p[i])
  BY <1>1, <1>2, <1>3, Inserted, Zenon
<1> HIDE DEF n
<1>5. Len(n) = Len(p) /\ DOMAIN n = 1 .. Len(p)
  BY <1>1, <1>2, <1>4 DEF IsRemoved, IsInserted
<1>6. n \in Plans
  BY <1>1, <1>4, <1>5 DEF Plans
<1> DEFINE a == Min({i, j})
           b == Max({i, j})
<1>7. a = (IF i <= j THEN i ELSE j) /\ b = (IF i <= j THEN j ELSE i)
  BY <1>1, OfTwo
<1> HIDE DEF a, b
<1>8. a \in Nat \ {0} /\ b \in Nat \ {0} /\ a <= b
  BY <1>1, <1>7
<1>9. ASSUME NEW k \in DOMAIN n, k < a \/ k > b
      PROVE  k \in DOMAIN p /\ p[k] = n[k]
  <2>1. k \in 1 .. Len(p)
    BY <1>5
  <2>2. CASE k < a
    <3>1. k < i /\ k < j /\ k \in 1 .. Len(p) - 1
      BY <1>1, <1>7, <2>1, <2>2
    <3>2. n[k] = r[k] /\ r[k] = p[k]
      BY <1>2, <1>4, <1>5, <2>1, <3>1 DEF IsRemoved, IsInserted
    <3>3. QED
      BY <1>1, <2>1, <3>2
  <2>3. CASE k > b
    <3>1. k > i /\ k > j /\ k - 1 \in 1 .. Len(p) - 1 /\ k - 1 >= i
          /\ (k - 1) + 1 = k
      BY <1>1, <1>7, <2>1, <2>3
    <3>2. n[k] = r[k - 1]
      BY <1>2, <1>4, <1>5, <2>1, <3>1 DEF IsRemoved, IsInserted
    <3>3. r[k - 1] = p[k]
      BY <1>2, <3>1 DEF IsRemoved
    <3>4. QED
      BY <1>1, <2>1, <3>2, <3>3
  <2>4. QED
    BY <1>9, <2>2, <2>3
<1>10. Edited(p, n, Between(a, b))
  BY <1>6, <1>8, <1>9, EditedInRange
<1>11. QED
  BY <1>10 DEF n, r, a, b

LEMMA PlanCleared ==
  ASSUME PlanSyncAssumption, NEW p
  PROVE  Edited(p, <<>>, WholePlan)
<1>1. <<>> \in Plans /\ WholePlan \in Ranges
  BY EmptyPlan DEF Ranges
<1>2. Change(<<>>, WholePlan, FALSE).changedCommands = WholePlan
  BY <1>1, ChangeFacts
<1>3. QED
  BY <1>1, <1>2 DEF Edited, Follows

-----------------------------------------------------------------------------
(* What is kept is always a plan or the error alone.                       *)

Queue(h) == h.commandChangeSendQueue

LEMMA ComponentFacts ==
  ASSUME NEW h \in Components
  PROVE  /\ h.mounted \in BOOLEAN /\ h.listens \in BOOLEAN
         /\ h.commands \in Plans \cup {<<Err>>}
         /\ h.invalidCommands \in BOOLEAN
         /\ Queue(h) \in Seq(PlanChanges)
  BY DEF Components, Queue

LEMMA HomeFacts ==
  ASSUME HomesOK, NEW u \in UIs
  PROVE  /\ home[u].now \in Components /\ home[u].old \in Components
         /\ Sound(u, home[u].now) /\ Sound(u, home[u].old)
         /\ home[u].now.listens
  BY DEF HomesOK

\* The component in use in u becomes h.
LEMMA NowBecomes ==
  ASSUME HomesOK, NEW u \in UIs, NEW h \in Components, Sound(u, h),
         h.listens, home' = [home EXCEPT ![u].now = h]
  PROVE  /\ HomesOK'
         /\ home'[u].now = h /\ home'[u].old = home[u].old
         /\ \A v \in UIs \ {u} : home'[v] = home[v]
<1>1. home \in [UIs -> [now : Components, old : Components]]
  BY DEF HomesOK
<1> HIDE DEF HomesOK
<1>2. /\ home'[u].now = h /\ home'[u].old = home[u].old
      /\ \A v \in UIs \ {u} : home'[v] = home[v]
      /\ home' \in [UIs -> [now : Components, old : Components]]
  <2> HIDE DEF Components
  <2>1. QED
    BY <1>1
<1>3. \A v \in UIs : /\ Sound(v, home'[v].now) /\ Sound(v, home'[v].old)
                     /\ home'[v].now.listens
  <2>1. SUFFICES ASSUME NEW v \in UIs
                 PROVE  /\ Sound(v, home'[v].now) /\ Sound(v, home'[v].old)
                        /\ home'[v].now.listens
    OBVIOUS
  <2>2. /\ Sound(v, home[v].now) /\ Sound(v, home[v].old)
        /\ home[v].now.listens /\ Sound(u, home[u].old)
    BY DEF HomesOK
  <2>3. CASE v = u
    BY <1>2, <2>2, <2>3
  <2>4. CASE v # u
    BY <1>2, <2>2, <2>4
  <2>5. QED
    BY <2>3, <2>4
<1>4. HomesOK'
  <2>1. \A v \in UIs : (/\ Sound(v, home[v].now) /\ Sound(v, home[v].old)
                        /\ home[v].now.listens)'
    BY <1>3 DEF Sound
  <2>2. QED
    BY <1>2, <2>1 DEF HomesOK
<1>5. QED
  BY <1>2, <1>4

LEMMA TakenFacts ==
  ASSUME NEW u \in UIs, NEW h \in Components, h.listens,
         NEW commands \in Plans
  PROVE  LET t == [h EXCEPT !.commands = commands, !.invalidCommands = FALSE]
         IN  /\ t \in Components /\ Sound(u, t) /\ t.listens
             /\ t.commands = commands /\ t.invalidCommands = FALSE
             /\ t.mounted = h.mounted /\ Queue(t) = Queue(h)
  BY DEF Components, Sound, Queue

LEMMA QueuedFacts ==
  ASSUME NEW u \in UIs, NEW h \in Components, Sound(u, h), h.listens,
         NEW q \in Seq(PlanChanges)
  PROVE  LET t == [h EXCEPT !.commandChangeSendQueue = q]
         IN  /\ t \in Components /\ Sound(u, t) /\ t.listens
             /\ t.commands = h.commands
             /\ t.invalidCommands = h.invalidCommands
             /\ t.mounted = h.mounted /\ Queue(t) = q
  BY DEF Components, Sound, Queue

Sends(u, m) ==
  /\ toServer'[u] = Append(toServer[u], m)
  /\ \A v \in UIs \ {u} : toServer'[v] = toServer[v]

LEMMA SendsMessage ==
  ASSUME ChannelsOK, NEW u \in UIs, NEW m \in Messages,
         toServer' = [toServer EXCEPT ![u] = Append(@, m)]
  PROVE  toServer' \in [UIs -> Seq(Messages)] /\ Sends(u, m)
<1>1. toServer \in [UIs -> Seq(Messages)]
  BY DEF ChannelsOK
<1> HIDE DEF Messages
<1>2. Append(toServer[u], m) \in Seq(Messages)
  BY <1>1
<1>3. QED
  BY <1>1, <1>2 DEF Sends

\* What setHomeState does: the plan is there, and the change on its way.
TakesChange(u, commands, range) ==
  LET c == Change(commands, range, FALSE)
  IN  /\ home'[u].old = home[u].old
      /\ home'[u].now.commands = commands
      /\ home'[u].now.invalidCommands = FALSE
      /\ home'[u].now.mounted = home[u].now.mounted
      /\ \A v \in UIs \ {u} : home'[v] = home[v]
      /\ \/ /\ Queue(home[u].now) = <<>> /\ Queue(home'[u].now) = <<>>
            /\ Sends(u, c)
         \/ /\ Extends(Queue(home'[u].now), Queue(home[u].now), c)
            /\ toServer' = toServer

LEMMA SetHome ==
  ASSUME PlanInv, NEW u \in UIs, NEW h \in Components, h.listens,
         Queue(h) = Queue(home[u].now), h.mounted = home[u].now.mounted,
         NEW commands \in Plans, NEW range \in Ranges,
         SetHomeState(u, h, commands, range)
  PROVE  /\ HomesOK' /\ toServer' \in [UIs -> Seq(Messages)]
         /\ TakesChange(u, commands, range)
<1> DEFINE c == Change(commands, range, FALSE)
           t == [h EXCEPT !.commands = commands, !.invalidCommands = FALSE]
           q == AddToCommandSendQueue(Queue(t), c)
           r == [t EXCEPT !.commandChangeSendQueue = q]
<1>1. c \in PlanChanges /\ c \in Messages
  BY ChangeFacts, MessageFacts, Zenon
<1>2. /\ t \in Components /\ Sound(u, t) /\ t.listens
      /\ t.commands = commands /\ t.invalidCommands = FALSE
      /\ t.mounted = h.mounted /\ Queue(t) = Queue(h)
  BY TakenFacts, Zenon
<1>3. \/ /\ Queue(h) = <<>>
         /\ home' = [home EXCEPT ![u].now = t]
         /\ toServer' = [toServer EXCEPT ![u] = Append(@, c)]
      \/ /\ home' = [home EXCEPT ![u].now = r]
         /\ toServer' = toServer
  BY DEF SetHomeState, Queue
<1> HIDE DEF c, t
<1>4. HomesOK /\ ChannelsOK
  BY DEF PlanInv
<1>5. CASE /\ Queue(h) = <<>>
           /\ home' = [home EXCEPT ![u].now = t]
           /\ toServer' = [toServer EXCEPT ![u] = Append(@, c)]
  <2>1. /\ HomesOK' /\ home'[u].now = t /\ home'[u].old = home[u].old
        /\ \A v \in UIs \ {u} : home'[v] = home[v]
    BY <1>2, <1>4, <1>5, NowBecomes
  <2>2. toServer' \in [UIs -> Seq(Messages)] /\ Sends(u, c)
    BY <1>1, <1>4, <1>5, SendsMessage
  <2>3. QED
    BY <1>2, <1>5, <2>1, <2>2 DEF TakesChange, c
<1>6. CASE /\ home' = [home EXCEPT ![u].now = r]
           /\ toServer' = toServer
  <2>1. Queue(t) \in Seq(PlanChanges)
    BY <1>2, ComponentFacts
  <2>2. q \in Seq(PlanChanges) /\ Extends(q, Queue(t), c)
    BY <1>1, <2>1, QueueExtends, Zenon
  <2> HIDE DEF q
  <2>3. /\ r \in Components /\ Sound(u, r) /\ r.listens
        /\ r.commands = commands /\ r.invalidCommands = FALSE
        /\ r.mounted = h.mounted /\ Queue(r) = q
    <3>1. /\ r \in Components /\ Sound(u, r) /\ r.listens
          /\ r.commands = t.commands
          /\ r.invalidCommands = t.invalidCommands
          /\ r.mounted = t.mounted /\ Queue(r) = q
      BY <1>2, <2>2, QueuedFacts, Zenon
    <3>2. QED
      BY <1>2, <3>1
  <2> HIDE DEF r
  <2>4. /\ HomesOK' /\ home'[u].now = r /\ home'[u].old = home[u].old
        /\ \A v \in UIs \ {u} : home'[v] = home[v]
    BY <1>4, <1>6, <2>3, NowBecomes
  <2>5. toServer' \in [UIs -> Seq(Messages)]
    BY <1>4, <1>6 DEF ChannelsOK
  <2>6. Extends(Queue(home'[u].now), Queue(home[u].now), c)
    BY <1>2, <2>2, <2>3, <2>4
  <2>7. QED
    BY <1>6, <2>3, <2>4, <2>5, <2>6 DEF TakesChange, c
<1>7. QED
  BY <1>3, <1>5, <1>6

\* The operator's changes of the plan, which are one for the other browsers.
EditAction(u) ==
  \/ \E i, j \in 1 .. MaxLength :
       \/ ChangedCommandField(u, i) \/ DeleteCommand(u, i) \/ OnSortEnd(u, i, j)
  \/ \E interop \in BOOLEAN : AddCommand(u, interop)
  \/ ClearCommands(u)

EditsPlan(u) ==
  /\ home[u].now.mounted
  /\ overlapped' = (overlapped \/ ~Alone(u))
  /\ toUi' = toUi /\ plan' = plan
  /\ \E commands, range :
       /\ Edited(home[u].now.commands, commands, range)
       /\ home[u].now.invalidCommands => range = WholePlan
       /\ TakesChange(u, commands, range)

LEMMA EditIsTaken ==
  ASSUME PlanInv, NEW u \in UIs, NEW commands, NEW range,
         Edited(home[u].now.commands, commands, range),
         SetHomeState(u, home[u].now, commands, range),
         UNCHANGED <<toUi, plan>>
  PROVE  HomesOK' /\ ChannelsOK' /\ TakesChange(u, commands, range)
<1>1. HomesOK /\ ChannelsOK
  BY DEF PlanInv
<1>2. home[u].now \in Components /\ home[u].now.listens
  BY <1>1, HomeFacts
<1>3. commands \in Plans /\ range \in Ranges
  BY DEF Edited
<1>4. /\ HomesOK' /\ toServer' \in [UIs -> Seq(Messages)]
      /\ TakesChange(u, commands, range)
  BY <1>2, <1>3, SetHome, Zenon
<1>5. QED
  BY <1>1, <1>4 DEF ChannelsOK

LEMMA ChangeIsTaken ==
  ASSUME PlanInv, NEW u \in UIs, NEW commands, NEW range,
         home[u].now.commands \in Plans
           => Edited(home[u].now.commands, commands, range),
         Changes(u, commands, range)
  PROVE  HomesOK' /\ ChannelsOK' /\ EditsPlan(u)
<1>1. home[u].now.commands \in Plans /\ ~home[u].now.invalidCommands
  <2>1. Sound(u, home[u].now)
    BY HomeFacts DEF PlanInv
  <2>2. QED
    BY <2>1 DEF Sound, Changes
<1>2. Edited(home[u].now.commands, commands, range)
  BY <1>1
<1>3. /\ SetHomeState(u, home[u].now, commands, range)
      /\ UNCHANGED <<toUi, plan>> /\ home[u].now.mounted
      /\ overlapped' = (overlapped \/ ~Alone(u))
  BY DEF Changes
<1>4. HomesOK' /\ ChannelsOK' /\ TakesChange(u, commands, range)
  BY <1>2, <1>3, EditIsTaken
<1>5. EditsPlan(u)
  BY <1>1, <1>2, <1>3, <1>4, Zenon DEF EditsPlan
<1>6. QED
  BY <1>4, <1>5

LEMMA ReshapeIsTaken ==
  ASSUME PlanInv, NEW u \in UIs, NEW commands, NEW range,
         home[u].now.commands \in Plans
           => Edited(home[u].now.commands, commands, range),
         Reshapes(u, commands, range)
  PROVE  PlanInv' /\ EditsPlan(u)
<1>1. HomesOK' /\ ChannelsOK' /\ EditsPlan(u)
  BY ChangeIsTaken DEF Reshapes
<1>2. CountersOK'
  BY DEF PlanInv, CountersOK, Reshapes, Changes
<1>3. QED
  BY <1>1, <1>2 DEF PlanInv

LEMMA FieldIsTaken ==
  ASSUME PlanSyncAssumption, PlanInv, NEW u \in UIs, NEW i,
         ChangedCommandField(u, i)
  PROVE  PlanInv' /\ EditsPlan(u)
<1> DEFINE p == home[u].now.commands
           new == [p EXCEPT ![i].value = edits + 1]
<1>1. edits + 1 \in Nat
  BY DEF PlanInv, CountersOK
<1>2. i \in DOMAIN p
  BY DEF ChangedCommandField
<1>3. p \in Plans => Edited(p, new, Between(i, i))
  <2> HIDE DEF p
  <2>1. QED
    BY <1>1, <1>2, FieldEdited
<1>4. Changes(u, new, Between(i, i))
  BY DEF ChangedCommandField
<1> HIDE DEF new
<1>5. HomesOK' /\ ChannelsOK' /\ EditsPlan(u)
  BY <1>3, <1>4, ChangeIsTaken, Zenon
<1>6. CountersOK'
  <2>1. /\ edits' = edits + 1 /\ remounts' = remounts /\ reshaped' = reshaped
        /\ overlapped' \in BOOLEAN
    BY DEF ChangedCommandField, Changes, PlanInv, CountersOK
  <2>2. editors' = [editors EXCEPT ![i] = @ \cup {u}]
    BY DEF ChangedCommandField
  <2>3. editors \in [1 .. MaxLength -> SUBSET UIs]
    BY DEF PlanInv, CountersOK
  <2>4. editors' \in [1 .. MaxLength -> SUBSET UIs]
    <3>1. CASE i \in 1 .. MaxLength
      BY <2>2, <2>3, <3>1
    <3>2. CASE i \notin 1 .. MaxLength
      BY <2>2, <2>3, <3>2
    <3>3. QED
      BY <3>1, <3>2
  <2>5. QED
    BY <2>1, <2>4 DEF PlanInv, CountersOK
<1>7. QED
  BY <1>5, <1>6 DEF PlanInv

LEMMA AddIsTaken ==
  ASSUME PlanSyncAssumption, PlanInv, NEW u \in UIs, NEW interop \in BOOLEAN,
         AddCommand(u, interop)
  PROVE  PlanInv' /\ EditsPlan(u)
<1> DEFINE p == home[u].now.commands
           c == Command(edits + 1, interop)
<1>1. c \in Commands
  BY DEF PlanInv, CountersOK, Command, Commands
<1>2. /\ Len(p) + 1 <= MaxLength
      /\ Reshapes(u, Append(p, c), Between(Len(p) + 1, Len(p) + 1))
  BY DEF AddCommand
<1>3. p \in Plans
        => Edited(p, Append(p, c), Between(Len(p) + 1, Len(p) + 1))
  <2> HIDE DEF p, c
  <2>1. QED
    BY <1>1, <1>2, CommandAdded
<1> HIDE DEF c
<1>4. QED
  BY <1>2, <1>3, ReshapeIsTaken, Zenon

LEMMA DeleteIsTaken ==
  ASSUME PlanSyncAssumption, PlanInv, NEW u \in UIs, NEW i,
         DeleteCommand(u, i)
  PROVE  PlanInv' /\ EditsPlan(u)
<1> DEFINE p == home[u].now.commands
<1>1. i \in DOMAIN p /\ Reshapes(u, RemoveAt(p, i), Between(i, Len(p)))
  BY DEF DeleteCommand
<1>2. p \in Plans => Edited(p, RemoveAt(p, i), Between(i, Len(p)))
  BY <1>1, CommandDeleted, Zenon
<1>3. QED
  BY <1>1, <1>2, ReshapeIsTaken, Zenon

LEMMA MoveIsTaken ==
  ASSUME PlanSyncAssumption, PlanInv, NEW u \in UIs, NEW i, NEW j,
         OnSortEnd(u, i, j)
  PROVE  PlanInv' /\ EditsPlan(u)
<1> DEFINE p == home[u].now.commands
           new == InsertAt(RemoveAt(p, i), j, p[i])
           range == Between(Min({i, j}), Max({i, j}))
<1>1. i \in DOMAIN p /\ j \in DOMAIN p /\ Reshapes(u, new, range)
  BY DEF OnSortEnd
<1>2. p \in Plans => Edited(p, new, range)
  BY <1>1, CommandMoved, Zenon
<1> HIDE DEF new, range
<1>3. QED
  BY <1>1, <1>2, ReshapeIsTaken, Zenon

LEMMA ClearIsTaken ==
  ASSUME PlanSyncAssumption, PlanInv, NEW u \in UIs, ClearCommands(u)
  PROVE  PlanInv' /\ EditsPlan(u)
<1>1. Edited(home[u].now.commands, <<>>, WholePlan)
  BY PlanCleared
<1>2. /\ SetHomeState(u, home[u].now, <<>>, WholePlan)
      /\ UNCHANGED <<toUi, plan>> /\ home[u].now.mounted
      /\ overlapped' = (overlapped \/ ~Alone(u))
  BY DEF ClearCommands
<1>3. HomesOK' /\ ChannelsOK' /\ TakesChange(u, <<>>, WholePlan)
  BY <1>1, <1>2, EditIsTaken
<1>4. CountersOK'
  BY DEF ClearCommands, PlanInv, CountersOK
<1>5. EditsPlan(u)
  BY <1>1, <1>2, <1>3, Zenon DEF EditsPlan
<1>6. QED
  BY <1>3, <1>4, <1>5 DEF PlanInv

LEMMA EditsAreTaken ==
  ASSUME PlanSyncAssumption, PlanInv, NEW u \in UIs, EditAction(u)
  PROVE  PlanInv' /\ EditsPlan(u)
<1>1. ASSUME NEW i \in 1 .. MaxLength, NEW j \in 1 .. MaxLength,
             \/ ChangedCommandField(u, i) \/ DeleteCommand(u, i)
             \/ OnSortEnd(u, i, j)
      PROVE  PlanInv' /\ EditsPlan(u)
  BY <1>1, FieldIsTaken, DeleteIsTaken, MoveIsTaken
<1>2. ASSUME NEW interop \in BOOLEAN, AddCommand(u, interop)
      PROVE  PlanInv' /\ EditsPlan(u)
  BY <1>2, AddIsTaken
<1>3. QED
  BY <1>1, <1>2, ClearIsTaken DEF EditAction

-----------------------------------------------------------------------------
(* What else changes the components.                                       *)

LEMMA OldBecomes ==
  ASSUME HomesOK, NEW u \in UIs, NEW h \in Components, Sound(u, h),
         home' = [home EXCEPT ![u].old = h]
  PROVE  /\ HomesOK'
         /\ home'[u].old = h /\ home'[u].now = home[u].now
         /\ \A v \in UIs \ {u} : home'[v] = home[v]
<1>1. home \in [UIs -> [now : Components, old : Components]]
  BY DEF HomesOK
<1> HIDE DEF HomesOK
<1>2. /\ home'[u].old = h /\ home'[u].now = home[u].now
      /\ \A v \in UIs \ {u} : home'[v] = home[v]
      /\ home' \in [UIs -> [now : Components, old : Components]]
  <2> HIDE DEF Components
  <2>1. QED
    BY <1>1
<1>3. \A v \in UIs : /\ Sound(v, home'[v].now) /\ Sound(v, home'[v].old)
                     /\ home'[v].now.listens
  <2>1. SUFFICES ASSUME NEW v \in UIs
                 PROVE  /\ Sound(v, home'[v].now) /\ Sound(v, home'[v].old)
                        /\ home'[v].now.listens
    OBVIOUS
  <2>2. /\ Sound(v, home[v].now) /\ Sound(v, home[v].old)
        /\ home[v].now.listens
        /\ Sound(u, home[u].now) /\ home[u].now.listens
    BY DEF HomesOK
  <2>3. CASE v = u
    BY <1>2, <2>2, <2>3
  <2>4. CASE v # u
    BY <1>2, <2>2, <2>4
  <2>5. QED
    BY <2>3, <2>4
<1>4. HomesOK'
  <2>1. \A v \in UIs : (/\ Sound(v, home[v].now) /\ Sound(v, home[v].old)
                        /\ home[v].now.listens)'
    BY <1>3 DEF Sound
  <2>2. QED
    BY <1>2, <2>1 DEF HomesOK
<1>5. QED
  BY <1>2, <1>4

\* The component h, one of u's, with q queued.
Requeued(k, h, q) ==
  /\ Queue(k) = q /\ k.commands = h.commands
  /\ k.invalidCommands = h.invalidCommands
  /\ k.mounted = h.mounted /\ k.listens = h.listens

\* The oldest change that is queued in one of u's components is sent.
SendsQueued(u) ==
  /\ toUi' = toUi /\ plan' = plan /\ overlapped' = overlapped
  /\ \A v \in UIs \ {u} : home'[v] = home[v]
  /\ \/ /\ Queue(home[u].now) # <<>> /\ Sends(u, Head(Queue(home[u].now)))
        /\ Requeued(home'[u].now, home[u].now, Tail(Queue(home[u].now)))
        /\ home'[u].old = home[u].old
     \/ /\ Queue(home[u].old) # <<>> /\ Sends(u, Head(Queue(home[u].old)))
        /\ Requeued(home'[u].old, home[u].old, Tail(Queue(home[u].old)))
        /\ home'[u].now = home[u].now

LEMMA RequeuedFacts ==
  ASSUME NEW u \in UIs, NEW h \in Components, Sound(u, h),
         NEW q \in Seq(PlanChanges)
  PROVE  LET k == [h EXCEPT !.commandChangeSendQueue = q]
         IN  k \in Components /\ Sound(u, k) /\ Requeued(k, h, q)
  BY DEF Components, Sound, Queue, Requeued

LEMMA SendIsTaken ==
  ASSUME PlanInv, NEW u \in UIs, NEW c \in {"now", "old"},
         SendQueuedCommands(u, c)
  PROVE  PlanInv' /\ SendsQueued(u)
<1> DEFINE h == home[u][c]
           q == Queue(h)
           k == [h EXCEPT !.commandChangeSendQueue = Tail(q)]
<1>1. HomesOK /\ ChannelsOK
  BY DEF PlanInv
<1>2. h \in Components /\ Sound(u, h)
  BY <1>1, HomeFacts
<1>3. q \in Seq(PlanChanges) /\ q # <<>>
  BY <1>2, ComponentFacts DEF SendQueuedCommands, Queue
<1>4. Head(q) \in Messages /\ Tail(q) \in Seq(PlanChanges)
  BY <1>3, WithoutHead, MessageFacts
<1>5. toServer' = [toServer EXCEPT ![u] = Append(@, Head(q))]
  BY DEF SendQueuedCommands, Queue
<1>6. home' = [home EXCEPT ![u][c] = k]
  BY DEF SendQueuedCommands, Queue
<1> HIDE DEF q
<1>7. k \in Components /\ Sound(u, k) /\ Requeued(k, h, Tail(q))
  BY <1>2, <1>4, RequeuedFacts, Zenon
<1> HIDE DEF k
<1>8. toServer' \in [UIs -> Seq(Messages)] /\ Sends(u, Head(q))
  BY <1>1, <1>4, <1>5, SendsMessage
<1>9. toUi' = toUi /\ plan' = plan /\ overlapped' = overlapped
  BY DEF SendQueuedCommands
<1>10. CASE c = "now"
  <2>1. k.listens
    BY <1>1, <1>7, <1>10, HomeFacts DEF Requeued
  <2>2. home' = [home EXCEPT ![u].now = k]
    BY <1>6, <1>10
  <2>3. /\ HomesOK' /\ home'[u].now = k /\ home'[u].old = home[u].old
        /\ \A v \in UIs \ {u} : home'[v] = home[v]
    BY <1>1, <1>7, <2>1, <2>2, NowBecomes
  <2>4. SendsQueued(u)
    BY <1>3, <1>7, <1>8, <1>10, <1>9, <2>3 DEF SendsQueued, q
  <2>5. QED
    BY <1>1, <1>8, <2>3, <2>4
    DEF PlanInv, CountersOK, ChannelsOK, SendQueuedCommands
<1>11. CASE c = "old"
  <2>2. home' = [home EXCEPT ![u].old = k]
    BY <1>6, <1>11
  <2>3. /\ HomesOK' /\ home'[u].old = k /\ home'[u].now = home[u].now
        /\ \A v \in UIs \ {u} : home'[v] = home[v]
    BY <1>1, <1>7, <2>2, OldBecomes
  <2>4. SendsQueued(u)
    BY <1>3, <1>7, <1>8, <1>11, <1>9, <2>3 DEF SendsQueued, q
  <2>5. QED
    BY <1>1, <1>8, <2>3, <2>4
    DEF PlanInv, CountersOK, ChannelsOK, SendQueuedCommands
<1>12. QED
  BY <1>10, <1>11

\* A browser that shows the error asks for the plan.
AsksToRestore(u) ==
  /\ home[u].now.mounted /\ home[u].now.invalidCommands
  /\ home' = home /\ toUi' = toUi /\ plan' = plan
  /\ overlapped' = (overlapped \/ ~Alone(u))
  /\ Sends(u, Request(TRUE))

LEMMA RestoreIsAsked ==
  ASSUME PlanInv, NEW u \in UIs, RestoreCommands(u)
  PROVE  PlanInv' /\ AsksToRestore(u)
<1>1. toServer' \in [UIs -> Seq(Messages)] /\ Sends(u, Request(TRUE))
  <2>1. Request(TRUE) \in Messages
    BY MessageFacts
  <2>2. QED
    BY <2>1, SendsMessage DEF RestoreCommands, PlanInv
<1>2. HomesOK' /\ ChannelsOK'
  <2>1. home' = home /\ plan' = plan /\ toUi' = toUi
    BY DEF RestoreCommands
  <2>2. HomesOK'
    BY <2>1 DEF PlanInv, HomesOK, Sound
  <2>3. QED
    BY <1>1, <2>1, <2>2 DEF PlanInv, ChannelsOK
<1>3. CountersOK'
  BY DEF RestoreCommands, PlanInv, CountersOK
<1>4. AsksToRestore(u)
  BY <1>1 DEF RestoreCommands, AsksToRestore
<1>5. QED
  BY <1>1, <1>2, <1>3, <1>4 DEF PlanInv

LEMMA NewHomeFacts ==
  ASSUME PlanSyncAssumption, NEW u \in UIs
  PROVE  LET h == [NewHome EXCEPT !.mounted = FALSE]
         IN  /\ h \in Components /\ Sound(u, h) /\ h.listens
             /\ ~h.mounted /\ ~h.invalidCommands /\ Queue(h) = <<>>
<1>1. <<>> \in Plans /\ <<>> \in Seq(PlanChanges)
  BY EmptyPlan
<1>2. QED
  BY <1>1 DEF NewHome, Components, Sound, Queue

\* The component is left, with its listener and its queue.
Leaves(u) ==
  /\ toServer' = toServer /\ toUi' = toUi /\ plan' = plan
  /\ overlapped' = overlapped
  /\ \A v \in UIs \ {u} : home'[v] = home[v]
  /\ Queue(home[u].old) = <<>> /\ home[u].now.mounted
  /\ home'[u].old.listens /\ Queue(home'[u].old) = Queue(home[u].now)
  /\ home'[u].old.invalidCommands = home[u].now.invalidCommands
  /\ ~home'[u].now.mounted /\ ~home'[u].now.invalidCommands
  /\ Queue(home'[u].now) = <<>>

LEMMA MountingFacts ==
  ASSUME NEW u \in UIs, NEW h \in Components, Sound(u, h),
         NEW mounted \in BOOLEAN
  PROVE  LET k == [h EXCEPT !.mounted = mounted]
         IN  /\ k \in Components /\ Sound(u, k) /\ k.mounted = mounted
             /\ k.commands = h.commands /\ k.listens = h.listens
             /\ k.invalidCommands = h.invalidCommands /\ Queue(k) = Queue(h)
  BY DEF Components, Sound, Queue

LEMMA UnmountIsTaken ==
  ASSUME PlanSyncAssumption, PlanInv, NEW u \in UIs, Unmount(u)
  PROVE  PlanInv' /\ Leaves(u)
<1> DEFINE k == [home[u].now EXCEPT !.mounted = FALSE]
           n == [NewHome EXCEPT !.mounted = FALSE]
<1>1. /\ home[u].now \in Components /\ Sound(u, home[u].now)
      /\ home[u].now.listens
  BY HomeFacts DEF PlanInv
<1>2. /\ k \in Components /\ Sound(u, k) /\ k.listens
      /\ k.invalidCommands = home[u].now.invalidCommands
      /\ Queue(k) = Queue(home[u].now)
  BY <1>1, MountingFacts
<1>3. /\ n \in Components /\ Sound(u, n) /\ n.listens
      /\ ~n.mounted /\ ~n.invalidCommands /\ Queue(n) = <<>>
  BY NewHomeFacts, Zenon
<1>4. home' = [home EXCEPT ![u].old = k, ![u].now = n]
  BY DEF Unmount
<1> HIDE DEF k, n
<1>5. home \in [UIs -> [now : Components, old : Components]]
  BY DEF PlanInv, HomesOK
<1>6. /\ home'[u].old = k /\ home'[u].now = n
      /\ \A v \in UIs \ {u} : home'[v] = home[v]
      /\ home' \in [UIs -> [now : Components, old : Components]]
  <2> HIDE DEF Components
  <2>1. QED
    BY <1>2, <1>3, <1>4, <1>5
<1>7. ASSUME NEW v \in UIs
      PROVE  /\ Sound(v, home'[v].now) /\ Sound(v, home'[v].old)
             /\ home'[v].now.listens
  <2>1. /\ Sound(v, home[v].now) /\ Sound(v, home[v].old)
        /\ home[v].now.listens
    BY HomeFacts DEF PlanInv
  <2>2. CASE v = u
    BY <1>2, <1>3, <1>6, <2>2
  <2>3. CASE v # u
    BY <1>6, <2>1, <2>3
  <2>4. QED
    BY <2>2, <2>3
<1>8. HomesOK'
  <2>1. \A v \in UIs : (/\ Sound(v, home[v].now) /\ Sound(v, home[v].old)
                        /\ home[v].now.listens)'
    BY <1>7 DEF Sound
  <2>2. QED
    BY <1>6, <2>1 DEF HomesOK
<1>9. Queue(home[u].old) = <<>> /\ home[u].now.mounted
  BY DEF Unmount, Queue
<1>10. Leaves(u)
  BY <1>2, <1>3, <1>6, <1>9 DEF Leaves, Unmount
<1>11. CountersOK' /\ ChannelsOK'
  BY DEF Unmount, PlanInv, CountersOK, ChannelsOK
<1>12. QED
  BY <1>8, <1>10, <1>11 DEF PlanInv

\* A new component asks for the plan.
Comes(u) ==
  /\ toUi' = toUi /\ plan' = plan
  /\ overlapped' = (overlapped \/ Queue(home[u].old) # <<>>)
  /\ \A v \in UIs \ {u} : home'[v] = home[v]
  /\ ~home[u].now.mounted /\ Sends(u, Request(FALSE))
  /\ home'[u].old = home[u].old
  /\ home'[u].now.mounted
  /\ home'[u].now.invalidCommands = home[u].now.invalidCommands
  /\ Queue(home'[u].now) = Queue(home[u].now)

LEMMA MountIsTaken ==
  ASSUME PlanInv, NEW u \in UIs, Mount(u)
  PROVE  PlanInv' /\ Comes(u)
<1> DEFINE k == [home[u].now EXCEPT !.mounted = TRUE]
<1>1. /\ home[u].now \in Components /\ Sound(u, home[u].now)
      /\ home[u].now.listens
  BY HomeFacts DEF PlanInv
<1>2. /\ k \in Components /\ Sound(u, k) /\ k.listens /\ k.mounted
      /\ k.invalidCommands = home[u].now.invalidCommands
      /\ Queue(k) = Queue(home[u].now)
  BY <1>1, MountingFacts
<1>3. home' = [home EXCEPT ![u].now = k]
  BY DEF Mount
<1> HIDE DEF k
<1>4. /\ HomesOK' /\ home'[u].now = k /\ home'[u].old = home[u].old
      /\ \A v \in UIs \ {u} : home'[v] = home[v]
  BY <1>2, <1>3, NowBecomes DEF PlanInv
<1>5. toServer' \in [UIs -> Seq(Messages)] /\ Sends(u, Request(FALSE))
  <2>1. Request(FALSE) \in Messages
    BY MessageFacts
  <2>2. QED
    BY <2>1, SendsMessage DEF Mount, PlanInv
<1>6. Comes(u)
  BY <1>2, <1>4, <1>5 DEF Comes, Mount, Queue
<1>7. CountersOK' /\ ChannelsOK'
  BY <1>5 DEF Mount, PlanInv, CountersOK, ChannelsOK
<1>8. QED
  BY <1>4, <1>6, <1>7 DEF PlanInv

-----------------------------------------------------------------------------
(* What the server and the browsers make of a message.                     *)

\* The oldest message of u goes through the server.
ServerTakes(u) ==
  LET m == Head(toServer[u])
  IN  /\ toServer[u] # <<>> /\ toServer'[u] = Tail(toServer[u])
      /\ \A v \in UIs \ {u} : toServer'[v] = toServer[v]
      /\ home' = home /\ overlapped' = overlapped
      /\ \/ /\ IsChange(m) /\ plan' = m.commands /\ toUi'[u] = toUi[u]
            /\ \A v \in UIs \ {u} : toUi'[v] = Append(toUi[v], m)
         \/ /\ ~IsChange(m) /\ plan' = plan
            /\ toUi'[u] = Append(toUi[u],
                                 Change(plan, WholePlan, m.restoreCommands))
            /\ \A v \in UIs \ {u} : toUi'[v] = toUi[v]

LEMMA AtTheServer ==
  ASSUME PlanInv, NEW u \in UIs, ServerReceives(u)
  PROVE  PlanInv' /\ ServerTakes(u)
<1> DEFINE m == Head(toServer[u])
<1>1. /\ plan \in Plans /\ toServer \in [UIs -> Seq(Messages)]
      /\ toUi \in [UIs -> Seq(PlanChanges)]
  BY DEF PlanInv, ChannelsOK
<1>2. toServer[u] # <<>> /\ toServer' = [toServer EXCEPT ![u] = Tail(@)]
  BY DEF ServerReceives
<1>3. m \in Messages /\ Tail(toServer[u]) \in Seq(Messages)
  <2>1. toServer[u] \in Seq(Messages)
    BY <1>1
  <2>2. QED
    BY <1>2, <2>1, WithoutHead
<1>4. /\ toServer' \in [UIs -> Seq(Messages)]
      /\ toServer'[u] = Tail(toServer[u])
      /\ \A v \in UIs \ {u} : toServer'[v] = toServer[v]
  <2> HIDE DEF Messages
  <2>1. QED
    BY <1>1, <1>2, <1>3
<1>5. home' = home /\ overlapped' = overlapped /\ CountersOK' /\ HomesOK'
  BY DEF ServerReceives, PlanInv, CountersOK, HomesOK, Sound
<1> HIDE DEF m
<1>6. CASE IsChange(m)
  <2>1. m \in PlanChanges /\ m.commands \in Plans
    BY <1>3, <1>6, MessageFacts
  <2>2. /\ plan' = m.commands
        /\ toUi' = [v \in UIs |-> IF v = u THEN toUi[v] ELSE Append(toUi[v], m)]
    BY <1>6 DEF ServerReceives, IsChange, m
  <2>3. /\ toUi'[u] = toUi[u]
        /\ \A v \in UIs \ {u} : toUi'[v] = Append(toUi[v], m)
    BY <2>2
  <2>4. \A v \in UIs : toUi'[v] \in Seq(PlanChanges)
    <3>1. SUFFICES ASSUME NEW v \in UIs PROVE toUi'[v] \in Seq(PlanChanges)
      OBVIOUS
    <3>2. toUi[v] \in Seq(PlanChanges)
      BY <1>1
    <3>3. Append(toUi[v], m) \in Seq(PlanChanges)
      BY <2>1, <3>2, Appended
    <3>4. QED
      BY <2>3, <3>2, <3>3
  <2>5. toUi' \in [UIs -> Seq(PlanChanges)]
    BY <2>2, <2>4
  <2>6. ServerTakes(u)
    BY <1>2, <1>4, <1>5, <1>6, <2>2, <2>3 DEF ServerTakes, m
  <2>7. QED
    BY <1>4, <1>5, <2>1, <2>2, <2>5, <2>6 DEF PlanInv, ChannelsOK
<1>7. CASE ~IsChange(m)
  <2> DEFINE c == Change(plan, WholePlan, m.restoreCommands)
  <2>1. c \in PlanChanges
    <3>1. m.restoreCommands \in BOOLEAN
      BY <1>3, MessageFacts
    <3>2. WholePlan \in Ranges
      BY DEF Ranges
    <3>3. QED
      BY <1>1, <3>1, <3>2, ChangeFacts, Zenon
  <2>2. plan' = plan /\ toUi' = [toUi EXCEPT ![u] = Append(@, c)]
    BY <1>7 DEF ServerReceives, IsChange, m
  <2> HIDE DEF c
  <2>3. /\ toUi'[u] = Append(toUi[u], c)
        /\ \A v \in UIs \ {u} : toUi'[v] = toUi[v]
        /\ toUi' \in [UIs -> Seq(PlanChanges)]
    <3> HIDE DEF PlanChanges
    <3>1. QED
      BY <1>1, <2>1, <2>2
  <2>4. ServerTakes(u)
    BY <1>2, <1>4, <1>5, <1>7, <2>2, <2>3 DEF ServerTakes, m, c
  <2>5. QED
    BY <1>1, <1>4, <1>5, <2>2, <2>3, <2>4 DEF PlanInv, ChannelsOK
<1>8. QED
  BY <1>6, <1>7

\* The message that the browser's listeners have made of the oldest one.
Received(u) == Merge(home[u].now, Merge(home[u].old, Head(toUi[u])))

\* What a component's listener makes of a message.
Merged(k, h, m) ==
  /\ k \in PlanChanges /\ k.restoreCommands = m.restoreCommands
  /\ \/ k.changedCommands = WholePlan /\ k.commands = m.commands
     \/ /\ k.changedCommands = m.changedCommands
        /\ DOMAIN k.commands = DOMAIN m.commands
        /\ \A i \in DOMAIN m.commands :
             /\ About(m, i) => k.commands[i] = m.commands[i]
             /\ ~About(m, i) /\ i \in DOMAIN h.commands
                  => k.commands[i] \in {h.commands[i], m.commands[i]}

LEMMA MergeMakes ==
  ASSUME PlanSyncAssumption, NEW u \in UIs, NEW h \in Components,
         Sound(u, h), NEW m \in PlanChanges
  PROVE  /\ Merged(Merge(h, m), h, m)
         /\ h.listens /\ ~h.invalidCommands /\ m.changedCommands # WholePlan
              => \A i \in DOMAIN m.commands :
                   ~About(m, i) /\ i \in DOMAIN h.commands
                     => Merge(h, m).commands[i] = h.commands[i]
         /\ ~h.listens => Merge(h, m) = m
<1> DEFINE r == m.changedCommands
           mc == m.commands
           own(i) == IF i <= Len(h.commands) THEN h.commands[i] ELSE Undefined
           new == [i \in DOMAIN mc |->
                     IF i < r.startIndex
                        \/ (i > r.endIndex /\ i <= Len(h.commands))
                     THEN own(i) ELSE mc[i]]
<1>1. /\ mc \in Plans /\ r \in Ranges /\ m.restoreCommands \in BOOLEAN
  BY MessageFacts
<1>2. /\ Len(mc) \in Nat /\ DOMAIN mc = 1 .. Len(mc) /\ Len(mc) <= MaxLength
      /\ \A i \in DOMAIN mc : mc[i] \in Commands
  BY <1>1, PlanFacts
<1>3. ASSUME ~h.listens \/ (r = WholePlan /\ ~h.invalidCommands)
      PROVE  Merge(h, m) = m /\ Merged(m, h, m)
  <2>1. Merge(h, m) = m
    BY <1>3 DEF Merge
  <2>2. Merged(m, h, m)
    BY DEF Merged
  <2>3. QED
    BY <2>1, <2>2
<1>4. ASSUME h.listens, h.invalidCommands
      PROVE  Merged(Merge(h, m), h, m)
  <2> DEFINE k == [m EXCEPT !.changedCommands = WholePlan]
  <2>1. Merge(h, m) = k
    BY <1>4 DEF Merge
  <2>2. /\ k \in PlanChanges /\ k.restoreCommands = m.restoreCommands
        /\ k.changedCommands = WholePlan /\ k.commands = m.commands
    BY DEF PlanChanges, Ranges
  <2>3. QED
    BY <2>1, <2>2 DEF Merged
<1>5. ASSUME h.listens, ~h.invalidCommands, r # WholePlan
      PROVE  /\ Merged(Merge(h, m), h, m)
             /\ \A i \in DOMAIN mc :
                  ~About(m, i) /\ i \in DOMAIN h.commands
                    => Merge(h, m).commands[i] = h.commands[i]
  <2> DEFINE k == [m EXCEPT !.commands = new]
  <2>1. Merge(h, m) = k
    BY <1>5 DEF Merge
  <2>2. h.commands \in Plans
    BY <1>5 DEF Sound
  <2>3. /\ Len(h.commands) \in Nat /\ DOMAIN h.commands = 1 .. Len(h.commands)
        /\ \A i \in DOMAIN h.commands : h.commands[i] \in Commands
    BY <2>2, PlanFacts
  <2>4. /\ r.startIndex \in Nat \ {0} /\ r.endIndex \in Nat \ {0}
        /\ r.startIndex <= r.endIndex
    BY <1>1, <1>5, IntervalFacts
  <2>5. ASSUME NEW i \in DOMAIN mc
        PROVE  /\ new[i] \in Commands
               /\ About(m, i) => new[i] = mc[i]
               /\ ~About(m, i) /\ i \in DOMAIN h.commands
                    => new[i] = h.commands[i]
    <3>1. i \in 1 .. Len(mc) /\ mc[i] \in Commands
      BY <1>2
    <3>2. CASE i < r.startIndex
      <4>1. new[i] = own(i) /\ ~About(m, i)
        BY <2>4, <3>1, <3>2 DEF About
      <4>2. own(i) \in Commands
        BY <2>3, <3>1, ErrIsNoCommand
      <4>3. QED
        BY <2>3, <3>1, <4>1, <4>2
    <3>3. CASE ~(i < r.startIndex) /\ i > r.endIndex /\ i <= Len(h.commands)
      <4>1. new[i] = h.commands[i] /\ ~About(m, i) /\ i \in DOMAIN h.commands
        BY <2>3, <2>4, <3>1, <3>3 DEF About
      <4>2. QED
        BY <2>3, <4>1
    <3>4. CASE ~(i < r.startIndex)
               /\ ~(i > r.endIndex /\ i <= Len(h.commands))
      <4>1. new[i] = mc[i]
        BY <3>4
      <4>2. ~About(m, i) => ~(i \in DOMAIN h.commands)
        BY <2>3, <2>4, <3>1, <3>4 DEF About
      <4>3. QED
        BY <3>1, <4>1, <4>2
    <3>5. QED
      BY <3>2, <3>3, <3>4
  <2>6. DOMAIN new = DOMAIN mc
    OBVIOUS
  <2>7. new \in Plans
    <3>1. new \in [1 .. Len(mc) -> Commands]
      BY <1>2, <2>5
    <3> HIDE DEF new
    <3>2. QED
      BY <1>2, <3>1, PlansFromFunctions
  <2> HIDE DEF new
  <2>8. /\ k \in PlanChanges /\ k.restoreCommands = m.restoreCommands
        /\ k.changedCommands = r /\ k.commands = new
    BY <1>1, <2>7 DEF PlanChanges
  <2> HIDE DEF k
  <2>9. Merged(k, h, m)
    BY <2>5, <2>6, <2>8 DEF Merged
  <2>10. QED
    BY <2>1, <2>5, <2>8, <2>9
<1>6. Merged(Merge(h, m), h, m)
  <2> HIDE DEF r, mc
  <2>1. QED
    BY <1>3, <1>4, <1>5
<1>7. QED
  BY <1>3, <1>5, <1>6


LEMMA ReceivedFacts ==
  ASSUME PlanSyncAssumption, PlanInv, NEW u \in UIs, toUi[u] # <<>>
  PROVE  /\ Head(toUi[u]) \in PlanChanges /\ Received(u) \in PlanChanges
         /\ Received(u).restoreCommands = Head(toUi[u]).restoreCommands
         /\ toUi[u] \in Seq(PlanChanges)
<1> DEFINE m == Head(toUi[u])
           k == Merge(home[u].old, m)
<1>1. toUi[u] \in Seq(PlanChanges) /\ HomesOK
  BY DEF PlanInv, ChannelsOK
<1>2. m \in PlanChanges
  BY <1>1, WithoutHead
<1>3. /\ home[u].now \in Components /\ home[u].old \in Components
      /\ Sound(u, home[u].now) /\ Sound(u, home[u].old)
  BY <1>1, HomeFacts
<1> HIDE DEF m
<1>4. Merged(k, home[u].old, m)
  BY <1>2, <1>3, MergeMakes, Zenon
<1>5. k \in PlanChanges /\ k.restoreCommands = m.restoreCommands
  BY <1>4 DEF Merged
<1> HIDE DEF k
<1>6. Merged(Merge(home[u].now, k), home[u].now, k)
  BY <1>3, <1>5, MergeMakes, Zenon
<1> DEFINE n == Merge(home[u].now, k)
<1>7. n \in PlanChanges /\ n.restoreCommands = k.restoreCommands
  BY <1>6 DEF Merged
<1>8. Received(u) = n
  BY DEF Received, k, m
<1>9. QED
  BY <1>1, <1>2, <1>5, <1>7, <1>8 DEF m

\* A message that follows what a browser has makes it the sender's plan,
\* whatever the listener of the component before this one does first.
LEMMA ReceivedIsSent ==
  ASSUME PlanSyncAssumption, PlanInv, NEW u \in UIs, toUi[u] # <<>>,
         home[u].old.listens => u \in Agreeing /\ ~home[u].old.invalidCommands,
         home[u].now.invalidCommands
           \/ Follows(home[u].now.commands, Head(toUi[u]))
  PROVE  Received(u).commands = Head(toUi[u]).commands
<1> DEFINE h == home[u].now
           o == home[u].old
           m == Head(toUi[u])
           k == Merge(o, m)
           n == Merge(h, k)
<1>1. HomesOK /\ m \in PlanChanges
  BY ReceivedFacts DEF PlanInv
<1>2. /\ h \in Components /\ o \in Components /\ Sound(u, h) /\ Sound(u, o)
      /\ h.listens /\ h.invalidCommands \in BOOLEAN
  BY <1>1, HomeFacts, ComponentFacts
<1>3. /\ o.listens => u \in Agreeing /\ ~o.invalidCommands
      /\ h.invalidCommands \/ Follows(h.commands, m)
  OBVIOUS
<1>4. Received(u) = n
  BY DEF Received
<1> HIDE DEF h, o, m
<1>5. Merged(k, o, m) /\ (~o.listens => k = m)
  BY <1>1, <1>2, MergeMakes, Zenon
<1>6. k \in PlanChanges
  BY <1>5 DEF Merged
<1>7. o.listens => k.changedCommands = m.changedCommands
  <2>1. o.listens /\ m.changedCommands # WholePlan
          => k = [m EXCEPT !.commands = k.commands]
    <3>1. SUFFICES ASSUME o.listens, m.changedCommands # WholePlan
                   PROVE  k = [m EXCEPT !.commands = k.commands]
      OBVIOUS
    <3>2. ~o.invalidCommands
      BY <3>1, <1>3
    <3> DEFINE r == m.changedCommands
               own(i) == IF i <= Len(o.commands) THEN o.commands[i]
                         ELSE Undefined
               new == [i \in DOMAIN m.commands |->
                         IF i < r.startIndex
                            \/ (i > r.endIndex /\ i <= Len(o.commands))
                         THEN own(i) ELSE m.commands[i]]
    <3>3. k = [m EXCEPT !.commands = new]
      BY <3>1, <3>2 DEF Merge
    <3> HIDE DEF new
    <3>4. k.commands = new
      BY <1>1, <3>3 DEF PlanChanges
    <3>5. QED
      BY <3>3, <3>4
  <2>2. o.listens /\ m.changedCommands = WholePlan => k = m
    BY <1>3 DEF Merge
  <2>3. QED
    <3>1. CASE o.listens /\ m.changedCommands = WholePlan
      BY <2>2, <3>1
    <3>2. CASE o.listens /\ m.changedCommands # WholePlan
      <4> DEFINE kc == k.commands
      <4>1. k = [m EXCEPT !.commands = kc]
        BY <2>1, <3>2
      <4> HIDE DEF k, kc
      <4>2. [m EXCEPT !.commands = kc].changedCommands = m.changedCommands
        BY <1>1 DEF PlanChanges
      <4>3. QED
        BY <4>1, <4>2
    <3>3. QED
      BY <3>1, <3>2
<1> HIDE DEF k
<1>8. /\ Merged(n, h, k)
      /\ h.listens /\ ~h.invalidCommands /\ k.changedCommands # WholePlan
           => \A i \in DOMAIN k.commands :
                ~About(k, i) /\ i \in DOMAIN h.commands
                  => n.commands[i] = h.commands[i]
  BY <1>2, <1>6, MergeMakes, Zenon
<1>9. CASE h.invalidCommands
  <2>1. k = m
    BY <1>2, <1>3, <1>5, <1>9 DEF Sound
  <2>2. n.commands = k.commands
    <3>1. n = [k EXCEPT !.changedCommands = WholePlan]
      BY <1>2, <1>9 DEF Merge
    <3>2. QED
      BY <1>6, <3>1 DEF PlanChanges
  <2>3. QED
    BY <1>4, <2>1, <2>2 DEF m
<1>10. CASE ~h.invalidCommands /\ m.changedCommands = WholePlan
  <2>1. k = m
    BY <1>3, <1>5, <1>10 DEF Merge, k
  <2>2. n = k
    BY <1>2, <1>10, <2>1 DEF Merge
  <2>3. QED
    BY <1>4, <2>1, <2>2 DEF m
<1>11. CASE ~h.invalidCommands /\ m.changedCommands # WholePlan
  <2>1. \A i \in DOMAIN m.commands :
          ~About(m, i) => i \in DOMAIN h.commands
                          /\ h.commands[i] = m.commands[i]
    BY <1>3, <1>11 DEF Follows
  <2>2. k.changedCommands = m.changedCommands
    BY <1>5, <1>7, <1>2, ComponentFacts
  <2>3. DOMAIN k.commands = DOMAIN m.commands
        /\ \A i \in DOMAIN m.commands : About(m, i) => k.commands[i] = m.commands[i]
    BY <1>5, <1>11, <2>2 DEF Merged
  <2>4. \A i : About(k, i) <=> About(m, i)
    BY <2>2 DEF About
  <2>5. DOMAIN n.commands = DOMAIN k.commands
        /\ \A i \in DOMAIN k.commands : About(k, i) => n.commands[i] = k.commands[i]
    <3>1. \/ n.commands = k.commands
          \/ /\ DOMAIN n.commands = DOMAIN k.commands
             /\ \A i \in DOMAIN k.commands :
                  About(k, i) => n.commands[i] = k.commands[i]
      BY <1>8 DEF Merged
    <3>2. QED
      BY <3>1
  <2>6. \A i \in DOMAIN m.commands : n.commands[i] = m.commands[i]
    BY <1>2, <1>8, <1>11, <2>1, <2>2, <2>3, <2>4, <2>5
  <2>7. n.commands \in Plans /\ m.commands \in Plans
    BY <1>1, <1>8, MessageFacts DEF Merged
  <2>8. n.commands = m.commands
    <3> DEFINE a == n.commands
               b == m.commands
    <3>1. a \in Seq(Commands) /\ b \in Seq(Commands)
      BY <2>7, PlanFacts
    <3>2. DOMAIN a = DOMAIN b /\ \A i \in DOMAIN b : a[i] = b[i]
      BY <2>3, <2>5, <2>6
    <3> HIDE DEF a, b
    <3>3. Len(a) = Len(b) /\ \A i \in 1 .. Len(a) : a[i] = b[i]
      BY <3>1, <3>2
    <3>4. a = b
      BY <3>1, <3>3, SeqEqual
    <3>5. QED
      BY <3>4 DEF a, b
  <2>9. QED
    BY <1>4, <2>8 DEF m
<1>12. QED
  BY <1>9, <1>10, <1>11


\* The browser u reads its oldest message: nobody is there; the plan is shown;
\* it is refused; or what it does not know in it becomes plain commands.
UiTakes(u) ==
  LET m == Received(u)
  IN  /\ toUi[u] # <<>> /\ toUi'[u] = Tail(toUi[u])
      /\ \A v \in UIs \ {u} : toUi'[v] = toUi[v]
      /\ plan' = plan
      /\ \/ /\ ~home[u].now.mounted /\ home' = home /\ toServer' = toServer
            /\ overlapped' = overlapped
         \/ /\ home[u].now.mounted /\ toServer' = toServer
            /\ overlapped' = overlapped
            /\ \A v \in UIs \ {u} : home'[v] = home[v]
            /\ home'[u].old = home[u].old
            /\ Queue(home'[u].now) = Queue(home[u].now)
            /\ home'[u].now.mounted
            /\ \/ /\ home'[u].now.commands = m.commands
                  /\ ~home'[u].now.invalidCommands
               \/ home'[u].now.invalidCommands /\ u \notin Agreeing
         \/ /\ home[u].now.mounted /\ u \notin Agreeing
            /\ m.restoreCommands
            /\ overlapped' = (overlapped \/ ~OthersSent(u)
                                \/ Len(toUi[u]) > 1)
            /\ \E commands, range :
                 /\ Edited(m.commands, commands, range)
                 /\ TakesChange(u, commands, range)

LEMMA RestoredFacts ==
  ASSUME PlanSyncAssumption, NEW u \in UIs, NEW p \in Plans,
         Unknown(u, p) # {}
  PROVE  /\ u \notin Agreeing
         /\ Edited(p, [i \in DOMAIN p |->
                         [p[i] EXCEPT !.interop = @ /\ i \notin Unknown(u, p)]],
                   Between(Min(Unknown(u, p)), Max(Unknown(u, p))))
<1> DEFINE U == Unknown(u, p)
           new == [i \in DOMAIN p |-> [p[i] EXCEPT !.interop = @ /\ i \notin U]]
           a == Min(U)
           b == Max(U)
<1>1. u \notin Agreeing /\ U \subseteq DOMAIN p
  BY DEF Unknown
<1>2. /\ Len(p) \in Nat /\ DOMAIN p = 1 .. Len(p) /\ Len(p) <= MaxLength
      /\ \A i \in DOMAIN p : p[i] \in Commands
  BY PlanFacts
<1> HIDE DEF U
<1>3. U # {}
  BY DEF U
<1>4. a \in U /\ \A x \in U : a <= x
  <2>1. U \subseteq Nat
    BY <1>1, <1>2
  <2>2. QED
    BY <1>3, <2>1, LeastOf
<1>5. b \in U /\ \A x \in U : b >= x
  <2>1. U \subseteq 1 .. Len(p)
    BY <1>1, <1>2
  <2>2. QED
    BY <1>2, <1>3, <2>1, GreatestOf
<1> HIDE DEF a, b
<1>6. a \in Nat \ {0} /\ b \in Nat \ {0} /\ a <= b
  BY <1>1, <1>2, <1>4, <1>5
<1>7. ASSUME NEW i \in DOMAIN p
      PROVE  /\ new[i] \in Commands
             /\ i < a \/ i > b => new[i] = p[i]
  <2>1. new[i] = [p[i] EXCEPT !.interop = p[i].interop /\ i \notin U]
    OBVIOUS
  <2>2. p[i] \in Commands
    BY <1>2
  <2> DEFINE c == p[i]
             yes == c.interop /\ i \notin U
  <2>3. yes \in BOOLEAN
    BY <2>2 DEF Commands
  <2> HIDE DEF c, yes
  <2>4. new[i] = [c EXCEPT !.interop = yes] /\ c \in Commands
    BY <2>1, <2>2 DEF c, yes
  <2>5. new[i] \in Commands
    BY <2>3, <2>4 DEF Commands
  <2>6. ASSUME i < a \/ i > b PROVE new[i] = p[i]
    <3>1. i \notin U
      BY <1>2, <1>4, <1>5, <1>6, <2>6
    <3>2. yes = c.interop
      <4>1. c.interop \in BOOLEAN
        BY <2>4 DEF Commands
      <4>2. QED
        BY <3>1, <4>1 DEF yes
    <3>3. [c EXCEPT !.interop = c.interop] = c
      BY <2>4 DEF Commands
    <3>4. QED
      BY <2>4, <3>2, <3>3 DEF c
  <2>7. QED
    BY <2>5, <2>6
<1>8. new \in Plans /\ DOMAIN new = DOMAIN p
  <2>1. new \in [1 .. Len(p) -> Commands]
    BY <1>2, <1>7
  <2>2. DOMAIN new = DOMAIN p
    OBVIOUS
  <2> HIDE DEF new
  <2>3. QED
    BY <1>2, <2>1, <2>2, PlansFromFunctions
<1> HIDE DEF new
<1>9. Edited(p, new, Between(a, b))
  <2>1. \A i \in DOMAIN new :
          i < a \/ i > b => i \in DOMAIN p /\ p[i] = new[i]
    BY <1>7, <1>8
  <2>2. QED
    BY <1>6, <1>8, <2>1, EditedInRange
<1>10. QED
  BY <1>1, <1>9 DEF new, a, b, U

LEMMA RefusedFacts ==
  ASSUME NEW u \in UIs, NEW h \in Components, h.listens, u \notin Agreeing
  PROVE  LET t == [h EXCEPT !.commands = <<Err>>, !.invalidCommands = TRUE]
         IN  /\ t \in Components /\ Sound(u, t) /\ t.listens
             /\ t.invalidCommands /\ t.mounted = h.mounted
             /\ Queue(t) = Queue(h)
  BY DEF Components, Sound, Queue

LEMMA AtTheBrowser ==
  ASSUME PlanSyncAssumption, PlanInv, NEW u \in UIs, UiReceives(u)
  PROVE  PlanInv' /\ UiTakes(u)
<1> DEFINE h == home[u].now
           m == Received(u)
           unknown == Unknown(u, m.commands)
           taken == [h EXCEPT !.commands = m.commands,
                              !.invalidCommands = FALSE]
           refused == [h EXCEPT !.commands = <<Err>>,
                                !.invalidCommands = TRUE]
           restored == [i \in DOMAIN m.commands |->
                          [m.commands[i] EXCEPT
                             !.interop = @ /\ i \notin unknown]]
           range == Between(Min(unknown), Max(unknown))
<1>1. toUi[u] # <<>> /\ toUi' = [toUi EXCEPT ![u] = Tail(@)]
  BY Zenon DEF UiReceives
<1>2. UNCHANGED <<plan, edits, remounts, editors>>
  BY Zenon DEF UiReceives
<1>3. \/ /\ ~h.mounted
         /\ UNCHANGED <<home, toServer, overlapped, reshaped>>
      \/ /\ h.mounted /\ unknown = {} /\ home' = [home EXCEPT ![u].now = taken]
         /\ UNCHANGED <<toServer, overlapped, reshaped>>
      \/ /\ h.mounted /\ unknown # {}
         /\ home' = [home EXCEPT ![u].now = refused]
         /\ UNCHANGED <<toServer, overlapped, reshaped>>
      \/ /\ h.mounted /\ unknown # {} /\ m.restoreCommands
         /\ SetHomeState(u, taken, restored, range)
         /\ overlapped' = (overlapped \/ ~OthersSent(u) \/ Len(toUi[u]) > 1)
         /\ reshaped' = TRUE
  BY Zenon DEF UiReceives, Received
<1>4. m \in PlanChanges /\ m.commands \in Plans
  BY <1>1, ReceivedFacts, MessageFacts
<1>5. /\ h \in Components /\ Sound(u, h) /\ h.listens /\ HomesOK /\ ChannelsOK
  BY HomeFacts DEF PlanInv
<1>6. /\ toUi' \in [UIs -> Seq(PlanChanges)] /\ toUi'[u] = Tail(toUi[u])
      /\ \A v \in UIs \ {u} : toUi'[v] = toUi[v]
  <2>1. toUi \in [UIs -> Seq(PlanChanges)]
    BY DEF PlanInv, ChannelsOK
  <2>2. toUi[u] \in Seq(PlanChanges)
    BY <2>1
  <2>3. Tail(toUi[u]) \in Seq(PlanChanges)
    BY <1>1, <2>2, WithoutHead
  <2> HIDE DEF PlanChanges
  <2>4. QED
    BY <1>1, <2>1, <2>3
<1>7. ASSUME HomesOK', toServer' \in [UIs -> Seq(Messages)],
             overlapped' \in BOOLEAN, reshaped' \in BOOLEAN
      PROVE  PlanInv'
  BY <1>2, <1>5, <1>6, <1>7 DEF PlanInv, CountersOK, ChannelsOK
<1>8. /\ toServer \in [UIs -> Seq(Messages)] /\ overlapped \in BOOLEAN
      /\ reshaped \in BOOLEAN
  BY DEF PlanInv, CountersOK, ChannelsOK
<1> HIDE DEF m, unknown
<1>9. CASE /\ ~h.mounted
           /\ UNCHANGED <<home, toServer, overlapped, reshaped>>
  <2>1. HomesOK'
    BY <1>5, <1>9 DEF HomesOK, Sound
  <2>2. UiTakes(u)
    BY <1>1, <1>2, <1>6, <1>9 DEF UiTakes
  <2>3. QED
    BY <1>7, <1>8, <1>9, <2>1, <2>2
<1>10. CASE /\ h.mounted /\ unknown = {}
            /\ home' = [home EXCEPT ![u].now = taken]
            /\ UNCHANGED <<toServer, overlapped, reshaped>>
  <2>1. /\ taken \in Components /\ Sound(u, taken) /\ taken.listens
        /\ taken.commands = m.commands /\ taken.invalidCommands = FALSE
        /\ taken.mounted = h.mounted /\ Queue(taken) = Queue(h)
    BY <1>4, <1>5, TakenFacts, Zenon
  <2> HIDE DEF taken
  <2>2. /\ HomesOK' /\ home'[u].now = taken /\ home'[u].old = home[u].old
        /\ \A v \in UIs \ {u} : home'[v] = home[v]
    BY <1>5, <1>10, <2>1, NowBecomes
  <2>3. UiTakes(u)
    BY <1>1, <1>2, <1>6, <1>10, <2>1, <2>2 DEF UiTakes, m
  <2>4. QED
    BY <1>7, <1>8, <1>10, <2>2, <2>3
<1>11. CASE /\ h.mounted /\ unknown # {}
            /\ home' = [home EXCEPT ![u].now = refused]
            /\ UNCHANGED <<toServer, overlapped, reshaped>>
  <2>1. u \notin Agreeing
    BY <1>11 DEF Unknown, unknown
  <2>2. /\ refused \in Components /\ Sound(u, refused) /\ refused.listens
        /\ refused.invalidCommands
        /\ refused.mounted = h.mounted /\ Queue(refused) = Queue(h)
    BY <1>5, <2>1, RefusedFacts, Zenon
  <2> HIDE DEF refused
  <2>3. /\ HomesOK' /\ home'[u].now = refused /\ home'[u].old = home[u].old
        /\ \A v \in UIs \ {u} : home'[v] = home[v]
    BY <1>5, <1>11, <2>2, NowBecomes
  <2>4. UiTakes(u)
    BY <1>1, <1>2, <1>6, <1>11, <2>1, <2>2, <2>3 DEF UiTakes
  <2>5. QED
    BY <1>7, <1>8, <1>11, <2>3, <2>4
<1>12. CASE /\ h.mounted /\ unknown # {} /\ m.restoreCommands
            /\ SetHomeState(u, taken, restored, range)
            /\ overlapped' = (overlapped \/ ~OthersSent(u)
                                \/ Len(toUi[u]) > 1)
            /\ reshaped' = TRUE
  <2>1. u \notin Agreeing /\ Edited(m.commands, restored, range)
    BY <1>4, <1>12, RestoredFacts, Zenon DEF unknown
  <2>2. /\ taken \in Components /\ taken.listens
        /\ taken.mounted = h.mounted /\ Queue(taken) = Queue(h)
    BY <1>4, <1>5, TakenFacts, Zenon
  <2> HIDE DEF taken, restored, range
  <2>3. restored \in Plans /\ range \in Ranges
    BY <2>1 DEF Edited
  <2>4. /\ HomesOK' /\ toServer' \in [UIs -> Seq(Messages)]
        /\ TakesChange(u, restored, range)
    BY <1>12, <2>2, <2>3, SetHome, Zenon
  <2>5. UiTakes(u)
    <3>1. \E commands, r :
            Edited(m.commands, commands, r) /\ TakesChange(u, commands, r)
      BY <2>1, <2>4
    <3>2. QED
      BY <1>1, <1>2, <1>6, <1>12, <2>1, <3>1, Zenon DEF UiTakes, m
  <2>6. overlapped' \in BOOLEAN /\ reshaped' \in BOOLEAN
    BY <1>8, <1>12
  <2>7. QED
    BY <1>7, <2>4, <2>5, <2>6
<1>13. QED
  <2> HIDE DEF h, taken, refused, restored, range
  <2>1. QED
    BY <1>3, <1>9, <1>10, <1>11, <1>12, Zenon


\* Every step of a browser or of the server is one of these.
LEMMA StepsOfThePlan ==
  ASSUME PlanNext
  PROVE  \E u \in UIs :
           \/ EditAction(u) \/ RestoreCommands(u) \/ Unmount(u) \/ Mount(u)
           \/ \E c \in {"now", "old"} : SendQueuedCommands(u, c)
           \/ ServerReceives(u) \/ UiReceives(u)
<1>1. PICK u \in UIs :
        \/ OperatorNext(u)
        \/ \E c \in {"now", "old"} : SendQueuedCommands(u, c)
        \/ ServerReceives(u) \/ UiReceives(u)
  BY DEF PlanNext
<1>2. OperatorNext(u)
        => EditAction(u) \/ RestoreCommands(u) \/ Unmount(u) \/ Mount(u)
  BY DEF OperatorNext, EditAction
<1>3. QED
  BY <1>1, <1>2

LEMMA PlanBegins == ASSUME PlanSyncAssumption, PlanInit PROVE PlanInv
<1> DEFINE h == [NewHome EXCEPT !.commands = InitialPlan]
           o == [NewHome EXCEPT !.mounted = FALSE, !.listens = FALSE]
<1>1. InitialPlan \in Plans
  <2>1. Command(0, FALSE) \in Commands
    BY DEF Command, Commands
  <2>2. InitialPlan \in Seq(Commands) /\ Len(InitialPlan) = 2
    <3> DEFINE c == Command(0, FALSE)
    <3>1. InitialPlan = <<c, c>>
      BY DEF InitialPlan
    <3> HIDE DEF Commands, c
    <3>2. c \in Commands
      BY <2>1 DEF c
    <3>3. <<c, c>> \in Seq(Commands) /\ Len(<<c, c>>) = 2
      BY <3>2
    <3>4. QED
      BY <3>1, <3>3
  <2>3. QED
    BY <2>2 DEF Plans, PlanSyncAssumption
<1>2. <<>> \in Plans /\ <<>> \in Seq(PlanChanges) /\ <<>> \in Seq(Messages)
  BY EmptyPlan
<1>3. h \in Components /\ (\A u \in UIs : Sound(u, h)) /\ h.listens
  BY <1>1, <1>2 DEF Components, Sound, NewHome
<1>4. o \in Components /\ \A u \in UIs : Sound(u, o)
  BY <1>1, <1>2 DEF Components, Sound, NewHome
<1>5. plan = InitialPlan /\ home = [u \in UIs |-> [now |-> h, old |-> o]]
  BY DEF PlanInit
<1> HIDE DEF h, o
<1>6. HomesOK
  <2> HIDE DEF Components
  <2>1. QED
    BY <1>3, <1>4, <1>5 DEF HomesOK
<1>7. ChannelsOK
  BY <1>1, <1>2, <1>5 DEF PlanInit, ChannelsOK
<1>8. CountersOK
  BY DEF PlanInit, CountersOK
<1>9. QED
  BY <1>6, <1>7, <1>8 DEF PlanInv

LEMMA PlanStepKeepsInv ==
  ASSUME PlanSyncAssumption, PlanInv, [PlanNext]_planVars
  PROVE  PlanInv'
<1>1. CASE PlanNext
  <2>1. PICK u \in UIs :
          \/ EditAction(u) \/ RestoreCommands(u) \/ Unmount(u) \/ Mount(u)
          \/ \E c \in {"now", "old"} : SendQueuedCommands(u, c)
          \/ ServerReceives(u) \/ UiReceives(u)
    BY <1>1, StepsOfThePlan
  <2>2. QED
    BY <2>1, EditsAreTaken, RestoreIsAsked, UnmountIsTaken, MountIsTaken,
       SendIsTaken, AtTheServer, AtTheBrowser
<1>2. CASE UNCHANGED planVars
  BY <1>2 DEF planVars, PlanInv, CountersOK, ChannelsOK, HomesOK, Sound
<1>3. QED
  BY <1>1, <1>2

LEMMA NoErrorInPlans ==
  ASSUME NEW p \in Plans
  PROVE  Err \notin ToSet(p)
<1>1. \A i \in DOMAIN p : p[i] \in Commands
  BY PlanFacts
<1>2. QED
  BY <1>1, ErrIsNoCommand DEF ToSet

LEMMA PlansHaveTypes == ASSUME PlanInv PROVE PlanTypeOK
<1>1. ASSUME NEW u \in UIs
      PROVE  /\ Err \in ToSet(home[u].now.commands)
                  <=> home[u].now.invalidCommands
             /\ home[u].now.invalidCommands
                  => home[u].now.commands = <<Err>> /\ u \notin Agreeing
  <2>1. Sound(u, home[u].now) /\ home[u].now \in Components
    BY HomeFacts DEF PlanInv
  <2>2. CASE home[u].now.invalidCommands
    <3>1. home[u].now.commands = <<Err>> /\ u \notin Agreeing
      BY <2>1, <2>2 DEF Sound
    <3>2. Err \in ToSet(<<Err>>)
      BY DEF ToSet
    <3>3. QED
      BY <2>2, <3>1, <3>2
  <2>3. CASE ~home[u].now.invalidCommands
    <3>1. home[u].now.commands \in Plans
      BY <2>1, <2>3 DEF Sound
    <3>2. QED
      BY <2>3, <3>1, NoErrorInPlans
  <2>4. QED
    BY <2>2, <2>3
<1>2. Len(plan) <= MaxLength
  BY DEF PlanInv, ChannelsOK, Plans
<1>3. {edits, remounts} \subseteq Nat /\ {overlapped, reshaped} \subseteq BOOLEAN
  BY DEF PlanInv, CountersOK
<1>4. QED
  BY <1>1, <1>2, <1>3 DEF PlanTypeOK

LEMMA ErrorsAreNotSent == ASSUME PlanInv PROVE ErrorStaysHere
<1> DEFINE channels ==
             {toServer[u] : u \in UIs} \cup {toUi[u] : u \in UIs} \cup
             {home[u].now.commandChangeSendQueue : u \in UIs}
           changes == {m \in UNION {ToSet(q) : q \in channels} :
                         m.type = "commands_changed"}
<1>1. ASSUME NEW q \in channels PROVE q \in Seq(Messages)
  <2>1. ASSUME NEW u \in UIs
        PROVE  /\ toServer[u] \in Seq(Messages)
               /\ toUi[u] \in Seq(PlanChanges)
               /\ home[u].now.commandChangeSendQueue \in Seq(PlanChanges)
    <3>1. home[u].now \in Components
      BY HomeFacts DEF PlanInv
    <3>2. QED
      BY <3>1, ComponentFacts DEF PlanInv, ChannelsOK, Queue
  <2>2. PlanChanges \subseteq Messages
    BY MessageFacts
  <2>3. \A s \in Seq(PlanChanges) : s \in Seq(Messages)
    <3> HIDE DEF PlanChanges, Messages
    <3>1. QED
      BY <2>2
  <2>4. QED
    BY <2>1, <2>3
<1>2. ASSUME NEW m \in changes PROVE m.commands \in Plans
  <2>1. PICK q \in channels : m \in ToSet(q)
    OBVIOUS
  <2>2. q \in Seq(Messages)
    BY <1>1
  <2> HIDE DEF channels
  <2>3. m \in Messages
    BY <2>1, <2>2 DEF ToSet
  <2>4. QED
    BY <2>3, MessageFacts DEF IsChange
<1> HIDE DEF changes
<1>3. plan \in Plans
  BY DEF PlanInv, ChannelsOK
<1>4. \A commands \in {plan} \cup {m.commands : m \in changes} :
        Err \notin ToSet(commands)
  BY <1>2, <1>3, NoErrorInPlans
<1>5. QED
  BY <1>4 DEF ErrorStaysHere, changes, channels

-----------------------------------------------------------------------------
(* Changes that did not cross.                                             *)

\* What a browser has not yet got through to the server, the oldest first.
Queued(u) == IF Queue(home[u].old) = <<>> THEN Queue(home[u].now)
             ELSE Queue(home[u].old)
Outgoing(u) == toServer[u] \o Queued(u)

HasChange(q)  == \E k \in DOMAIN q : IsChange(q[k])
HasRequest(q) == \E k \in DOMAIN q : ~IsChange(q[k])
NoneIsWhole(p) == \A k \in DOMAIN p : p[k].changedCommands # WholePlan

\* Requests come last, and every change follows the one before it.
Chained(q, commands) ==
  \A k \in DOMAIN q :
    IsChange(q[k]) =>
      /\ \A j \in 1 .. k : IsChange(q[j])
      /\ ~q[k].restoreCommands
      /\ Follows(IF k = 1 THEN commands ELSE q[k - 1].commands, q[k])

EndOf(q, commands) == IF q = <<>> THEN commands ELSE q[Len(q)].commands

\* What comes from the server ends with its plan.
Arriving(p, commands) ==
  /\ \A k \in DOMAIN p :
       /\ k > 1 => Follows(p[k - 1].commands, p[k])
       /\ p[k].restoreCommands => p[k].changedCommands = WholePlan
  /\ p # <<>> => p[Len(p)].commands = commands

LEMMA NothingFollowsNone ==
  ASSUME NEW q, ~HasChange(q), NEW commands
  PROVE  Chained(q, commands)
  BY DEF HasChange, Chained

LEMMA RequestsHaveNone ==
  ASSUME NEW q \in Seq(Messages), ~HasChange(q), ~HasRequest(q)
  PROVE  q = <<>>
<1>1. \A k \in DOMAIN q : FALSE
  BY DEF HasChange, HasRequest
<1>2. q # <<>> => 1 \in DOMAIN q
  BY WithoutHead DEF IsTailOf
<1>3. QED
  BY <1>1, <1>2

LEMMA ChainedTail ==
  ASSUME NEW q \in Seq(Messages), q # <<>>, NEW commands,
         Chained(q, commands), IsChange(Head(q))
  PROVE  /\ Chained(Tail(q), Head(q).commands)
         /\ Follows(commands, Head(q)) /\ ~Head(q).restoreCommands
         /\ EndOf(Tail(q), Head(q).commands) = EndOf(q, commands)
         /\ HasChange(q)
         /\ HasChange(Tail(q)) => HasChange(q)
         /\ HasRequest(q) <=> HasRequest(Tail(q))
<1> DEFINE t == Tail(q)
<1>1. /\ Head(q) = q[1] /\ Len(q) >= 1 /\ t \in Seq(Messages)
      /\ IsTailOf(t, q)
  BY WithoutHead
<1> HIDE DEF t
<1>2. 1 \in DOMAIN q /\ IsChange(q[1])
  BY <1>1 DEF IsTailOf
<1>3. Follows(commands, q[1]) /\ ~q[1].restoreCommands /\ HasChange(q)
  BY <1>2 DEF Chained, HasChange
<1>4. ASSUME NEW k \in DOMAIN t
      PROVE  /\ k \in 1 .. Len(q) - 1 /\ k + 1 \in DOMAIN q
             /\ t[k] = q[k + 1] /\ k \in Nat
  BY <1>1 DEF IsTailOf
<1>5. Chained(t, q[1].commands)
  <2>1. SUFFICES ASSUME NEW k \in DOMAIN t, IsChange(t[k])
                 PROVE  /\ \A j \in 1 .. k : IsChange(t[j])
                        /\ ~t[k].restoreCommands
                        /\ Follows(IF k = 1 THEN q[1].commands
                                   ELSE t[k - 1].commands, t[k])
    BY DEF Chained
  <2>2. /\ \A j \in 1 .. k + 1 : IsChange(q[j])
        /\ ~q[k + 1].restoreCommands
        /\ Follows(IF k + 1 = 1 THEN commands ELSE q[(k + 1) - 1].commands,
                   q[k + 1])
    BY <1>4, <2>1 DEF Chained
  <2>3. \A j \in 1 .. k : j + 1 \in 1 .. k + 1 /\ t[j] = q[j + 1]
    BY <1>1, <1>4 DEF IsTailOf
  <2>4. \A j \in 1 .. k : IsChange(t[j])
    BY <2>2, <2>3
  <2>5. k + 1 # 1 /\ (k + 1) - 1 = k
    BY <1>4
  <2>6. Follows(q[k].commands, t[k])
    BY <1>4, <2>2, <2>5
  <2>7. k # 1 => k - 1 \in 1 .. k /\ (k - 1) + 1 = k
    BY <1>4
  <2>8. q[k].commands = IF k = 1 THEN q[1].commands ELSE t[k - 1].commands
    BY <2>3, <2>7
  <2>9. QED
    BY <1>4, <2>2, <2>4, <2>6, <2>8
<1>6. EndOf(t, q[1].commands) = EndOf(q, commands)
  <2>1. CASE t = <<>>
    <3>1. Len(q) = 1
      BY <1>1, <2>1 DEF IsTailOf
    <3>2. QED
      BY <2>1, <3>1 DEF EndOf
  <2>2. CASE t # <<>>
    <3>1. Len(t) \in DOMAIN t /\ Len(t) + 1 = Len(q)
      BY <1>1, <2>2 DEF IsTailOf
    <3>2. QED
      BY <1>4, <2>2, <3>1 DEF EndOf
  <2>3. QED
    BY <2>1, <2>2
<1>7. HasRequest(q) <=> HasRequest(t)
  <2>1. \A k \in DOMAIN q : k = 1 \/ (k - 1 \in DOMAIN t /\ (k - 1) + 1 = k)
    BY <1>1 DEF IsTailOf
  <2>2. QED
    BY <1>2, <1>4, <2>1 DEF HasRequest
<1>8. QED
  BY <1>1, <1>3, <1>5, <1>6, <1>7 DEF t

LEMMA RequestFirst ==
  ASSUME NEW q \in Seq(Messages), q # <<>>, NEW commands,
         Chained(q, commands), ~IsChange(Head(q))
  PROVE  /\ HasRequest(q) /\ ~HasChange(q) /\ ~HasChange(Tail(q))
<1> DEFINE t == Tail(q)
<1>1. /\ Head(q) = q[1] /\ Len(q) >= 1 /\ IsTailOf(t, q)
  BY WithoutHead
<1> HIDE DEF t
<1>2. 1 \in DOMAIN q
  BY <1>1 DEF IsTailOf
<1>3. ASSUME NEW k \in DOMAIN q, IsChange(q[k]) PROVE FALSE
  <2>1. 1 \in 1 .. k
    BY <1>1 DEF IsTailOf
  <2>2. QED
    BY <1>1, <1>3, <2>1 DEF Chained
<1>4. ASSUME NEW k \in DOMAIN t PROVE k + 1 \in DOMAIN q /\ t[k] = q[k + 1]
  BY <1>1 DEF IsTailOf
<1>5. QED
  BY <1>1, <1>2, <1>3, <1>4 DEF HasRequest, HasChange, t

LEMMA RequestIsAdded ==
  ASSUME NEW q \in Seq(Messages), NEW commands, Chained(q, commands),
         NEW r \in Messages, ~IsChange(r)
  PROVE  /\ Chained(Append(q, r), commands) /\ HasRequest(Append(q, r))
         /\ HasChange(Append(q, r)) <=> HasChange(q)
<1> DEFINE t == Append(q, r)
<1>1. IsAppended(t, q, r)
  BY Appended
<1> HIDE DEF t
<1>2. Len(q) + 1 \in DOMAIN t /\ t[Len(q) + 1] = r
  BY <1>1 DEF IsAppended
<1>3. \A k \in DOMAIN t : IsChange(t[k])
        => /\ k \in DOMAIN q /\ k \in Nat
           /\ \A j \in 1 .. k : t[j] = q[j]
           /\ k > 1 => k - 1 \in 1 .. k
  BY <1>1 DEF IsAppended
<1>4. Chained(t, commands)
  <2>1. SUFFICES ASSUME NEW k \in DOMAIN t, IsChange(t[k])
                 PROVE  /\ \A j \in 1 .. k : IsChange(t[j])
                        /\ ~t[k].restoreCommands
                        /\ Follows(IF k = 1 THEN commands
                                   ELSE t[k - 1].commands, t[k])
    BY DEF Chained
  <2>2. k \in DOMAIN q /\ t[k] = q[k] /\ (k # 1 => t[k - 1] = q[k - 1])
    BY <1>1, <1>3, <2>1 DEF IsAppended
  <2>3. QED
    BY <1>3, <2>1, <2>2 DEF Chained
<1>5. HasChange(t) <=> HasChange(q)
  BY <1>1, <1>3 DEF HasChange, IsAppended
<1>6. QED
  BY <1>2, <1>4, <1>5 DEF HasRequest, t


\* A change is put at the end of a queue of changes, or into the last one.
LEMMA ChangeIsAdded ==
  ASSUME NEW q \in Seq(Messages), ~HasRequest(q), NEW commands,
         Chained(q, commands),
         NEW c \in PlanChanges, ~c.restoreCommands,
         Follows(EndOf(q, commands), c), NEW r, Extends(r, q, c)
  PROVE  /\ r \in Seq(Messages) /\ Chained(r, commands)
         /\ EndOf(r, commands) = c.commands /\ ~HasRequest(r) /\ r # <<>>
<1>1. c \in Messages /\ IsChange(c)
  BY MessageFacts
<1>2. \A k \in DOMAIN q : IsChange(q[k])
  BY DEF HasRequest
<1>3. CASE r = Append(q, c)
  <2>1. r \in Seq(Messages) /\ r # <<>> /\ IsAppended(r, q, c)
    BY <1>1, <1>3, Appended
  <2>2. \A k \in DOMAIN r : IsChange(r[k])
    BY <1>1, <1>2, <2>1 DEF IsAppended
  <2>3. SUFFICES ASSUME NEW k \in DOMAIN r
                 PROVE  /\ \A j \in 1 .. k : j \in DOMAIN r
                        /\ ~r[k].restoreCommands
                        /\ Follows(IF k = 1 THEN commands
                                   ELSE r[k - 1].commands, r[k])
    <3>1. Chained(r, commands)
      BY <2>2, <2>3 DEF Chained
    <3>2. r[Len(r)] = c
      BY <2>1 DEF IsAppended
    <3>3. QED
      BY <2>1, <2>2, <3>1, <3>2 DEF EndOf, HasRequest
  <2>4. k \in 1 .. Len(q) + 1 /\ Len(q) \in Nat
    BY <2>1 DEF IsAppended
  <2>5. \A j \in 1 .. k : j \in DOMAIN r
    BY <2>1, <2>4 DEF IsAppended
  <2>6. CASE k \in DOMAIN q
    <3>1. r[k] = q[k] /\ (k # 1 => r[k - 1] = q[k - 1])
      BY <2>1, <2>4, <2>6 DEF IsAppended
    <3>2. QED
      BY <1>2, <2>5, <2>6, <3>1 DEF Chained
  <2>7. CASE k \notin DOMAIN q
    <3>1. k = Len(q) + 1 /\ r[k] = c
      BY <2>1, <2>4, <2>7 DEF IsAppended
    <3>2. EndOf(q, commands) = IF k = 1 THEN commands ELSE r[k - 1].commands
      <4>1. CASE q = <<>>
        BY <2>1, <3>1, <4>1 DEF EndOf
      <4>2. CASE q # <<>>
        <5>1. Len(q) >= 1
          BY <4>2, WithoutHead
        <5>2. k # 1 /\ k - 1 = Len(q) /\ r[k - 1] = q[Len(q)]
          BY <2>1, <2>4, <3>1, <5>1 DEF IsAppended
        <5>3. QED
          BY <4>2, <5>2 DEF EndOf
      <4>3. QED
        BY <4>1, <4>2
    <3>3. QED
      BY <2>5, <3>1, <3>2
  <2>8. QED
    BY <2>6, <2>7
<1>4. CASE \E m : q # <<>> /\ Joins(m, Last(q), c) /\ r = Append(Front(q), m)
  <2>1. PICK m : q # <<>> /\ Joins(m, Last(q), c) /\ r = Append(Front(q), m)
    BY <1>4
  <2> DEFINE f == Front(q)
             n == Len(q)
  <2>2. /\ f \in Seq(Messages) /\ Last(q) = q[n]
        /\ n \in Nat /\ n >= 1 /\ Len(f) = n - 1
        /\ DOMAIN f = 1 .. n - 1 /\ DOMAIN q = 1 .. n
        /\ \A i \in 1 .. n - 1 : f[i] = q[i]
    BY <2>1, FrontFacts
  <2>3. m \in PlanChanges /\ m \in Messages /\ IsChange(m)
        /\ m.commands = c.commands /\ ~m.restoreCommands
    BY <2>1, MessageFacts DEF Joins
  <2> HIDE DEF f
  <2>4. r \in Seq(Messages) /\ r # <<>> /\ IsAppended(r, f, m)
    <3>1. r = Append(f, m)
      BY <2>1 DEF f
    <3>2. QED
      BY <2>2, <2>3, <3>1, Appended
  <2> HIDE DEF n
  <2>5. DOMAIN r = 1 .. n /\ Len(r) = n /\ r[n] = m
        /\ \A i \in 1 .. n - 1 : r[i] = q[i]
    BY <2>2, <2>4 DEF IsAppended
  <2>6. \A k \in DOMAIN r : IsChange(r[k])
    BY <1>2, <2>2, <2>3, <2>5
  <2> DEFINE b == IF n = 1 THEN commands ELSE q[n - 1].commands
  <2>7. Follows(b, q[n])
    <3>1. n \in DOMAIN q
      BY <2>2
    <3>2. QED
      BY <1>2, <3>1 DEF Chained
  <2>8. Follows(q[n].commands, c)
    BY <2>1, <2>2 DEF EndOf, n
  <2>9. Follows(b, m)
    <3> HIDE DEF b
    <3>1. /\ c.changedCommands # WholePlan
          /\ q[n].changedCommands # WholePlan
          /\ \A i \in Nat : About(m, i) <=> About(q[n], i) \/ About(c, i)
      BY <2>1, <2>2 DEF Joins
    <3>2. \A i \in DOMAIN m.commands : i \in Nat
      BY <2>3, MessageFacts, PlanFacts
    <3>3. \A i \in DOMAIN m.commands : ~About(m, i)
            => i \in DOMAIN q[n].commands /\ q[n].commands[i] = m.commands[i]
      BY <2>3, <2>8, <3>1, <3>2 DEF Follows
    <3>4. \A i \in DOMAIN m.commands : ~About(m, i)
            => i \in DOMAIN b /\ b[i] = m.commands[i]
      BY <2>7, <3>1, <3>2, <3>3 DEF Follows
    <3>5. QED
      BY <3>4 DEF Follows
  <2>10. Chained(r, commands)
    <3>1. SUFFICES ASSUME NEW k \in DOMAIN r
                   PROVE  /\ \A j \in 1 .. k : j \in DOMAIN r
                          /\ ~r[k].restoreCommands
                          /\ Follows(IF k = 1 THEN commands
                                     ELSE r[k - 1].commands, r[k])
      BY <2>6 DEF Chained
    <3>2. k \in 1 .. n /\ \A j \in 1 .. k : j \in DOMAIN r
      BY <2>2, <2>5
    <3>3. CASE k = n
      <4>1. r[k] = m /\ (k # 1 => r[k - 1] = q[k - 1])
        BY <2>2, <2>5, <3>2, <3>3
      <4>2. QED
        BY <2>3, <2>9, <3>2, <3>3, <4>1
    <3>4. CASE k # n
      <4>1. k \in DOMAIN q /\ r[k] = q[k] /\ (k # 1 => r[k - 1] = q[k - 1])
        BY <2>2, <2>5, <3>2, <3>4
      <4>2. QED
        BY <1>2, <3>2, <4>1 DEF Chained
    <3>5. QED
      BY <3>3, <3>4
  <2>11. EndOf(r, commands) = c.commands
    BY <2>3, <2>4, <2>5 DEF EndOf
  <2>12. QED
    BY <2>4, <2>6, <2>10, <2>11 DEF HasRequest
<1>5. QED
  BY <1>3, <1>4 DEF Extends

\* What is put into the second of two queues is put into both together.
LEMMA JoinedExtends ==
  ASSUME NEW S, NEW a \in Seq(S), NEW b \in Seq(S), NEW c \in S, NEW r,
         Extends(r, b, c), PlanChanges \subseteq S
  PROVE  Extends(a \o r, a \o b, c)
<1>1. CASE r = Append(b, c)
  BY <1>1, JoinedWithAppended DEF Extends
<1>2. CASE \E m : b # <<>> /\ Joins(m, Last(b), c) /\ r = Append(Front(b), m)
  <2>1. PICK m : b # <<>> /\ Joins(m, Last(b), c) /\ r = Append(Front(b), m)
    BY <1>2
  <2> DEFINE f == Front(b)
             s == a \o b
             t == a \o f
             g == Front(s)
  <2>2. m \in S
    BY <2>1 DEF Joins
  <2>3. /\ f \in Seq(S) /\ Last(b) = b[Len(b)]
        /\ Len(b) \in Nat /\ Len(b) >= 1 /\ Len(f) = Len(b) - 1
        /\ \A i \in 1 .. Len(b) - 1 : f[i] = b[i]
    BY <2>1, FrontFacts
  <2> HIDE DEF f
  <2>4. s \in Seq(S) /\ IsJoined(s, a, b) /\ t \in Seq(S) /\ IsJoined(t, a, f)
    BY <2>3, Joined, Zenon
  <2>5. a \o r = Append(t, m)
    BY <2>1, <2>2, <2>3, JoinedWithAppended DEF f
  <2> HIDE DEF s, t
  <2>6. Len(s) >= 1 /\ s # <<>>
    <3>1. Len(s) >= 1
      BY <2>3, <2>4 DEF IsJoined
    <3>2. QED
      BY <2>4, <3>1, EmptySeq
  <2>7. /\ g \in Seq(S) /\ Last(s) = s[Len(s)] /\ Len(g) = Len(s) - 1
        /\ DOMAIN g = 1 .. Len(s) - 1
        /\ \A i \in 1 .. Len(s) - 1 : g[i] = s[i]
    BY <2>4, <2>6, FrontFacts
  <2> HIDE DEF g
  <2>8. Last(s) = Last(b)
    <3>1. Len(b) \in 1 .. Len(b) /\ Len(s) = Len(a) + Len(b)
      BY <2>3, <2>4 DEF IsJoined
    <3>2. QED
      BY <2>3, <2>4, <2>7, <3>1 DEF IsJoined
  <2>9. Len(t) = Len(g)
    BY <2>3, <2>4, <2>7 DEF IsJoined
  <2>10. ASSUME NEW i \in 1 .. Len(t) PROVE t[i] = g[i]
    <3>1. i \in 1 .. Len(s) - 1 /\ Len(a) \in Nat
      BY <2>3, <2>4 DEF IsJoined
    <3>2. CASE i <= Len(a)
      BY <2>4, <2>7, <3>1, <3>2 DEF IsJoined
    <3>3. CASE i > Len(a)
      <4> DEFINE k == i - Len(a)
      <4>1. k \in 1 .. Len(b) - 1 /\ Len(a) + k = i
        BY <2>3, <2>4, <3>1, <3>3 DEF IsJoined
      <4> HIDE DEF k
      <4>2. t[i] = f[k] /\ s[i] = b[k]
        BY <2>3, <2>4, <4>1 DEF IsJoined
      <4>3. QED
        BY <2>3, <2>7, <3>1, <4>1, <4>2
    <3>4. QED
      BY <3>1, <3>2, <3>3
  <2>11. t = g
    BY <2>4, <2>7, <2>9, <2>10, SeqEqual
  <2>12. QED
    BY <2>1, <2>5, <2>6, <2>8, <2>11 DEF Extends, s, g
<1>3. QED
  BY <1>1, <1>2 DEF Extends


LEMMA ArrivingMore ==
  ASSUME NEW p \in Seq(PlanChanges), NEW commands, Arriving(p, commands),
         NEW m \in PlanChanges, Follows(commands, m),
         m.restoreCommands => m.changedCommands = WholePlan
  PROVE  /\ Arriving(Append(p, m), m.commands)
         /\ NoneIsWhole(Append(p, m))
              => NoneIsWhole(p) /\ m.changedCommands # WholePlan
         /\ Head(Append(p, m)) = IF p = <<>> THEN m ELSE Head(p)
<1> DEFINE t == Append(p, m)
<1>1. t \in Seq(PlanChanges) /\ t # <<>> /\ IsAppended(t, p, m)
  BY Appended
<1> HIDE DEF t
<1>2. /\ Len(p) \in Nat /\ DOMAIN p = 1 .. Len(p)
      /\ DOMAIN t = 1 .. Len(p) + 1 /\ Len(t) = Len(p) + 1
      /\ \A i \in 1 .. Len(p) : t[i] = p[i]
      /\ t[Len(p) + 1] = m
  BY <1>1 DEF IsAppended
<1>3. Head(t) = t[1]
  BY <1>1, WithoutHead
<1>4. p # <<>> => Head(p) = p[1] /\ Len(p) >= 1
  BY WithoutHead
<1>5. Head(t) = IF p = <<>> THEN m ELSE Head(p)
  <2>1. CASE p = <<>>
    <3>1. Len(p) = 0
      BY <2>1
    <3>2. QED
      BY <1>2, <1>3, <2>1, <3>1
  <2>2. CASE p # <<>>
    BY <1>2, <1>3, <1>4, <2>2
  <2>3. QED
    BY <2>1, <2>2
<1>6. NoneIsWhole(t) => NoneIsWhole(p) /\ m.changedCommands # WholePlan
  BY <1>2 DEF NoneIsWhole
<1>7. Arriving(t, m.commands)
  <2>1. SUFFICES ASSUME NEW k \in DOMAIN t
                 PROVE  /\ k > 1 => Follows(t[k - 1].commands, t[k])
                        /\ t[k].restoreCommands
                             => t[k].changedCommands = WholePlan
    BY <1>2 DEF Arriving
  <2>2. CASE k \in DOMAIN p
    <3>1. t[k] = p[k] /\ (k > 1 => t[k - 1] = p[k - 1])
      BY <1>2, <2>2
    <3>2. QED
      BY <2>2, <3>1 DEF Arriving
  <2>3. CASE k \notin DOMAIN p
    <3>1. k = Len(p) + 1 /\ t[k] = m
      BY <1>2, <2>3
    <3>2. ASSUME k > 1 PROVE Follows(t[k - 1].commands, t[k])
      <4>1. k - 1 = Len(p) /\ Len(p) >= 1 /\ t[k - 1] = p[Len(p)]
        BY <1>2, <3>1, <3>2
      <4>2. p # <<>>
        BY <4>1
      <4>3. p[Len(p)].commands = commands
        BY <4>2 DEF Arriving
      <4>4. QED
        BY <3>1, <4>1, <4>3
    <3>3. QED
      BY <3>1, <3>2
  <2>4. QED
    BY <2>2, <2>3
<1>8. QED
  BY <1>5, <1>6, <1>7 DEF t

LEMMA ArrivingRest ==
  ASSUME NEW p \in Seq(PlanChanges), NEW commands, Arriving(p, commands),
         p # <<>>
  PROVE  /\ Arriving(Tail(p), commands)
         /\ Head(p).restoreCommands => Head(p).changedCommands = WholePlan
         /\ IF Tail(p) = <<>> THEN Head(p).commands = commands
            ELSE Follows(Head(p).commands, Head(Tail(p)))
         /\ NoneIsWhole(Tail(p)) /\ Head(p).changedCommands # WholePlan
              => NoneIsWhole(p)
         /\ Tail(p) = <<>> <=> ~(Len(p) > 1)
<1> DEFINE t == Tail(p)
<1>1. /\ t \in Seq(PlanChanges) /\ IsTailOf(t, p) /\ Head(p) = p[1]
      /\ Len(p) >= 1
  BY WithoutHead
<1> HIDE DEF t
<1>2. /\ Len(p) \in Nat /\ DOMAIN p = 1 .. Len(p)
      /\ DOMAIN t = 1 .. Len(p) - 1 /\ Len(t) = Len(p) - 1
      /\ \A i \in 1 .. Len(p) - 1 : t[i] = p[i + 1]
  BY <1>1 DEF IsTailOf
<1>3. t = <<>> <=> Len(p) = 1
  <2>1. t = <<>> <=> Len(t) = 0
    BY <1>1, EmptySeq
  <2>2. QED
    BY <1>2, <2>1
<1>4. t # <<>> => Head(t) = t[1]
  BY <1>1, WithoutHead
<1>5. p[Len(p)].commands = commands
  BY DEF Arriving
<1>6. \A k \in DOMAIN p :
        /\ k > 1 => Follows(p[k - 1].commands, p[k])
        /\ p[k].restoreCommands => p[k].changedCommands = WholePlan
  BY DEF Arriving
<1>7. Arriving(t, commands)
  <2>1. t # <<>> => t[Len(t)].commands = commands
    <3>1. t # <<>> => Len(t) \in 1 .. Len(p) - 1 /\ Len(t) + 1 = Len(p)
      BY <1>1, <1>2, <1>3
    <3>2. QED
      BY <1>2, <1>5, <3>1
  <2>2. ASSUME NEW k \in DOMAIN t
        PROVE  /\ k > 1 => Follows(t[k - 1].commands, t[k])
               /\ t[k].restoreCommands => t[k].changedCommands = WholePlan
    <3>1. /\ k + 1 \in DOMAIN p /\ t[k] = p[k + 1] /\ k + 1 > 1
          /\ (k + 1) - 1 = k
      BY <1>2
    <3>2. k > 1 => t[k - 1] = p[k]
      BY <1>2
    <3>3. Follows(p[k].commands, p[k + 1])
      BY <1>6, <3>1
    <3>4. QED
      BY <1>6, <3>1, <3>2, <3>3
  <2>3. QED
    BY <2>1, <2>2 DEF Arriving
<1>8. IF t = <<>> THEN p[1].commands = commands
      ELSE Follows(p[1].commands, t[1])
  <2>1. CASE t = <<>>
    BY <1>3, <1>5, <2>1
  <2>2. CASE t # <<>>
    <3>1. 2 \in DOMAIN p /\ t[1] = p[2]
      BY <1>1, <1>2, <1>3, <2>2
    <3>2. QED
      BY <1>6, <2>2, <3>1
  <2>3. QED
    BY <2>1, <2>2
<1>9. NoneIsWhole(t) /\ p[1].changedCommands # WholePlan => NoneIsWhole(p)
  <2>1. \A k \in DOMAIN p : k = 1 \/ (k - 1 \in DOMAIN t /\ t[k - 1] = p[k])
    BY <1>2
  <2>2. QED
    BY <2>1 DEF NoneIsWhole
<1>10. 1 \in DOMAIN p
  BY <1>1, <1>2
<1>11. p[1].restoreCommands => p[1].changedCommands = WholePlan
  BY <1>6, <1>10
<1>12. t = <<>> <=> ~(Len(p) > 1)
  BY <1>1, <1>2, <1>3
<1>13. QED
  <2>1. IF t = <<>> THEN Head(p).commands = commands
        ELSE Follows(Head(p).commands, Head(t))
    BY <1>1, <1>4, <1>8
  <2>2. QED
    BY <1>1, <1>7, <1>9, <1>11, <1>12, <2>1 DEF t

\* What a browser shows is what the server has, when what is on its way to and
\* from it has arrived; who has changes on the way has them alone.
Reflects(h, q, s, p, commands) ==
  h.mounted /\ ~h.invalidCommands /\ ~HasRequest(s) /\ NoneIsWhole(p)
    => IF p = <<>> THEN h.commands = EndOf(q, commands)
       ELSE Follows(h.commands, Head(p))

Sits(h, o) ==
  /\ ~h.mounted => Queue(h) = <<>>
  /\ Queue(o) # <<>> => ~h.mounted

ChangesAlone(u) ==
  HasChange(Outgoing(u)) =>
    /\ toUi[u] = <<>> /\ ~home[u].now.invalidCommands
    /\ \A v \in UIs \ {u} : ~HasChange(Outgoing(v))

Stays(u) ==
  u \notin Agreeing =>
    /\ Queue(home[u].old) = <<>> /\ home[u].now.mounted
    /\ HasRequest(toServer[u]) =>
         /\ toUi[u] = <<>> /\ ~(Len(toServer[u]) > 1)
         /\ \A v \in UIs : ~HasChange(Outgoing(v))

Sync(u) ==
  /\ Chained(Outgoing(u), plan) /\ Arriving(toUi[u], plan)
  /\ Reflects(home[u].now, Outgoing(u), toServer[u], toUi[u], plan)
  /\ Sits(home[u].now, home[u].old)
  /\ ChangesAlone(u) /\ Stays(u)

Orderly == ~overlapped /\ LeaversAgree

AgreeInv == Orderly => \A u \in UIs : Sync(u)


LEMMA OutgoingFacts ==
  ASSUME PlanInv, NEW u \in UIs
  PROVE  /\ toServer[u] \in Seq(Messages) /\ toUi[u] \in Seq(PlanChanges)
         /\ Queued(u) \in Seq(PlanChanges) /\ Queued(u) \in Seq(Messages)
         /\ Outgoing(u) \in Seq(Messages)
         /\ IsJoined(Outgoing(u), toServer[u], Queued(u))
         /\ HasRequest(Outgoing(u)) <=> HasRequest(toServer[u])
         /\ Queued(u) # <<>> => HasChange(Outgoing(u))
<1>1. toServer[u] \in Seq(Messages) /\ toUi[u] \in Seq(PlanChanges)
  BY DEF PlanInv, ChannelsOK
<1>2. Queued(u) \in Seq(PlanChanges)
  <2>1. home[u].now \in Components /\ home[u].old \in Components
    BY HomeFacts DEF PlanInv
  <2>2. /\ Queue(home[u].now) \in Seq(PlanChanges)
        /\ Queue(home[u].old) \in Seq(PlanChanges)
    BY <2>1, ComponentFacts
  <2>3. QED
    BY <2>2 DEF Queued
<1> DEFINE b == Queued(u)
<1>3. b \in Seq(Messages)
  <2> DEFINE A == PlanChanges
             B == Messages
  <2>1. A \subseteq B
    BY MessageFacts
  <2>2. b \in Seq(A)
    BY <1>2
  <2> HIDE DEF A, B, b
  <2>3. b \in Seq(B)
    BY <2>1, <2>2
  <2>4. QED
    BY <2>3 DEF B
<1>4. Outgoing(u) \in Seq(Messages)
      /\ IsJoined(Outgoing(u), toServer[u], b)
  BY <1>1, <1>3, Joined, Zenon DEF Outgoing
<1>5. \A i \in 1 .. Len(b) : IsChange(b[i])
  <2>1. \A i \in 1 .. Len(b) : b[i] \in PlanChanges
    <3> HIDE DEF PlanChanges
    <3>1. QED
      BY <1>2
  <2>2. QED
    BY <2>1, MessageFacts
<1> HIDE DEF b
<1>6. HasRequest(Outgoing(u)) <=> HasRequest(toServer[u])
  <2> DEFINE q == Outgoing(u)
             s == toServer[u]
  <2>1. DOMAIN s = 1 .. Len(s) /\ Len(s) \in Nat /\ Len(b) \in Nat
    BY <1>1, <1>3
  <2>2. /\ DOMAIN q = 1 .. Len(s) + Len(b)
        /\ \A i \in 1 .. Len(s) : q[i] = s[i]
        /\ \A i \in 1 .. Len(b) : q[Len(s) + i] = b[i]
    BY <1>4 DEF IsJoined
  <2> HIDE DEF q, s
  <2>3. \A k \in DOMAIN q :
          k \in DOMAIN s \/ (k - Len(s) \in 1 .. Len(b)
                             /\ q[k] = b[k - Len(s)])
    <3>1. SUFFICES ASSUME NEW k \in DOMAIN q, k \notin DOMAIN s
                   PROVE  k - Len(s) \in 1 .. Len(b) /\ q[k] = b[k - Len(s)]
      OBVIOUS
    <3>2. k - Len(s) \in 1 .. Len(b) /\ Len(s) + (k - Len(s)) = k
      BY <2>1, <2>2, <3>1
    <3>3. QED
      BY <2>2, <3>2
  <2>4. \A k \in DOMAIN s : k \in DOMAIN q /\ q[k] = s[k]
    BY <2>1, <2>2
  <2>5. HasRequest(q) <=> HasRequest(s)
    BY <1>5, <2>3, <2>4 DEF HasRequest
  <2>6. QED
    BY <2>5 DEF q, s
<1>7. b # <<>> => HasChange(Outgoing(u))
  <2>1. SUFFICES ASSUME b # <<>> PROVE HasChange(Outgoing(u))
    OBVIOUS
  <2>2. 1 \in 1 .. Len(b) /\ Len(toServer[u]) \in Nat
    BY <1>1, <1>3, <2>1, WithoutHead
  <2>3. Len(toServer[u]) + 1 \in DOMAIN Outgoing(u)
    BY <1>4, <2>2 DEF IsJoined
  <2>4. Outgoing(u)[Len(toServer[u]) + 1] = b[1]
    BY <1>4, <2>2 DEF IsJoined
  <2>5. QED
    BY <1>5, <2>2, <2>3, <2>4 DEF HasChange
<1>8. QED
  BY <1>1, <1>2, <1>3, <1>4, <1>6, <1>7 DEF b

LEMMA NothingOutgoing ==
  ASSUME PlanInv, NEW u \in UIs, toServer[u] = <<>>, Queued(u) = <<>>
  PROVE  Outgoing(u) = <<>> /\ ~HasChange(Outgoing(u)) /\ ~HasRequest(toServer[u])
<1>1. Outgoing(u) = <<>>
  <2>1. <<>> \o <<>> = <<>>
    OBVIOUS
  <2>2. QED
    BY <2>1 DEF Outgoing
<1>2. DOMAIN <<>> = {}
  OBVIOUS
<1>3. QED
  BY <1>1, <1>2 DEF HasChange, HasRequest

LEMMA OthersHaveNone ==
  ASSUME PlanInv, NEW u \in UIs, OthersSent(u)
  PROVE  /\ Queue(home[u].old) = <<>> /\ Queued(u) = Queue(home[u].now)
         /\ \A v \in UIs \ {u} :
              /\ ~HasChange(Outgoing(v)) /\ ~HasRequest(toServer[v])
<1>1. Queue(home[u].old) = <<>>
  BY DEF OthersSent, Queue
<1>2. ASSUME NEW v \in UIs \ {u}
      PROVE  ~HasChange(Outgoing(v)) /\ ~HasRequest(toServer[v])
  <2>1. toServer[v] = <<>>
    BY DEF OthersSent
  <2>2. \A c \in {"now", "old"} : home[v][c].commandChangeSendQueue = <<>>
    BY DEF OthersSent
  <2>3. Queued(v) = <<>>
    BY <2>2 DEF Queued, Queue
  <2>4. QED
    BY <2>1, <2>3, NothingOutgoing
<1>3. QED
  BY <1>1, <1>2 DEF Queued

LEMMA OutgoingStays ==
  ASSUME NEW v, home'[v] = home[v], toServer'[v] = toServer[v]
  PROVE  Outgoing(v)' = Outgoing(v)
  BY DEF Outgoing, Queued, Queue

\* A step of u leaves v in step when v is left alone.
LEMMA OthersStayInSync ==
  ASSUME NEW v \in UIs, Sync(v), home'[v] = home[v],
         toServer'[v] = toServer[v], toUi'[v] = toUi[v], plan' = plan,
         \/ \A w \in UIs : HasChange(Outgoing(w)') => HasChange(Outgoing(w))
         \/ ~HasChange(Outgoing(v)) /\ ~HasRequest(toServer[v])
  PROVE  Sync(v)'
<1>1. Outgoing(v)' = Outgoing(v)
  BY OutgoingStays
<1>2. Chained(Outgoing(v)', plan') /\ Arriving(toUi'[v], plan')
  BY <1>1 DEF Sync
<1>3. Reflects(home'[v].now, Outgoing(v)', toServer'[v], toUi'[v], plan')
  BY <1>1 DEF Sync
<1>4. Sits(home'[v].now, home'[v].old)
  BY DEF Sync
<1>5. ChangesAlone(v)'
  <2>1. HasChange(Outgoing(v)') =>
          /\ toUi'[v] = <<>> /\ ~home'[v].now.invalidCommands
          /\ \A w \in UIs \ {v} : ~HasChange(Outgoing(w)')
    BY <1>1 DEF Sync, ChangesAlone
  <2>2. QED
    BY <2>1 DEF ChangesAlone, HasChange, IsChange
<1>6. Stays(v)'
  <2>1. v \notin Agreeing =>
          /\ Queue(home'[v].old) = <<>> /\ home'[v].now.mounted
          /\ HasRequest(toServer'[v]) =>
               /\ toUi'[v] = <<>> /\ ~(Len(toServer'[v]) > 1)
               /\ \A w \in UIs : ~HasChange(Outgoing(w)')
    BY <1>1 DEF Sync, Stays
  <2>2. QED
    BY <2>1 DEF Stays, HasRequest, HasChange, IsChange, Queue
<1>7. QED
  BY <1>2, <1>3, <1>4, <1>5, <1>6
  DEF Sync, Chained, Arriving, Reflects, Sits, IsChange, Follows, About,
      HasRequest, NoneIsWhole, EndOf, Queue


LEMMA SyncAfter ==
  ASSUME NEW v \in UIs,
         Chained(Outgoing(v)', plan'), Arriving(toUi'[v], plan'),
         Reflects(home'[v].now, Outgoing(v)', toServer'[v], toUi'[v], plan'),
         Sits(home'[v].now, home'[v].old),
         HasChange(Outgoing(v)') =>
           /\ toUi'[v] = <<>> /\ ~home'[v].now.invalidCommands
           /\ \A w \in UIs \ {v} : ~HasChange(Outgoing(w)'),
         v \notin Agreeing =>
           /\ Queue(home'[v].old) = <<>> /\ home'[v].now.mounted
           /\ HasRequest(toServer'[v]) =>
                /\ toUi'[v] = <<>> /\ ~(Len(toServer'[v]) > 1)
                /\ \A w \in UIs : ~HasChange(Outgoing(w)')
  PROVE  Sync(v)'
<1>1. ChangesAlone(v)'
  BY DEF ChangesAlone, HasChange, IsChange
<1>2. Stays(v)'
  BY DEF Stays, HasRequest, HasChange, IsChange, Queue
<1>3. QED
  BY <1>1, <1>2
  DEF Sync, Chained, Arriving, Reflects, Sits, IsChange, Follows, About,
      HasRequest, NoneIsWhole, EndOf, Queue

LEMMA NoRequestIsAdded ==
  ASSUME NEW s \in Seq(Messages), NEW c \in Messages, IsChange(c)
  PROVE  HasRequest(Append(s, c)) <=> HasRequest(s)
<1>1. IsAppended(Append(s, c), s, c)
  BY Appended
<1>2. QED
  BY <1>1 DEF IsAppended, HasRequest

LEMMA TakenIsOutgoing ==
  ASSUME PlanInv, NEW u \in UIs, NEW commands \in Plans,
         NEW range \in Ranges, TakesChange(u, commands, range),
         Queue(home[u].old) = <<>>
  PROVE  /\ Extends(Outgoing(u)', Outgoing(u), Change(commands, range, FALSE))
         /\ HasRequest(toServer'[u]) <=> HasRequest(toServer[u])
<1> DEFINE c == Change(commands, range, FALSE)
<1>1. c \in PlanChanges /\ c \in Messages /\ IsChange(c)
  BY ChangeFacts, MessageFacts, Zenon
<1> HIDE DEF c
<1>2. Queued(u) = Queue(home[u].now) /\ Queued(u)' = Queue(home'[u].now)
  BY DEF Queued, TakesChange, Queue
<1>3. toServer[u] \in Seq(Messages) /\ Queued(u) \in Seq(Messages)
  BY OutgoingFacts
<1>4. CASE Queue(home[u].now) = <<>> /\ Queue(home'[u].now) = <<>>
           /\ Sends(u, c)
  <2>1. toServer'[u] = Append(toServer[u], c)
    BY <1>4 DEF Sends
  <2>2. Append(toServer[u], c) \in Seq(Messages)
    BY <1>1, <1>3, Appended
  <2> DEFINE s == toServer[u]
             t == Append(s, c)
  <2>3. s \o <<>> = s /\ t \o <<>> = t
    BY <1>3, <2>2, ConcatEmptySeq
  <2>4. Outgoing(u) = s \o <<>> /\ Outgoing(u)' = t \o <<>>
    BY <1>2, <1>4, <2>1 DEF Outgoing
  <2>5. Outgoing(u)' = Append(Outgoing(u), c)
    BY <2>3, <2>4
  <2>6. HasRequest(toServer'[u]) <=> HasRequest(toServer[u])
    BY <1>1, <1>3, <2>1, NoRequestIsAdded
  <2>7. QED
    BY <2>5, <2>6 DEF Extends, c
<1>5. CASE Extends(Queue(home'[u].now), Queue(home[u].now), c)
           /\ toServer' = toServer
  <2> DEFINE a == toServer[u]
             b == Queued(u)
             r == Queued(u)'
  <2>1. Extends(r, b, c)
    BY <1>2, <1>5
  <2>2. PlanChanges \subseteq Messages
    BY MessageFacts
  <2>3. Outgoing(u) = a \o b /\ Outgoing(u)' = a \o r
    BY <1>5 DEF Outgoing
  <2> HIDE DEF a, b, r
  <2>4. a \in Seq(Messages) /\ b \in Seq(Messages)
    BY <1>3 DEF a, b
  <2>5. Extends(a \o r, a \o b, c)
    BY <1>1, <2>1, <2>2, <2>4, JoinedExtends, Zenon
  <2>6. QED
    BY <1>5, <2>3, <2>5 DEF c
<1>6. QED
  BY <1>4, <1>5 DEF TakesChange, c

\* A browser that changes the plan alone is alone with its change.
LEMMA TakingKeepsSync ==
  ASSUME PlanInv, NEW u \in UIs, \A v \in UIs : Sync(v), OthersSent(u),
         toUi'[u] = <<>>, \A v \in UIs \ {u} : toUi'[v] = toUi[v],
         plan' = plan, ~HasRequest(toServer[u]), home[u].now.mounted,
         NEW commands \in Plans, NEW range \in Ranges,
         TakesChange(u, commands, range),
         Follows(EndOf(Outgoing(u), plan), Change(commands, range, FALSE))
  PROVE  \A v \in UIs : Sync(v)'
<1> DEFINE c == Change(commands, range, FALSE)
<1>1. /\ c \in PlanChanges /\ ~c.restoreCommands /\ c.commands = commands
  BY ChangeFacts
<1>2. /\ Queue(home[u].old) = <<>>
      /\ \A v \in UIs \ {u} : ~HasChange(Outgoing(v)) /\ ~HasRequest(toServer[v])
  BY OthersHaveNone
<1>3. Extends(Outgoing(u)', Outgoing(u), c) /\ ~HasRequest(toServer'[u])
  BY <1>2, TakenIsOutgoing
<1>4. /\ \A v \in UIs \ {u} : home'[v] = home[v] /\ toServer'[v] = toServer[v]
      /\ home'[u].old = home[u].old /\ home'[u].now.commands = commands
      /\ ~home'[u].now.invalidCommands /\ home'[u].now.mounted
  BY DEF TakesChange, Sends
<1>5. Follows(EndOf(Outgoing(u), plan), c)
  OBVIOUS
<1> HIDE DEF c
<1>6. Outgoing(u) \in Seq(Messages) /\ ~HasRequest(Outgoing(u))
  BY OutgoingFacts
<1>7. Chained(Outgoing(u), plan)
  BY DEF Sync
<1>8. /\ Chained(Outgoing(u)', plan) /\ EndOf(Outgoing(u)', plan) = commands
  <2> DEFINE q == Outgoing(u)
             r == Outgoing(u)'
  <2>1. /\ q \in Seq(Messages) /\ ~HasRequest(q) /\ Chained(q, plan)
        /\ Extends(r, q, c) /\ Follows(EndOf(q, plan), c)
    BY <1>3, <1>5, <1>6, <1>7
  <2> HIDE DEF q, r
  <2>2. Chained(r, plan) /\ EndOf(r, plan) = c.commands
    BY <1>1, <2>1, ChangeIsAdded
  <2>3. QED
    BY <1>1, <2>2 DEF r
<1>9. \A v \in UIs \ {u} : Outgoing(v)' = Outgoing(v)
  BY <1>4, OutgoingStays
<1>10. ASSUME NEW v \in UIs \ {u} PROVE Sync(v)'
  BY <1>2, <1>4, OthersStayInSync
<1>11. Sync(u)'
  <2>1. Chained(Outgoing(u)', plan')
    BY <1>8
  <2>2. Arriving(toUi'[u], plan')
    BY DEF Arriving
  <2>3. Reflects(home'[u].now, Outgoing(u)', toServer'[u], toUi'[u], plan')
    BY <1>4, <1>8 DEF Reflects
  <2>4. Sits(home'[u].now, home'[u].old)
    BY <1>2, <1>4 DEF Sits
  <2>5. HasChange(Outgoing(u)') =>
          /\ toUi'[u] = <<>> /\ ~home'[u].now.invalidCommands
          /\ \A w \in UIs \ {u} : ~HasChange(Outgoing(w)')
    BY <1>2, <1>4, <1>9
  <2>6. u \notin Agreeing =>
          /\ Queue(home'[u].old) = <<>> /\ home'[u].now.mounted
          /\ ~HasRequest(toServer'[u])
    BY <1>2, <1>3, <1>4
  <2>7. QED
    BY <2>1, <2>2, <2>3, <2>4, <2>5, <2>6, SyncAfter
<1>12. QED
  BY <1>10, <1>11


InSync == PlanInv /\ Orderly /\ \A v \in UIs : Sync(v)

LEMMA AloneAsksNothing ==
  ASSUME PlanInv, NEW u \in UIs, Alone(u)
  PROVE  OthersSent(u) /\ toUi[u] = <<>> /\ ~HasRequest(toServer[u])
<1>1. toServer[u] \in Seq(Messages)
  BY OutgoingFacts
<1>2. /\ OthersSent(u) /\ toUi[u] = <<>>
      /\ Request(FALSE) \notin ToSet(toServer[u])
      /\ Request(TRUE) \notin ToSet(toServer[u])
  BY DEF Alone
<1>3. ASSUME NEW k \in DOMAIN toServer[u], ~IsChange(toServer[u][k])
      PROVE  FALSE
  <2>1. toServer[u][k] \in Messages
    BY <1>1
  <2>2. toServer[u][k] = Request(TRUE) \/ toServer[u][k] = Request(FALSE)
    BY <1>3, <2>1, MessageFacts
  <2>3. toServer[u][k] \in ToSet(toServer[u])
    BY DEF ToSet
  <2>4. QED
    BY <1>2, <2>2, <2>3
<1>4. QED
  BY <1>2, <1>3 DEF HasRequest

LEMMA EditKeepsSync ==
  ASSUME InSync, NEW u \in UIs, EditsPlan(u), Orderly'
  PROVE  \A v \in UIs : Sync(v)'
<1>1. Alone(u)
  BY DEF EditsPlan, Orderly
<1>2. OthersSent(u) /\ toUi[u] = <<>> /\ ~HasRequest(toServer[u])
  BY <1>1, AloneAsksNothing DEF InSync
<1>3. PICK commands, range :
        /\ Edited(home[u].now.commands, commands, range)
        /\ home[u].now.invalidCommands => range = WholePlan
        /\ TakesChange(u, commands, range)
  BY DEF EditsPlan
<1> DEFINE c == Change(commands, range, FALSE)
<1>4. /\ commands \in Plans /\ range \in Ranges
      /\ Follows(home[u].now.commands, c)
  BY <1>3 DEF Edited
<1>5. c.changedCommands = range
  BY DEF Change
<1> HIDE DEF c
<1>6. NoneIsWhole(toUi[u])
  BY <1>2 DEF NoneIsWhole
<1>7. Follows(EndOf(Outgoing(u), plan), c)
  <2>1. CASE home[u].now.invalidCommands
    BY <1>3, <1>5, <2>1 DEF Follows
  <2>2. CASE ~home[u].now.invalidCommands
    <3>1. home[u].now.commands = EndOf(Outgoing(u), plan)
      BY <1>2, <1>6, <2>2 DEF InSync, Sync, Reflects, EditsPlan
    <3>2. QED
      BY <1>4, <3>1
  <2>3. QED
    BY <2>1, <2>2
<1>8. /\ toUi'[u] = <<>> /\ \A v \in UIs \ {u} : toUi'[v] = toUi[v]
      /\ plan' = plan /\ home[u].now.mounted
  BY <1>2 DEF EditsPlan
<1>9. PlanInv /\ \A v \in UIs : Sync(v)
  BY DEF InSync
<1>10. QED
  BY <1>2, <1>3, <1>4, <1>7, <1>8, <1>9, TakingKeepsSync, Zenon DEF c

LEMMA RestoreKeepsSync ==
  ASSUME InSync, NEW u \in UIs, AsksToRestore(u), Orderly'
  PROVE  \A v \in UIs : Sync(v)'
<1>1. Alone(u) /\ PlanInv
  BY DEF AsksToRestore, Orderly, InSync
<1>2. OthersSent(u) /\ toUi[u] = <<>> /\ ~HasRequest(toServer[u])
  BY <1>1, AloneAsksNothing
<1>3. /\ Queue(home[u].old) = <<>>
      /\ \A v \in UIs \ {u} : ~HasChange(Outgoing(v)) /\ ~HasRequest(toServer[v])
  BY <1>1, <1>2, OthersHaveNone
<1>4. /\ home[u].now.mounted /\ home[u].now.invalidCommands
      /\ home' = home /\ toUi' = toUi /\ plan' = plan
      /\ toServer'[u] = Append(toServer[u], Request(TRUE))
      /\ \A v \in UIs \ {u} : toServer'[v] = toServer[v]
  BY DEF AsksToRestore, Sends
<1>5. ~HasChange(Outgoing(u))
  BY <1>4 DEF InSync, Sync, ChangesAlone
<1>6. Queued(u) = <<>> /\ toServer[u] = <<>>
  <2>1. Queued(u) = <<>> /\ Outgoing(u) \in Seq(Messages)
        /\ ~HasRequest(Outgoing(u)) /\ toServer[u] \in Seq(Messages)
    BY <1>1, <1>2, <1>5, OutgoingFacts
  <2>2. Outgoing(u) = <<>>
    BY <1>5, <2>1, RequestsHaveNone
  <2>3. toServer[u] \o <<>> = toServer[u]
    BY <2>1, ConcatEmptySeq
  <2>4. QED
    BY <2>1, <2>2, <2>3 DEF Outgoing
<1>7. Queued(u)' = <<>>
  BY <1>4, <1>6 DEF Queued, Queue
<1> DEFINE r == Request(TRUE)
<1>8. Outgoing(u)' = <<r>> /\ toServer'[u] = <<r>> /\ ~IsChange(r)
  <2>1. Append(<<>>, r) = <<r>>
    OBVIOUS
  <2>2. <<r>> \o <<>> = <<r>>
    OBVIOUS
  <2>3. ~IsChange(r)
    BY MessageFacts
  <2>4. QED
    BY <1>4, <1>6, <1>7, <2>1, <2>2, <2>3 DEF Outgoing
<1> HIDE DEF r
<1>9. ~HasChange(Outgoing(u)') /\ ~(Len(toServer'[u]) > 1)
  <2>1. DOMAIN <<r>> = {1} /\ <<r>>[1] = r /\ Len(<<r>>) = 1
    OBVIOUS
  <2>2. QED
    BY <1>8, <2>1 DEF HasChange
<1>10. \A v \in UIs \ {u} : Outgoing(v)' = Outgoing(v)
  BY <1>4, OutgoingStays
<1>11. ASSUME NEW v \in UIs \ {u} PROVE Sync(v)'
  BY <1>3, <1>4, OthersStayInSync DEF InSync
<1>12. Sync(u)'
  <2>1. Chained(Outgoing(u)', plan')
    BY <1>9, NothingFollowsNone
  <2>2. Arriving(toUi'[u], plan') /\ Sits(home'[u].now, home'[u].old)
    BY <1>4 DEF InSync, Sync
  <2>3. Reflects(home'[u].now, Outgoing(u)', toServer'[u], toUi'[u], plan')
    BY <1>4 DEF Reflects
  <2>4. \A w \in UIs : ~HasChange(Outgoing(w)')
    BY <1>3, <1>9, <1>10
  <2>5. QED
    BY <1>2, <1>3, <1>4, <1>9, <2>1, <2>2, <2>3, <2>4, SyncAfter
<1>13. QED
  BY <1>11, <1>12

LEMMA SendKeepsSync ==
  ASSUME InSync, NEW u \in UIs, SendsQueued(u)
  PROVE  \A v \in UIs : Sync(v)'
<1>1. /\ toUi' = toUi /\ plan' = plan /\ PlanInv /\ Sync(u)
      /\ \A v \in UIs \ {u} : home'[v] = home[v]
  BY DEF InSync, SendsQueued
<1>2. /\ toServer[u] \in Seq(Messages) /\ Queued(u) \in Seq(PlanChanges)
      /\ Queued(u) \in Seq(Messages)
  BY <1>1, OutgoingFacts
<1>3. Sits(home[u].now, home[u].old)
  BY <1>1 DEF Sync
<1>4. /\ Queued(u) # <<>> /\ Sends(u, Head(Queued(u)))
      /\ Queued(u)' = Tail(Queued(u))
      /\ home'[u].now.mounted = home[u].now.mounted
      /\ home'[u].now.commands = home[u].now.commands
      /\ home'[u].now.invalidCommands = home[u].now.invalidCommands
      /\ Sits(home'[u].now, home'[u].old)
      /\ Queue(home[u].old) = <<>> => Queue(home'[u].old) = <<>>
  <2>1. CASE /\ Queue(home[u].now) # <<>>
             /\ Sends(u, Head(Queue(home[u].now)))
             /\ Requeued(home'[u].now, home[u].now, Tail(Queue(home[u].now)))
             /\ home'[u].old = home[u].old
    <3>1. home[u].now.mounted /\ Queue(home[u].old) = <<>>
      BY <1>3, <2>1 DEF Sits
    <3>2. Queued(u) = Queue(home[u].now)
      BY <3>1 DEF Queued
    <3>3. Queued(u)' = Queue(home'[u].now)
      BY <2>1, <3>1 DEF Queued, Queue
    <3>4. QED
      BY <2>1, <3>1, <3>2, <3>3 DEF Requeued, Sits
  <2>2. CASE /\ Queue(home[u].old) # <<>>
             /\ Sends(u, Head(Queue(home[u].old)))
             /\ Requeued(home'[u].old, home[u].old, Tail(Queue(home[u].old)))
             /\ home'[u].now = home[u].now
    <3>1. ~home[u].now.mounted /\ Queue(home[u].now) = <<>>
      BY <1>3, <2>2 DEF Sits
    <3>2. Queued(u) = Queue(home[u].old)
      BY <2>2 DEF Queued
    <3>3. Queue(home'[u].old) = Tail(Queue(home[u].old))
      BY <2>2 DEF Requeued
    <3>4. Queued(u)' = Queue(home'[u].old)
      <4>1. Queued(u)' = IF Queue(home'[u].old) = <<>>
                         THEN Queue(home'[u].now) ELSE Queue(home'[u].old)
        BY DEF Queued, Queue
      <4>2. QED
        BY <2>2, <3>1, <4>1
    <3>5. QED
      BY <2>2, <3>1, <3>2, <3>3, <3>4 DEF Sits
  <2>3. QED
    BY <2>1, <2>2 DEF SendsQueued
<1>5. /\ toServer'[u] = Append(toServer[u], Head(Queued(u)))
      /\ \A v \in UIs \ {u} : toServer'[v] = toServer[v]
  BY <1>4 DEF Sends
<1>6. Outgoing(u)' = Outgoing(u)
  <2>1. Outgoing(u)' = Append(toServer[u], Head(Queued(u))) \o Tail(Queued(u))
    BY <1>4, <1>5 DEF Outgoing
  <2>2. QED
    BY <1>2, <1>4, <2>1, HeadIsMoved DEF Outgoing
<1>7. HasRequest(toServer'[u]) <=> HasRequest(toServer[u])
  <2>1. Head(Queued(u)) \in PlanChanges
    BY <1>2, <1>4, WithoutHead
  <2>2. Head(Queued(u)) \in Messages /\ IsChange(Head(Queued(u)))
    BY <2>1, MessageFacts
  <2>3. QED
    BY <1>2, <1>5, <2>2, NoRequestIsAdded
<1>8. \A v \in UIs : Outgoing(v)' = Outgoing(v)
  BY <1>1, <1>5, <1>6, OutgoingStays
<1>9. HasChange(Outgoing(u))
  BY <1>1, <1>4, OutgoingFacts
<1>10. ASSUME NEW v \in UIs \ {u} PROVE Sync(v)'
  <2>1. \A w \in UIs : HasChange(Outgoing(w)') => HasChange(Outgoing(w))
    BY <1>8
  <2>2. Sync(v)
    BY DEF InSync
  <2>3. QED
    BY <1>1, <1>5, <2>1, <2>2, OthersStayInSync
<1>11. Sync(u)'
  <2>1. Chained(Outgoing(u)', plan') /\ Arriving(toUi'[u], plan')
    BY <1>1, <1>6 DEF Sync
  <2>2. Reflects(home'[u].now, Outgoing(u)', toServer'[u], toUi'[u], plan')
    BY <1>1, <1>4, <1>6, <1>7 DEF Sync, Reflects
  <2>3. HasChange(Outgoing(u)') =>
          /\ toUi'[u] = <<>> /\ ~home'[u].now.invalidCommands
          /\ \A w \in UIs \ {u} : ~HasChange(Outgoing(w)')
    BY <1>1, <1>4, <1>8 DEF Sync, ChangesAlone
  <2>4. u \notin Agreeing =>
          /\ Queue(home'[u].old) = <<>> /\ home'[u].now.mounted
          /\ ~HasRequest(toServer'[u])
    BY <1>1, <1>4, <1>7, <1>9 DEF Sync, Stays
  <2>5. QED
    BY <1>4, <2>1, <2>2, <2>3, <2>4, SyncAfter
<1>12. QED
  BY <1>10, <1>11


\* What the server takes is no longer outgoing.
LEMMA TakenFromOutgoing ==
  ASSUME InSync, NEW u \in UIs, ServerTakes(u)
  PROVE  /\ Outgoing(u) # <<>> /\ Head(Outgoing(u)) = Head(toServer[u])
         /\ Outgoing(u)' = Tail(Outgoing(u))
         /\ toServer[u] \in Seq(Messages) /\ Head(toServer[u]) \in Messages
         /\ \A v \in UIs \ {u} : Outgoing(v)' = Outgoing(v)
<1>1. toServer[u] \in Seq(Messages) /\ Queued(u) \in Seq(Messages)
  BY OutgoingFacts DEF InSync
<1>2. toServer[u] # <<>> /\ toServer'[u] = Tail(toServer[u]) /\ home' = home
  BY DEF ServerTakes
<1>3. Head(toServer[u]) \in Messages
  BY <1>1, <1>2, WithoutHead
<1>4. Queued(u)' = Queued(u)
  BY <1>2 DEF Queued, Queue
<1>5. /\ toServer[u] \o Queued(u) # <<>>
      /\ Head(toServer[u] \o Queued(u)) = Head(toServer[u])
      /\ Tail(toServer[u] \o Queued(u)) = Tail(toServer[u]) \o Queued(u)
  BY <1>1, <1>2, TailOfJoined, Zenon
<1>6. \A v \in UIs \ {u} : Outgoing(v)' = Outgoing(v)
  BY OutgoingStays DEF ServerTakes
<1>7. QED
  BY <1>1, <1>2, <1>3, <1>4, <1>5, <1>6 DEF Outgoing

LEMMA ServerKeepsSync ==
  ASSUME InSync, NEW u \in UIs, ServerTakes(u)
  PROVE  \A v \in UIs : Sync(v)'
<1> DEFINE m == Head(toServer[u])
           q == Outgoing(u)
<1>1. /\ q # <<>> /\ Head(q) = m /\ Outgoing(u)' = Tail(q)
      /\ toServer[u] \in Seq(Messages) /\ m \in Messages
      /\ \A v \in UIs \ {u} : Outgoing(v)' = Outgoing(v)
  BY TakenFromOutgoing
<1>2. /\ toServer[u] # <<>> /\ toServer'[u] = Tail(toServer[u])
      /\ \A v \in UIs \ {u} : toServer'[v] = toServer[v]
      /\ home' = home
  BY DEF ServerTakes
<1>3. PlanInv /\ \A v \in UIs : Sync(v)
  BY DEF InSync
<1>4. q \in Seq(Messages) /\ Chained(q, plan)
      /\ (HasRequest(q) <=> HasRequest(toServer[u]))
  BY <1>3, OutgoingFacts DEF Sync
<1>5. /\ plan \in Plans
      /\ \A v \in UIs : toUi[v] \in Seq(PlanChanges) /\ Arriving(toUi[v], plan)
  BY <1>3 DEF PlanInv, ChannelsOK, Sync
<1>6. \A v \in UIs : Sits(home'[v].now, home'[v].old)
  BY <1>2, <1>3 DEF Sync
<1>7. \/ /\ IsChange(m) /\ plan' = m.commands /\ toUi'[u] = toUi[u]
         /\ \A v \in UIs \ {u} : toUi'[v] = Append(toUi[v], m)
      \/ /\ ~IsChange(m) /\ plan' = plan
         /\ toUi'[u] = Append(toUi[u],
                              Change(plan, WholePlan, m.restoreCommands))
         /\ \A v \in UIs \ {u} : toUi'[v] = toUi[v]
  BY DEF ServerTakes
<1> HIDE DEF m, q
<1>8. CASE /\ IsChange(m) /\ plan' = m.commands /\ toUi'[u] = toUi[u]
           /\ \A v \in UIs \ {u} : toUi'[v] = Append(toUi[v], m)
  <2>1. /\ Chained(Tail(q), m.commands) /\ Follows(plan, m)
        /\ ~m.restoreCommands /\ EndOf(Tail(q), m.commands) = EndOf(q, plan)
        /\ HasChange(q)
    BY <1>1, <1>4, <1>8, ChainedTail
  <2>2. HasRequest(toServer[u]) <=> HasRequest(toServer'[u])
    <3>1. HasRequest(toServer[u]) <=> HasRequest(Tail(toServer[u]))
      <4> DEFINE s == toServer[u]
                 t == Tail(s)
      <4>1. s \in Seq(Messages) /\ s # <<>> /\ IsChange(Head(s))
        BY <1>1, <1>2, <1>8 DEF m
      <4>2. Head(s) = s[1] /\ Len(s) >= 1 /\ IsTailOf(t, s)
        BY <4>1, WithoutHead
      <4> HIDE DEF s, t
      <4>3. \A k \in DOMAIN s :
              k = 1 \/ (k - 1 \in DOMAIN t /\ t[k - 1] = s[k])
        BY <4>2 DEF IsTailOf
      <4>4. \A k \in DOMAIN t : k + 1 \in DOMAIN s /\ t[k] = s[k + 1]
        BY <4>2 DEF IsTailOf
      <4>5. HasRequest(s) <=> HasRequest(t)
        BY <4>1, <4>2, <4>3, <4>4 DEF HasRequest
      <4>6. QED
        BY <4>5 DEF s, t
    <3>2. QED
      BY <1>2, <3>1
  <2>3. /\ toUi[u] = <<>> /\ ~home[u].now.invalidCommands
        /\ \A v \in UIs \ {u} : ~HasChange(Outgoing(v))
    BY <1>3, <2>1 DEF Sync, ChangesAlone, q
  <2>4. \A v \in UIs \ {u} : ~HasChange(Outgoing(v)')
    BY <1>1, <2>3
  <2>5. \A v \in UIs : v \notin Agreeing =>
          /\ Queue(home'[v].old) = <<>> /\ home'[v].now.mounted
          /\ ~HasRequest(toServer'[v])
    <3>1. \A v \in UIs : v \notin Agreeing =>
            /\ Queue(home[v].old) = <<>> /\ home[v].now.mounted
            /\ ~HasRequest(toServer[v])
      BY <1>3, <2>1 DEF Sync, Stays, q
    <3>2. QED
      BY <1>2, <2>2, <3>1
  <2>6. Sync(u)'
    <3>1. Chained(Outgoing(u)', plan')
      BY <1>1, <1>8, <2>1
    <3>2. Arriving(toUi'[u], plan')
      BY <1>8, <2>3 DEF Arriving
    <3>3. Reflects(home'[u].now, Outgoing(u)', toServer'[u], toUi'[u], plan')
      <4>1. Reflects(home[u].now, q, toServer[u], toUi[u], plan)
        BY <1>3 DEF Sync, q
      <4>2. QED
        BY <1>1, <1>2, <1>8, <2>1, <2>2, <2>3, <4>1 DEF Reflects
    <3>4. toUi'[u] = <<>> /\ ~home'[u].now.invalidCommands
      BY <1>2, <1>8, <2>3
    <3>5. QED
      BY <1>6, <2>4, <2>5, <3>1, <3>2, <3>3, <3>4, SyncAfter
  <2>7. ASSUME NEW v \in UIs \ {u} PROVE Sync(v)'
    <3> DEFINE p == toUi[v]
               r == Append(p, m)
    <3>1. m \in PlanChanges
      BY <1>1, <1>8, MessageFacts
    <3>2. /\ Arriving(r, m.commands)
          /\ NoneIsWhole(r) => NoneIsWhole(p)
          /\ Head(r) = (IF p = <<>> THEN m ELSE Head(p))
      BY <1>5, <2>1, <3>1, ArrivingMore, Zenon
    <3>3. r # <<>>
      <4>1. p \in Seq(PlanChanges)
        BY <1>5
      <4>2. QED
        BY <3>1, <4>1, Appended
    <3>4. toUi'[v] = r
      BY <1>8
    <3> HIDE DEF r
    <3>5. Chained(Outgoing(v)', plan')
      BY <2>4, NothingFollowsNone
    <3>6. Reflects(home'[v].now, Outgoing(v)', toServer'[v], toUi'[v], plan')
      <4>1. SUFFICES ASSUME home[v].now.mounted, ~home[v].now.invalidCommands,
                            ~HasRequest(toServer[v]), NoneIsWhole(p)
                     PROVE  Follows(home[v].now.commands, Head(r))
        BY <1>2, <3>2, <3>3, <3>4 DEF Reflects
      <4>2. IF p = <<>> THEN home[v].now.commands = EndOf(Outgoing(v), plan)
            ELSE Follows(home[v].now.commands, Head(p))
        BY <1>3, <4>1 DEF Sync, Reflects
      <4>3. CASE p = <<>>
        <5>1. Outgoing(v) = <<>>
          <6>1. Outgoing(v) \in Seq(Messages) /\ ~HasRequest(Outgoing(v))
            BY <1>3, <4>1, OutgoingFacts
          <6>2. QED
            BY <2>3, <6>1, RequestsHaveNone
        <5>2. home[v].now.commands = plan
          BY <4>2, <4>3, <5>1 DEF EndOf
        <5>3. QED
          BY <2>1, <3>2, <4>3, <5>2
      <4>4. CASE p # <<>>
        BY <3>2, <4>2, <4>4
      <4>5. QED
        BY <4>3, <4>4
    <3>7. Arriving(toUi'[v], plan')
      BY <1>8, <3>2, <3>4
    <3>8. ~HasChange(Outgoing(v)')
      BY <2>4
    <3>9. QED
      BY <1>6, <2>5, <3>5, <3>6, <3>7, <3>8, SyncAfter
  <2>8. QED
    BY <2>6, <2>7
<1>9. CASE /\ ~IsChange(m) /\ plan' = plan
           /\ toUi'[u] = Append(toUi[u],
                                Change(plan, WholePlan, m.restoreCommands))
           /\ \A v \in UIs \ {u} : toUi'[v] = toUi[v]
  <2> DEFINE c == Change(plan, WholePlan, m.restoreCommands)
  <2>1. /\ c \in PlanChanges /\ c.commands = plan
        /\ c.changedCommands = WholePlan
    <3>1. m.restoreCommands \in BOOLEAN /\ WholePlan \in Ranges
      BY <1>1, MessageFacts DEF Ranges
    <3>2. QED
      BY <1>5, <3>1, ChangeFacts
  <2> HIDE DEF c
  <2>2. HasRequest(q) /\ ~HasChange(q) /\ ~HasChange(Tail(q))
    BY <1>1, <1>4, <1>9, RequestFirst
  <2>3. \A w \in UIs : HasChange(Outgoing(w)') => HasChange(Outgoing(w))
    BY <1>1, <2>2
  <2>4. ASSUME NEW v \in UIs \ {u} PROVE Sync(v)'
    BY <1>2, <1>3, <1>9, <2>3, OthersStayInSync
  <2>5. Sync(u)'
    <3> DEFINE p == toUi[u]
               r == Append(p, c)
    <3>1. /\ Arriving(r, plan) /\ ~NoneIsWhole(r)
      <4>1. Follows(plan, c)
        BY <2>1 DEF Follows
      <4>2. /\ Arriving(r, c.commands)
            /\ NoneIsWhole(r) => c.changedCommands # WholePlan
        BY <1>5, <2>1, <4>1, ArrivingMore, Zenon
      <4>3. QED
        BY <2>1, <4>2
    <3>2. toUi'[u] = r
      BY <1>9 DEF c
    <3> HIDE DEF r
    <3>3. Chained(Outgoing(u)', plan') /\ ~HasChange(Outgoing(u)')
      BY <1>1, <2>2, NothingFollowsNone
    <3>4. Reflects(home'[u].now, Outgoing(u)', toServer'[u], toUi'[u], plan')
      BY <3>1, <3>2 DEF Reflects
    <3>5. Arriving(toUi'[u], plan')
      BY <1>9, <3>1, <3>2
    <3>6. u \notin Agreeing =>
            /\ Queue(home'[u].old) = <<>> /\ home'[u].now.mounted
            /\ ~HasRequest(toServer'[u])
      <4>1. SUFFICES ASSUME u \notin Agreeing
                     PROVE  /\ Queue(home'[u].old) = <<>>
                            /\ home'[u].now.mounted
                            /\ ~HasRequest(toServer'[u])
        OBVIOUS
      <4>2. /\ Queue(home[u].old) = <<>> /\ home[u].now.mounted
            /\ ~(Len(toServer[u]) > 1)
        BY <1>3, <1>4, <2>2, <4>1 DEF Sync, Stays
      <4>3. ~HasRequest(Tail(toServer[u]))
        <5>1. IsTailOf(Tail(toServer[u]), toServer[u])
          BY <1>1, <1>2, WithoutHead
        <5>2. QED
          BY <4>2, <5>1 DEF IsTailOf, HasRequest
      <4>4. QED
        BY <1>2, <4>2, <4>3
    <3>7. QED
      BY <1>6, <3>3, <3>4, <3>5, <3>6, SyncAfter
  <2>6. QED
    BY <2>4, <2>5
<1>10. QED
  BY <1>7, <1>8, <1>9


LEMMA BrowserKeepsSync ==
  ASSUME PlanSyncAssumption, InSync, NEW u \in UIs, UiTakes(u), Orderly'
  PROVE  \A v \in UIs : Sync(v)'
<1> DEFINE m == Received(u)
           p == toUi[u]
           h == home[u].now
           q == Outgoing(u)
<1>1. /\ p # <<>> /\ toUi'[u] = Tail(p) /\ plan' = plan
      /\ \A v \in UIs \ {u} : toUi'[v] = toUi[v]
  BY DEF UiTakes
<1>2. PlanInv /\ \A v \in UIs : Sync(v)
  BY DEF InSync
<1>3. /\ p \in Seq(PlanChanges) /\ Arriving(p, plan) /\ ~HasChange(q)
      /\ Reflects(h, q, toServer[u], p, plan)
      /\ Sits(h, home[u].old)
      /\ u \notin Agreeing =>
           /\ Queue(home[u].old) = <<>> /\ h.mounted /\ ~HasRequest(toServer[u])
  BY <1>1, <1>2, OutgoingFacts DEF Sync, ChangesAlone, Stays
<1>4. /\ Arriving(Tail(p), plan)
      /\ Head(p).restoreCommands => Head(p).changedCommands = WholePlan
      /\ IF Tail(p) = <<>> THEN Head(p).commands = plan
         ELSE Follows(Head(p).commands, Head(Tail(p)))
      /\ NoneIsWhole(Tail(p)) /\ Head(p).changedCommands # WholePlan
           => NoneIsWhole(p)
      /\ Tail(p) = <<>> <=> ~(Len(p) > 1)
  BY <1>1, <1>3, ArrivingRest
<1>5. m \in PlanChanges /\ m.restoreCommands = Head(p).restoreCommands
  BY <1>1, <1>2, ReceivedFacts
<1>6. ~HasRequest(toServer[u]) => q = <<>>
  <2>1. q \in Seq(Messages) /\ (HasRequest(q) <=> HasRequest(toServer[u]))
    BY <1>2, OutgoingFacts
  <2>2. QED
    BY <1>3, <2>1, RequestsHaveNone
\* The plan that was sent is the one that is shown.
<1>7. ASSUME h.invalidCommands \/ Follows(h.commands, Head(p))
      PROVE  m.commands = Head(p).commands
  <2>1. home[u].old.listens => u \in Agreeing /\ ~home[u].old.invalidCommands
    <3>1. home[u].old.listens => u \in Agreeing
      BY DEF InSync, Orderly, LeaversAgree
    <3>2. Sound(u, home[u].old)
      BY <1>2, HomeFacts DEF PlanInv
    <3>3. QED
      BY <3>1, <3>2 DEF Sound
  <2>2. QED
    BY <1>1, <1>2, <1>7, <2>1, ReceivedIsSent
<1> HIDE DEF m, p, h, q
<1>8. CASE /\ \A v \in UIs \ {u} : home'[v] = home[v]
           /\ home'[u].old = home[u].old /\ toServer' = toServer
           /\ Queue(home'[u].now) = Queue(h)
           /\ home'[u].now.mounted <=> h.mounted
           /\ h.mounted => \/ home'[u].now.commands = m.commands
                           \/ home'[u].now.invalidCommands
  <2>1. Outgoing(u)' = q
    <3>1. Queued(u)' = Queued(u)
      <4>1. Queued(u)' = IF Queue(home'[u].old) = <<>>
                         THEN Queue(home'[u].now) ELSE Queue(home'[u].old)
        BY DEF Queued, Queue
      <4>2. QED
        BY <1>8, <4>1 DEF Queued, h
    <3>2. QED
      BY <1>8, <3>1 DEF Outgoing, q
  <2>2. \A v \in UIs : Outgoing(v)' = Outgoing(v) /\ toServer'[v] = toServer[v]
    BY <1>8, <2>1, OutgoingStays DEF q
  <2>3. ASSUME NEW v \in UIs \ {u} PROVE Sync(v)'
    BY <1>1, <1>2, <1>8, <2>2, <2>3, OthersStayInSync
  <2>4. Sync(u)'
    <3>1. Chained(Outgoing(u)', plan') /\ ~HasChange(Outgoing(u)')
      BY <1>3, <2>1, NothingFollowsNone
    <3>2. Arriving(toUi'[u], plan')
      BY <1>1, <1>4
    <3>3. Sits(home'[u].now, home'[u].old)
      BY <1>3, <1>8 DEF Sits
    <3>4. Reflects(home'[u].now, Outgoing(u)', toServer'[u], toUi'[u], plan')
      <4>1. SUFFICES ASSUME h.mounted, ~home'[u].now.invalidCommands,
                            ~HasRequest(toServer[u]), NoneIsWhole(Tail(p))
                     PROVE  IF Tail(p) = <<>>
                            THEN home'[u].now.commands = EndOf(q, plan)
                            ELSE Follows(home'[u].now.commands,
                                         Head(Tail(p)))
        BY <1>1, <1>8, <2>1 DEF Reflects
      <4>2. h.invalidCommands \/ Follows(h.commands, Head(p))
        <5>1. CASE Head(p).changedCommands = WholePlan
          BY <5>1 DEF Follows
        <5>2. CASE Head(p).changedCommands # WholePlan
          <6>1. NoneIsWhole(p)
            BY <1>4, <4>1, <5>2
          <6>2. QED
            BY <1>1, <1>3, <4>1, <6>1 DEF Reflects
        <5>3. QED
          BY <5>1, <5>2
      <4>3. home'[u].now.commands = Head(p).commands
        BY <1>7, <1>8, <4>1, <4>2
      <4>4. EndOf(q, plan) = plan
        BY <1>6, <4>1 DEF EndOf
      <4>5. QED
        BY <1>4, <4>3, <4>4
    <3>5. u \notin Agreeing =>
            /\ Queue(home'[u].old) = <<>> /\ home'[u].now.mounted
            /\ ~HasRequest(toServer'[u])
      BY <1>3, <1>8
    <3>6. QED
      BY <3>1, <3>2, <3>3, <3>4, <3>5, SyncAfter
  <2>5. QED
    BY <2>3, <2>4
<1>9. CASE /\ h.mounted /\ u \notin Agreeing
           /\ m.restoreCommands
           /\ overlapped' = (overlapped \/ ~OthersSent(u) \/ Len(p) > 1)
           /\ \E commands, range :
                /\ Edited(m.commands, commands, range)
                /\ TakesChange(u, commands, range)
  <2>1. OthersSent(u) /\ Tail(p) = <<>>
    BY <1>4, <1>9 DEF Orderly
  <2>2. m.commands = plan
    <3>1. Follows(h.commands, Head(p))
      BY <1>4, <1>5, <1>9 DEF Follows
    <3>2. QED
      BY <1>4, <1>7, <2>1, <3>1
  <2>3. EndOf(q, plan) = plan /\ ~HasRequest(toServer[u])
    BY <1>3, <1>6, <1>9 DEF EndOf
  <2>4. PICK commands, range :
          Edited(plan, commands, range) /\ TakesChange(u, commands, range)
    BY <1>9, <2>2
  <2>5. /\ commands \in Plans /\ range \in Ranges
        /\ Follows(EndOf(Outgoing(u), plan), Change(commands, range, FALSE))
    BY <2>3, <2>4 DEF Edited, q
  <2>6. home[u].now.mounted /\ toUi'[u] = <<>>
    BY <1>1, <1>9, <2>1 DEF h
  <2>7. QED
    BY <1>1, <1>2, <2>1, <2>3, <2>4, <2>5, <2>6, TakingKeepsSync, Zenon
<1>10. QED
  <2>1. \/ /\ ~h.mounted /\ home' = home /\ toServer' = toServer
        \/ /\ h.mounted /\ toServer' = toServer
           /\ \A v \in UIs \ {u} : home'[v] = home[v]
           /\ home'[u].old = home[u].old
           /\ Queue(home'[u].now) = Queue(h)
           /\ home'[u].now.mounted
           /\ \/ home'[u].now.commands = m.commands
              \/ home'[u].now.invalidCommands
        \/ /\ h.mounted /\ u \notin Agreeing
           /\ m.restoreCommands
           /\ overlapped' = (overlapped \/ ~OthersSent(u) \/ Len(p) > 1)
           /\ \E commands, range :
                /\ Edited(m.commands, commands, range)
                /\ TakesChange(u, commands, range)
    BY Zenon DEF UiTakes, m, h, p
  <2>2. h.mounted \in BOOLEAN /\ h = home[u].now
    <3>1. home[u].now \in Components
      BY <1>2, HomeFacts DEF PlanInv
    <3>2. QED
      BY <3>1, ComponentFacts DEF h
  <2>3. CASE ~h.mounted /\ home' = home /\ toServer' = toServer
    BY <1>8, <2>2, <2>3
  <2>4. CASE /\ h.mounted /\ toServer' = toServer
             /\ \A v \in UIs \ {u} : home'[v] = home[v]
             /\ home'[u].old = home[u].old
             /\ Queue(home'[u].now) = Queue(h)
             /\ home'[u].now.mounted
             /\ \/ home'[u].now.commands = m.commands
                \/ home'[u].now.invalidCommands
    BY <1>8, <2>4
  <2>5. QED
    BY <1>9, <2>1, <2>3, <2>4

LEMMA LeavingKeepsSync ==
  ASSUME InSync, NEW u \in UIs, Leaves(u), Orderly'
  PROVE  \A v \in UIs : Sync(v)'
<1>1. /\ toServer' = toServer /\ toUi' = toUi /\ plan' = plan
      /\ \A v \in UIs \ {u} : home'[v] = home[v]
      /\ Queue(home[u].old) = <<>> /\ home[u].now.mounted
      /\ home'[u].old.listens /\ Queue(home'[u].old) = Queue(home[u].now)
      /\ ~home'[u].now.mounted /\ ~home'[u].now.invalidCommands
      /\ Queue(home'[u].now) = <<>>
  BY DEF Leaves
<1>2. u \in Agreeing
  BY <1>1 DEF Orderly, LeaversAgree
<1>3. PlanInv /\ \A v \in UIs : Sync(v)
  BY DEF InSync
<1>4. Outgoing(u)' = Outgoing(u)
  <2>1. Queued(u)' = IF Queue(home'[u].old) = <<>>
                     THEN Queue(home'[u].now) ELSE Queue(home'[u].old)
    BY DEF Queued, Queue
  <2>2. Queued(u) = Queue(home[u].now)
    BY <1>1 DEF Queued
  <2>3. Queued(u)' = Queued(u)
    BY <1>1, <2>1, <2>2
  <2>4. QED
    BY <1>1, <2>3 DEF Outgoing
<1>5. \A v \in UIs : Outgoing(v)' = Outgoing(v)
  BY <1>1, <1>4, OutgoingStays
<1>6. ASSUME NEW v \in UIs \ {u} PROVE Sync(v)'
  BY <1>1, <1>3, <1>5, OthersStayInSync
<1>7. Sync(u)'
  <2>1. Chained(Outgoing(u)', plan') /\ Arriving(toUi'[u], plan')
    BY <1>1, <1>3, <1>4 DEF Sync
  <2>2. Reflects(home'[u].now, Outgoing(u)', toServer'[u], toUi'[u], plan')
    BY <1>1 DEF Reflects
  <2>3. Sits(home'[u].now, home'[u].old)
    BY <1>1 DEF Sits
  <2>4. HasChange(Outgoing(u)') =>
          /\ toUi'[u] = <<>> /\ ~home'[u].now.invalidCommands
          /\ \A w \in UIs \ {u} : ~HasChange(Outgoing(w)')
    BY <1>1, <1>3, <1>5 DEF Sync, ChangesAlone
  <2>5. QED
    BY <1>2, <2>1, <2>2, <2>3, <2>4, SyncAfter
<1>8. QED
  BY <1>6, <1>7

LEMMA ComingKeepsSync ==
  ASSUME InSync, NEW u \in UIs, Comes(u), Orderly'
  PROVE  \A v \in UIs : Sync(v)'
<1> DEFINE r == Request(FALSE)
<1>1. /\ toUi' = toUi /\ plan' = plan
      /\ \A v \in UIs \ {u} : home'[v] = home[v]
      /\ ~home[u].now.mounted
      /\ toServer'[u] = Append(toServer[u], r)
      /\ \A v \in UIs \ {u} : toServer'[v] = toServer[v]
      /\ home'[u].old = home[u].old /\ home'[u].now.mounted
      /\ home'[u].now.invalidCommands = home[u].now.invalidCommands
      /\ Queue(home'[u].now) = Queue(home[u].now)
  BY DEF Comes, Sends
<1>2. Queue(home[u].old) = <<>>
  BY DEF Comes, Orderly
<1>3. PlanInv /\ \A v \in UIs : Sync(v)
  BY DEF InSync
<1>4. u \in Agreeing /\ Queue(home[u].now) = <<>>
  BY <1>1, <1>3 DEF Sync, Stays, Sits
<1>5. r \in Messages /\ ~IsChange(r)
  BY MessageFacts
<1> HIDE DEF r
<1> DEFINE s == toServer[u]
           t == Append(s, r)
<1>6. s \in Seq(Messages) /\ t \in Seq(Messages)
  BY <1>3, <1>5, OutgoingFacts, Appended
<1>7. Outgoing(u) = s /\ Outgoing(u)' = t
  <2>1. Queued(u) = <<>>
    BY <1>2, <1>4 DEF Queued
  <2>2. Queued(u)' = <<>>
    BY <1>1, <1>2, <1>4 DEF Queued, Queue
  <2>3. s \o <<>> = s /\ t \o <<>> = t
    BY <1>6, ConcatEmptySeq
  <2>4. QED
    BY <1>1, <2>1, <2>2, <2>3 DEF Outgoing
<1>8. /\ Chained(t, plan) /\ HasRequest(t)
      /\ HasChange(t) <=> HasChange(s)
  <2>1. Chained(s, plan)
    BY <1>3, <1>7 DEF Sync
  <2>2. QED
    BY <1>5, <1>6, <2>1, RequestIsAdded, Zenon
<1> HIDE DEF t
<1>9. \A v \in UIs : HasChange(Outgoing(v)') <=> HasChange(Outgoing(v))
  <2>1. \A v \in UIs \ {u} : Outgoing(v)' = Outgoing(v)
    BY <1>1, OutgoingStays
  <2>2. QED
    BY <1>7, <1>8, <2>1
<1>10. ASSUME NEW v \in UIs \ {u} PROVE Sync(v)'
  BY <1>1, <1>3, <1>9, OthersStayInSync
<1>11. Sync(u)'
  <2>1. Chained(Outgoing(u)', plan') /\ Arriving(toUi'[u], plan')
    BY <1>1, <1>3, <1>7, <1>8 DEF Sync
  <2>2. Reflects(home'[u].now, Outgoing(u)', toServer'[u], toUi'[u], plan')
    BY <1>1, <1>8 DEF Reflects, t
  <2>3. Sits(home'[u].now, home'[u].old)
    BY <1>1, <1>2 DEF Sits
  <2>4. HasChange(Outgoing(u)') =>
          /\ toUi'[u] = <<>> /\ ~home'[u].now.invalidCommands
          /\ \A w \in UIs \ {u} : ~HasChange(Outgoing(w)')
    BY <1>1, <1>3, <1>9 DEF Sync, ChangesAlone
  <2>5. QED
    BY <1>4, <2>1, <2>2, <2>3, <2>4, SyncAfter
<1>12. QED
  BY <1>10, <1>11


\* What one browser, or the server for it, does.
StepOf(u) ==
  \/ EditsPlan(u) \/ AsksToRestore(u) \/ SendsQueued(u) \/ Leaves(u)
  \/ Comes(u) \/ ServerTakes(u) \/ UiTakes(u)

LEMMA PlanStepIsOfOne ==
  ASSUME PlanSyncAssumption, PlanInv, PlanNext
  PROVE  \E u \in UIs : StepOf(u)
<1>1. PICK u \in UIs :
        \/ EditAction(u) \/ RestoreCommands(u) \/ Unmount(u) \/ Mount(u)
        \/ \E c \in {"now", "old"} : SendQueuedCommands(u, c)
        \/ ServerReceives(u) \/ UiReceives(u)
  BY StepsOfThePlan
<1>2. StepOf(u)
  BY <1>1, EditsAreTaken, RestoreIsAsked, UnmountIsTaken, MountIsTaken,
     SendIsTaken, AtTheServer, AtTheBrowser DEF StepOf
<1>3. QED
  BY <1>2

\* A change that crossed another one did so for good, and so did a browser
\* that left its listener behind.
LEMMA OrderIsLost ==
  ASSUME NEW u \in UIs, StepOf(u), Orderly'
  PROVE  Orderly
<1>1. overlapped => overlapped'
  BY DEF StepOf, EditsPlan, AsksToRestore, SendsQueued, Leaves, Comes,
         ServerTakes, UiTakes
<1>2. \A v \in UIs \ {u} : home'[v] = home[v]
  BY DEF StepOf, EditsPlan, AsksToRestore, SendsQueued, Leaves, Comes,
         ServerTakes, UiTakes, TakesChange
<1>3. home[u].old.listens => home'[u].old.listens
  BY DEF StepOf, EditsPlan, AsksToRestore, SendsQueued, Leaves, Comes,
         ServerTakes, UiTakes, TakesChange, Requeued
<1>4. \A v \in UIs : home[v].old.listens => home'[v].old.listens
  BY <1>2, <1>3
<1>5. QED
  BY <1>1, <1>4 DEF Orderly, LeaversAgree

LEMMA BrowsersBeginInSync == ASSUME PlanInit PROVE \A u \in UIs : Sync(u)
<1>1. SUFFICES ASSUME NEW u \in UIs PROVE Sync(u)
  OBVIOUS
<1>2. /\ toUi[u] = <<>> /\ home[u].now.mounted
      /\ Queue(home[u].old) = <<>> /\ home[u].now.commands = plan
  BY DEF PlanInit, NewHome, Queue
<1>3. \A v \in UIs : toServer[v] = <<>> /\ Queued(v) = <<>>
  BY DEF PlanInit, NewHome, Queue, Queued
<1>4. \A v \in UIs : Outgoing(v) = <<>>
  BY <1>3 DEF Outgoing
<1>5. ~HasChange(<<>>) /\ ~HasRequest(<<>>)
  BY DEF HasChange, HasRequest
<1>6. Chained(<<>>, plan) /\ Arriving(<<>>, plan) /\ EndOf(<<>>, plan) = plan
  BY DEF Chained, Arriving, EndOf
<1>7. QED
  BY <1>2, <1>3, <1>4, <1>5, <1>6
  DEF Sync, Reflects, Sits, ChangesAlone, Stays

LEMMA AgreeInvIsKept ==
  ASSUME PlanSyncAssumption, PlanInv, AgreeInv, [PlanNext]_planVars
  PROVE  AgreeInv'
<1>1. CASE PlanNext
  <2>1. PICK u \in UIs : StepOf(u)
    BY <1>1, PlanStepIsOfOne
  <2>2. SUFFICES ASSUME Orderly' PROVE \A v \in UIs : Sync(v)'
    BY DEF AgreeInv
  <2>3. InSync
    BY <2>1, <2>2, OrderIsLost DEF AgreeInv, InSync
  <2>4. QED
    BY <2>1, <2>2, <2>3, EditKeepsSync, RestoreKeepsSync, SendKeepsSync,
       LeavingKeepsSync, ComingKeepsSync, ServerKeepsSync, BrowserKeepsSync
    DEF StepOf
<1>2. CASE UNCHANGED planVars
  <2>1. (\A v \in UIs : Outgoing(v)' = Outgoing(v)) /\ Orderly' = Orderly
    BY <1>2 DEF planVars, Outgoing, Queued, Queue, Orderly, LeaversAgree
  <2>2. \A v \in UIs : Sync(v)' <=> Sync(v)
    BY <1>2, <2>1 DEF planVars, Sync, ChangesAlone, Stays
  <2>3. QED
    BY <2>1, <2>2 DEF AgreeInv
<1>3. QED
  BY <1>1, <1>2

LEMMA InSyncTheyAgree == ASSUME PlanInv, AgreeInv PROVE PlansAgree
<1>1. SUFFICES ASSUME Quiet, Orderly, NEW u \in UIs, Shown(u)
               PROVE  home[u].now.commands = plan
  BY DEF PlansAgree, Orderly
<1>2. /\ toServer[u] = <<>> /\ toUi[u] = <<>>
      /\ Queue(home[u].now) = <<>> /\ Queue(home[u].old) = <<>>
  BY <1>1 DEF Quiet, Queue
<1>3. Outgoing(u) = <<>>
  BY <1>2 DEF Outgoing, Queued
<1>4. ~HasRequest(<<>>) /\ NoneIsWhole(<<>>) /\ EndOf(<<>>, plan) = plan
  BY DEF HasRequest, NoneIsWhole, EndOf
<1>5. Reflects(home[u].now, <<>>, <<>>, <<>>, plan)
  BY <1>1, <1>2, <1>3 DEF AgreeInv, Sync
<1>6. QED
  BY <1>1, <1>4, <1>5 DEF Reflects, Shown


-----------------------------------------------------------------------------
(* Changes that crossed.                                                   *)

\* The messages of q are not about position i; the last one that is has x
\* there.
Silent(q, i) == \A k \in DOMAIN q : ~About(q[k], i)
Tells(q, i, x) ==
  \E k \in DOMAIN q :
    /\ About(q[k], i) /\ q[k].commands[i] = x
    /\ \A j \in DOMAIN q : j > k => ~About(q[j], i)

\* The plan has the first one's positions, and objects of no mission; a
\* change is one of some of its fields.
Plain(commands) ==
  Len(commands) = 2 /\ \A i \in 1 .. 2 : ~commands[i].interop
PlainChange(m) ==
  /\ IsChange(m) /\ ~m.restoreCommands /\ Plain(m.commands)
  /\ m.changedCommands # WholePlan
AllPlain(q) == \A k \in DOMAIN q : PlainChange(q[k])

LEMMA NothingTells ==
  ASSUME NEW i, NEW x
  PROVE  Silent(<<>>, i) /\ ~Tells(<<>>, i, x) /\ AllPlain(<<>>)
  BY DEF Silent, Tells, AllPlain

LEMMA AppendedTells ==
  ASSUME NEW q \in Seq(Messages), NEW m \in Messages, NEW i, NEW x
  PROVE  LET r == Append(q, m)
         IN  /\ Silent(r, i) <=> Silent(q, i) /\ ~About(m, i)
             /\ Tells(r, i, x) <=> IF About(m, i) THEN m.commands[i] = x
                                   ELSE Tells(q, i, x)
<1> DEFINE r == Append(q, m)
           n == Len(q)
<1>1. IsAppended(r, q, m)
  BY Appended
<1> HIDE DEF r
<1>2. /\ n \in Nat /\ DOMAIN q = 1 .. n /\ DOMAIN r = 1 .. n + 1
      /\ \A k \in 1 .. n : r[k] = q[k]
      /\ r[n + 1] = m
  BY <1>1 DEF IsAppended
<1> HIDE DEF n
<1>3. /\ \A k \in DOMAIN r : k \in DOMAIN q \/ k = n + 1
      /\ n + 1 \in DOMAIN r /\ n + 1 \notin DOMAIN q
      /\ \A k \in DOMAIN q : k \in DOMAIN r /\ n + 1 > k /\ ~(k > n + 1)
      /\ ~(n + 1 > n + 1)
  BY <1>2
<1>4. Silent(r, i) <=> Silent(q, i) /\ ~About(m, i)
  BY <1>2, <1>3 DEF Silent
<1>6. CASE About(m, i)
  <2>1. ASSUME NEW k \in DOMAIN q PROVE ~(\A j \in DOMAIN r : j > k =>
                                                 ~About(r[j], i))
    BY <1>2, <1>3, <1>6
  <2>2. Tells(r, i, x) <=> m.commands[i] = x
    BY <1>2, <1>3, <1>6, <2>1 DEF Tells
  <2>3. QED
    BY <1>4, <1>6, <2>2 DEF r
<1>7. CASE ~About(m, i)
  <2>1. Tells(r, i, x) => Tells(q, i, x)
    BY <1>2, <1>3, <1>7 DEF Tells
  <2>2. Tells(q, i, x) => Tells(r, i, x)
    BY <1>2, <1>3, <1>7 DEF Tells
  <2>3. QED
    BY <1>4, <1>7, <2>1, <2>2 DEF r
<1>8. QED
  BY <1>6, <1>7

LEMMA HeadTells ==
  ASSUME NEW q \in Seq(Messages), q # <<>>, NEW i, NEW x
  PROVE  LET m == Head(q)
             t == Tail(q)
         IN  /\ Silent(q, i) <=> Silent(t, i) /\ ~About(m, i)
             /\ Tells(q, i, x) <=>
                  \/ Tells(t, i, x)
                  \/ Silent(t, i) /\ About(m, i) /\ m.commands[i] = x
<1> DEFINE m == Head(q)
           t == Tail(q)
           n == Len(q)
<1>1. /\ m = q[1] /\ n \in Nat /\ n >= 1 /\ IsTailOf(t, q)
  BY WithoutHead DEF IsTailOf
<1> HIDE DEF m, t
<1>2. /\ DOMAIN q = 1 .. n /\ DOMAIN t = 1 .. n - 1
      /\ \A k \in 1 .. n - 1 : t[k] = q[k + 1]
  BY <1>1 DEF IsTailOf
<1> HIDE DEF n
<1>3. /\ \A k \in DOMAIN t : /\ k + 1 \in DOMAIN q /\ q[k + 1] = t[k]
                               /\ k + 1 > 1 /\ k \in Nat
      /\ \A k \in DOMAIN q :
           k \in Nat /\ (k = 1 \/ (/\ k > 1 /\ k - 1 \in DOMAIN t
                                  /\ q[k] = t[k - 1]))
      /\ 1 \in DOMAIN q
  <2>1. ASSUME NEW k \in DOMAIN q, k # 1
        PROVE  k > 1 /\ k - 1 \in DOMAIN t /\ q[k] = t[k - 1]
    <3>1. k \in 1 .. n /\ k - 1 \in 1 .. n - 1 /\ (k - 1) + 1 = k /\ k > 1
      BY <1>1, <1>2, <2>1
    <3>2. QED
      BY <1>2, <3>1
  <2>2. QED
    BY <1>1, <1>2, <2>1
<1>4. Silent(q, i) <=> Silent(t, i) /\ ~About(m, i)
  BY <1>1, <1>3 DEF Silent
<1>6. ASSUME Tells(t, i, x) PROVE Tells(q, i, x)
  <2>1. PICK k \in DOMAIN t :
          /\ About(t[k], i) /\ t[k].commands[i] = x
          /\ \A j \in DOMAIN t : j > k => ~About(t[j], i)
    BY <1>6 DEF Tells
  <2>2. \A j \in DOMAIN q : j > k + 1 => ~About(q[j], i)
    <3>1. ASSUME NEW j \in DOMAIN q, j > k + 1 PROVE ~About(q[j], i)
      <4>1. j - 1 \in DOMAIN t /\ q[j] = t[j - 1] /\ j - 1 > k
        BY <1>3, <3>1
      <4>2. QED
        BY <2>1, <4>1
    <3>2. QED
      BY <3>1
  <2>3. k + 1 \in DOMAIN q /\ q[k + 1] = t[k]
    BY <1>3
  <2>4. QED
    BY <2>1, <2>2, <2>3 DEF Tells
<1>7. ASSUME Silent(t, i), About(m, i), m.commands[i] = x
      PROVE  Tells(q, i, x)
  BY <1>1, <1>3, <1>7 DEF Tells, Silent
<1>8. ASSUME Tells(q, i, x), ~Tells(t, i, x)
      PROVE  Silent(t, i) /\ About(m, i) /\ m.commands[i] = x
  <2>1. PICK k \in DOMAIN q :
          /\ About(q[k], i) /\ q[k].commands[i] = x
          /\ \A j \in DOMAIN q : j > k => ~About(q[j], i)
    BY <1>8 DEF Tells
  <2>2. CASE k = 1
    <3>1. \A j \in DOMAIN t : ~About(t[j], i)
      BY <1>3, <2>1, <2>2
    <3>2. QED
      BY <1>1, <2>1, <2>2, <3>1 DEF Silent
  <2>3. CASE k # 1
    <3>1. k - 1 \in DOMAIN t /\ q[k] = t[k - 1] /\ k \in Nat
      BY <1>3, <2>3
    <3>2. \A j \in DOMAIN t : j > k - 1 => ~About(t[j], i)
      <4>1. ASSUME NEW j \in DOMAIN t, j > k - 1 PROVE ~About(t[j], i)
        <5>1. j + 1 \in DOMAIN q /\ q[j + 1] = t[j] /\ j + 1 > k
          BY <1>3, <3>1, <4>1
        <5>2. QED
          BY <2>1, <5>1
      <4>2. QED
        BY <4>1
    <3>3. Tells(t, i, x)
      BY <2>1, <3>1, <3>2 DEF Tells
    <3>4. QED
      BY <1>8, <3>3
  <2>4. QED
    BY <2>2, <2>3
<1>9. QED
  BY <1>4, <1>6, <1>7, <1>8 DEF m, t


LEMMA PlainQueues ==
  ASSUME NEW q \in Seq(Messages)
  PROVE  /\ \A m \in Messages :
              AllPlain(Append(q, m)) <=> AllPlain(q) /\ PlainChange(m)
         /\ q # <<>> =>
              (AllPlain(q) <=> AllPlain(Tail(q)) /\ PlainChange(Head(q)))
<1>1. ASSUME NEW m \in Messages
      PROVE  AllPlain(Append(q, m)) <=> AllPlain(q) /\ PlainChange(m)
  <2> DEFINE r == Append(q, m)
             n == Len(q)
  <2>1. IsAppended(r, q, m)
    BY Appended
  <2> HIDE DEF r
  <2>2. /\ n \in Nat /\ DOMAIN q = 1 .. n /\ DOMAIN r = 1 .. n + 1
        /\ \A k \in 1 .. n : r[k] = q[k]
        /\ r[n + 1] = m
    BY <2>1 DEF IsAppended
  <2> HIDE DEF n
  <2>3. AllPlain(r) <=> AllPlain(q) /\ PlainChange(m)
    <3>1. /\ \A k \in DOMAIN r : k \in DOMAIN q \/ k = n + 1
          /\ n + 1 \in DOMAIN r /\ \A k \in DOMAIN q : k \in DOMAIN r
      BY <2>2
    <3>2. QED
      BY <2>2, <3>1 DEF AllPlain
  <2>4. QED
    BY <2>3 DEF r
<1>2. ASSUME q # <<>>
      PROVE  AllPlain(q) <=> AllPlain(Tail(q)) /\ PlainChange(Head(q))
  <2> DEFINE m == Head(q)
             t == Tail(q)
             n == Len(q)
  <2>1. m = q[1] /\ n \in Nat /\ n >= 1 /\ IsTailOf(t, q)
    BY <1>2, WithoutHead DEF IsTailOf
  <2> HIDE DEF m, t
  <2>2. /\ DOMAIN q = 1 .. n /\ DOMAIN t = 1 .. n - 1
        /\ \A k \in 1 .. n - 1 : t[k] = q[k + 1]
    BY <2>1 DEF IsTailOf
  <2> HIDE DEF n
  <2>3. AllPlain(t) /\ PlainChange(m) => AllPlain(q)
    <3>1. SUFFICES ASSUME AllPlain(t), PlainChange(m), NEW k \in DOMAIN q
                   PROVE  PlainChange(q[k])
      BY DEF AllPlain
    <3>2. CASE k = 1
      BY <2>1, <3>1, <3>2
    <3>3. CASE k # 1
      <4>1. k - 1 \in 1 .. n - 1 /\ (k - 1) + 1 = k
        BY <2>1, <2>2, <3>3
      <4>2. q[k] = t[k - 1] /\ k - 1 \in DOMAIN t
        BY <2>2, <4>1
      <4>3. QED
        BY <3>1, <4>2 DEF AllPlain
    <3>4. QED
      BY <3>2, <3>3
  <2>4. AllPlain(q) => AllPlain(t) /\ PlainChange(m)
    BY <2>1, <2>2 DEF AllPlain
  <2>5. QED
    BY <2>3, <2>4 DEF m, t
<1>3. QED
  BY <1>1, <1>2

\* A change at the end of a queue, joined with the last one or not.
LEMMA ExtendedTells ==
  ASSUME NEW q \in Seq(PlanChanges), NEW c \in PlanChanges, NEW r,
         Extends(r, q, c), NEW i \in Nat, NEW x, c.commands[i] = x
  PROVE  /\ About(c, i) \/ Tells(q, i, x) => Tells(r, i, x)
         /\ ~About(c, i) /\ Silent(q, i) => Silent(r, i)
<1>1. q \in Seq(Messages) /\ c \in Messages
  <2>1. PlanChanges \subseteq Messages
    BY DEF Messages
  <2>2. QED
    BY <2>1
<1>2. CASE r = Append(q, c)
  BY <1>1, <1>2, AppendedTells
<1>3. ASSUME NEW m, q # <<>>, Joins(m, Last(q), c), r = Append(Front(q), m)
      PROVE  /\ About(c, i) \/ Tells(q, i, x) => Tells(r, i, x)
             /\ ~About(c, i) /\ Silent(q, i) => Silent(r, i)
  <2> DEFINE f == Front(q)
             l == Last(q)
  <2>1. f \in Seq(Messages) /\ l \in Messages /\ q = Append(f, l)
    <3>1. /\ f \in Seq(Messages) /\ l \in Messages /\ l = q[Len(q)]
          /\ Len(q) \in Nat /\ Len(q) >= 1 /\ Len(f) = Len(q) - 1
          /\ DOMAIN q = 1 .. Len(q)
          /\ \A k \in 1 .. Len(q) - 1 : f[k] = q[k]
      BY <1>1, <1>3, FrontFacts
    <3> DEFINE g == Append(f, l)
    <3> HIDE DEF f, l
    <3>2. g \in Seq(Messages) /\ IsAppended(g, f, l)
      BY <3>1, Appended
    <3> HIDE DEF g
    <3>3. Len(g) = Len(q) /\ \A k \in 1 .. Len(g) : g[k] = q[k]
      BY <3>1, <3>2 DEF IsAppended
    <3>4. g = q
      BY <1>1, <3>2, <3>3, SeqEqual
    <3>5. QED
      BY <3>1, <3>4 DEF g
  <2>2. /\ m \in Messages /\ m.commands[i] = x
        /\ About(m, i) <=> About(l, i) \/ About(c, i)
    BY <1>3, MessageFacts DEF Joins
  <2> HIDE DEF f, l
  <2>3. r = Append(f, m)
    BY <1>3 DEF f
  <2>4. /\ Silent(q, i) <=> Silent(f, i) /\ ~About(l, i)
        /\ Tells(q, i, x) <=> IF About(l, i) THEN l.commands[i] = x
                              ELSE Tells(f, i, x)
    BY <2>1, AppendedTells
  <2>5. /\ Silent(r, i) <=> Silent(f, i) /\ ~About(m, i)
        /\ Tells(r, i, x) <=> IF About(m, i) THEN m.commands[i] = x
                              ELSE Tells(f, i, x)
    BY <2>1, <2>2, <2>3, AppendedTells
  <2>6. QED
    BY <2>2, <2>4, <2>5
<1>4. QED
  BY <1>2, <1>3 DEF Extends

LEMMA ExtendedIsPlain ==
  ASSUME NEW q \in Seq(PlanChanges), AllPlain(q), NEW c, PlainChange(c),
         c \in PlanChanges, NEW r, Extends(r, q, c)
  PROVE  AllPlain(r)
<1>1. q \in Seq(Messages) /\ c \in Messages
  <2>1. PlanChanges \subseteq Messages
    BY DEF Messages
  <2>2. QED
    BY <2>1
<1>2. CASE r = Append(q, c)
  BY <1>1, <1>2, PlainQueues
<1>3. ASSUME NEW m, q # <<>>, Joins(m, Last(q), c), r = Append(Front(q), m)
      PROVE  AllPlain(r)
  <2> DEFINE f == Front(q)
  <2>1. f \in Seq(Messages) /\ AllPlain(f)
    <3>1. /\ f \in Seq(Messages) /\ Len(q) \in Nat
          /\ DOMAIN q = 1 .. Len(q) /\ DOMAIN f = 1 .. Len(q) - 1
          /\ \A k \in 1 .. Len(q) - 1 : f[k] = q[k]
      BY <1>1, <1>3, FrontFacts
    <3>2. QED
      BY <3>1 DEF AllPlain
  <2>2. m \in Messages /\ PlainChange(m)
    BY <1>3, MessageFacts DEF Joins, PlainChange
  <2> HIDE DEF f
  <2>3. QED
    BY <1>3, <2>1, <2>2, PlainQueues DEF f
<1>4. QED
  BY <1>2, <1>3 DEF Extends


\* Nobody else edits the positions that u's changes are about; u does not
\* edit those that the changes it is sent are about.
OfEditor(q, u) == \A i \in 1 .. 2 : Silent(q, i) \/ editors[i] = {u}
OfOthers(q, u) ==
  \A i \in 1 .. 2 : Silent(q, i) \/ (editors[i] # {} /\ u \notin editors[i])

Field(u, i) == home[u].now.commands[i]

Apart(u) ==
  /\ home[u].now.mounted /\ ~home[u].now.invalidCommands
  /\ Queue(home[u].old) = <<>> /\ ~home[u].old.listens
  /\ Plain(home[u].now.commands)
  /\ AllPlain(Queue(home[u].now)) /\ AllPlain(toServer[u]) /\ AllPlain(toUi[u])
  /\ OfEditor(Queue(home[u].now), u) /\ OfEditor(toServer[u], u)
  /\ OfOthers(toUi[u], u)

\* The last change about i on the way from u to v has what u shows; if none
\* is on the way, v shows it.
Reaches(u, v, i) ==
  \/ Tells(Queue(home[u].now), i, Field(u, i))
  \/ /\ Silent(Queue(home[u].now), i)
     /\ \/ Tells(toServer[u], i, Field(u, i))
        \/ /\ Silent(toServer[u], i)
           /\ \/ Tells(toUi[v], i, Field(u, i))
              \/ Silent(toUi[v], i) /\ Field(u, i) = Field(v, i)

Meets(u, v) ==
  \A i \in 1 .. 2 : /\ editors[i] = {u} => Reaches(u, v, i)
                    /\ editors[i] = {} => Field(u, i) = Field(v, i)

Merging == \A u \in UIs : Apart(u) /\ \A v \in UIs \ {u} : Meets(u, v)

EditorsOK == \A i \in 1 .. MaxLength : IsFiniteSet(editors[i])

MergeInv == EditorsOK /\ (OwnFieldsOnly => Merging)

\* Who edited what is not forgotten.
Remembers ==
  /\ reshaped => reshaped'
  /\ remounts' = remounts \/ remounts' = remounts + 1
  /\ \/ editors' = editors
     \/ \E u, i : editors' = [editors EXCEPT ![i] = @ \cup {u}]

LEMMA NothingIsForgotten ==
  ASSUME PlanNext
  PROVE  Remembers
<1>1. PICK u \in UIs :
        \/ EditAction(u) \/ RestoreCommands(u) \/ Unmount(u) \/ Mount(u)
        \/ \E c \in {"now", "old"} : SendQueuedCommands(u, c)
        \/ ServerReceives(u) \/ UiReceives(u)
  BY StepsOfThePlan
<1>2. CASE EditAction(u)
  <2>1. ASSUME NEW i, ChangedCommandField(u, i) PROVE Remembers
    BY <2>1 DEF ChangedCommandField, Changes, Remembers
  <2>2. ASSUME NEW commands, NEW range, Reshapes(u, commands, range)
        PROVE  Remembers
    BY <2>2 DEF Reshapes, Changes, Remembers
  <2>3. CASE ClearCommands(u)
    BY <2>3 DEF ClearCommands, Remembers
  <2>4. QED
    BY <1>2, <2>1, <2>2, <2>3
    DEF EditAction, AddCommand, DeleteCommand, OnSortEnd
<1>3. CASE RestoreCommands(u) \/ Unmount(u) \/ Mount(u)
  <2>1. /\ editors' = editors /\ reshaped' = reshaped
        /\ remounts' = remounts \/ remounts' = remounts + 1
    BY <1>3 DEF RestoreCommands, Unmount, Mount
  <2>2. QED
    BY <2>1 DEF Remembers
<1>4. CASE \E c \in {"now", "old"} : SendQueuedCommands(u, c)
  BY <1>4 DEF SendQueuedCommands, Remembers
<1>5. CASE ServerReceives(u)
  BY <1>5, Zenon DEF ServerReceives, Remembers
<1>6. CASE UiReceives(u)
  <2>1. /\ UNCHANGED <<remounts, editors>>
        /\ UNCHANGED reshaped \/ reshaped' = TRUE
    BY <1>6, Zenon DEF UiReceives
  <2>2. QED
    BY <2>1 DEF Remembers
<1>7. QED
  BY <1>1, <1>2, <1>3, <1>4, <1>5, <1>6

LEMMA OnceShared ==
  ASSUME PlanInv, EditorsOK, Remembers
  PROVE  EditorsOK' /\ (OwnFieldsOnly' => OwnFieldsOnly)
<1>1. /\ editors \in [1 .. MaxLength -> SUBSET UIs]
      /\ remounts \in Nat /\ reshaped \in BOOLEAN
  BY DEF PlanInv, CountersOK
<1>2. /\ DOMAIN editors' = 1 .. MaxLength
      /\ \A i \in 1 .. MaxLength :
           editors'[i] = editors[i] \/ \E u : editors'[i] = editors[i] \cup {u}
  BY <1>1 DEF Remembers
<1>3. \A i \in 1 .. MaxLength :
        /\ IsFiniteSet(editors[i]) /\ IsFiniteSet(editors'[i])
        /\ editors[i] \subseteq editors'[i]
  BY <1>2, FS_AddElement DEF EditorsOK
<1>4. \A i \in 1 .. MaxLength :
        Cardinality(editors'[i]) <= 1 => Cardinality(editors[i]) <= 1
  <2>1. SUFFICES ASSUME NEW i \in 1 .. MaxLength
                 PROVE  Cardinality(editors[i]) <= Cardinality(editors'[i])
                        /\ Cardinality(editors[i]) \in Nat
                        /\ Cardinality(editors'[i]) \in Nat
    OBVIOUS
  <2>2. QED
    BY <1>3, FS_Subset, FS_CardinalityType
<1>5. DOMAIN editors = 1 .. MaxLength
  BY <1>1
<1>6. remounts' = 0 => remounts = 0
  BY <1>1 DEF Remembers
<1>7. QED
  BY <1>1, <1>2, <1>3, <1>4, <1>5, <1>6
  DEF EditorsOK, OwnFieldsOnly, Remembers

LEMMA EditorsAreOne ==
  ASSUME PlanSyncAssumption, PlanInv, EditorsOK, OwnFieldsOnly,
         NEW i \in 1 .. 2
  PROVE  editors[i] = {} \/ \E u \in UIs : editors[i] = {u}
<1>1. /\ i \in 1 .. MaxLength
      /\ editors \in [1 .. MaxLength -> SUBSET UIs]
  BY DEF PlanSyncAssumption, PlanInv, CountersOK
<1>2. IsFiniteSet(editors[i]) /\ Cardinality(editors[i]) <= 1
  BY <1>1 DEF EditorsOK, OwnFieldsOnly
<1>3. Cardinality(editors[i]) \in Nat
  BY <1>2, FS_CardinalityType
<1>4. Cardinality(editors[i]) = 0 => editors[i] = {}
  BY <1>2, FS_EmptySet
<1>5. Cardinality(editors[i]) = 1 => \E u : editors[i] = {u}
  BY <1>2, FS_Singleton
<1>6. QED
  BY <1>1, <1>2, <1>3, <1>4, <1>5

LEMMA MergedAtRest ==
  ASSUME PlanSyncAssumption, PlanInv, MergeInv
  PROVE  EditsMerge
<1>1. SUFFICES ASSUME Quiet, OwnFieldsOnly, NEW u \in UIs, NEW v \in UIs
               PROVE  home[u].now.commands = home[v].now.commands
  BY DEF EditsMerge
<1>2. \A w \in UIs : /\ toServer[w] = <<>> /\ toUi[w] = <<>>
                     /\ Queue(home[w].now) = <<>>
  BY <1>1 DEF Quiet, Queue
<1>3. Merging
  BY <1>1 DEF MergeInv
<1>4. ASSUME NEW i \in 1 .. 2 PROVE Field(u, i) = Field(v, i)
  <2>1. ASSUME NEW w \in UIs, editors[i] = {w}, NEW x \in UIs
        PROVE  Field(w, i) = Field(x, i)
    <3>1. CASE x = w
      BY <3>1
    <3>2. CASE x # w
      <4>1. Reaches(w, x, i)
        BY <1>3, <2>1, <3>2 DEF Merging, Meets
      <4>2. QED
        BY <1>2, <2>1, <4>1, NothingTells DEF Reaches
    <3>3. QED
      BY <3>1, <3>2
  <2>2. CASE editors[i] = {}
    <3>1. u # v => Meets(u, v)
      BY <1>3 DEF Merging
    <3>2. QED
      BY <2>2, <3>1 DEF Meets
  <2>3. QED
    BY <1>1, <2>1, <2>2, EditorsAreOne DEF MergeInv
<1>5. \A w \in UIs :
        home[w].now.commands \in Seq(Commands) /\ Len(home[w].now.commands) = 2
  <2>1. ASSUME NEW w \in UIs
        PROVE  home[w].now.commands \in Plans /\ Len(home[w].now.commands) = 2
    BY <1>3, HomeFacts DEF Merging, Apart, Plain, PlanInv, Sound
  <2>2. QED
    BY <2>1, PlanFacts
<1> HIDE DEF Commands
<1>6. QED
  BY <1>4, <1>5, SeqEqual DEF Field


\* What the editing of a field does.
EditsField(u, i) ==
  /\ i \in 1 .. 2 /\ editors' = [editors EXCEPT ![i] = @ \cup {u}]
  /\ toUi' = toUi
  /\ \E new \in Plans :
       /\ Plain(new) /\ \A j \in 1 .. 2 : j # i => new[j] = Field(u, j)
       /\ TakesChange(u, new, Between(i, i))

LEMMA FieldIsEdited ==
  ASSUME PlanSyncAssumption, PlanInv, Merging, NEW u \in UIs, NEW i,
         ChangedCommandField(u, i)
  PROVE  EditsField(u, i)
<1> DEFINE p == home[u].now.commands
           new == [p EXCEPT ![i].value = edits + 1]
<1>1. /\ i \in DOMAIN p /\ editors' = [editors EXCEPT ![i] = @ \cup {u}]
      /\ Changes(u, new, Between(i, i))
  BY DEF ChangedCommandField
<1>2. p \in Plans /\ Plain(p)
  BY HomeFacts DEF Merging, Apart, PlanInv, Sound
<1>3. edits + 1 \in Nat
  BY DEF PlanInv, CountersOK
<1> HIDE DEF p
<1>4. /\ Edited(p, new, Between(i, i)) /\ DOMAIN new = DOMAIN p
      /\ \A j \in DOMAIN p : j # i => new[j] = p[j]
      /\ \A j \in DOMAIN p : new[j].interop = p[j].interop
  BY <1>1, <1>2, <1>3, FieldEdited
<1> HIDE DEF new
<1>5. new \in Plans
  BY <1>4 DEF Edited
<1>6. DOMAIN p = 1 .. 2 /\ Plain(new)
  <2>1. /\ DOMAIN p = 1 .. Len(p) /\ Len(p) = 2
        /\ DOMAIN new = 1 .. Len(new) /\ Len(new) \in Nat
    BY <1>2, <1>5, PlanFacts DEF Plain
  <2>2. Len(new) = 2
    BY <1>4, <2>1
  <2>3. QED
    BY <1>2, <1>4, <2>1, <2>2 DEF Plain
<1>7. SetHomeState(u, home[u].now, new, Between(i, i)) /\ toUi' = toUi
      /\ UNCHANGED <<toUi, plan>>
  BY <1>1 DEF Changes
<1>8. TakesChange(u, new, Between(i, i))
  BY <1>4, <1>7, EditIsTaken DEF p
<1>9. QED
  BY <1>1, <1>4, <1>5, <1>6, <1>7, <1>8 DEF EditsField, Field, p

LEMMA EditsAreMerged ==
  ASSUME PlanSyncAssumption, PlanInv, Merging, NEW u \in UIs, NEW i,
         EditsField(u, i), editors'[i] = {u}
  PROVE  Merging'
<1>1. PICK new \in Plans :
        /\ Plain(new) /\ \A j \in 1 .. 2 : j # i => new[j] = Field(u, j)
        /\ TakesChange(u, new, Between(i, i))
  BY DEF EditsField
<1> DEFINE c == Change(new, Between(i, i), FALSE)
           q == Queue(home[u].now)
           s == toServer[u]
<1>2. /\ c \in PlanChanges /\ c \in Messages /\ PlainChange(c)
      /\ c.commands = new /\ \A j \in 1 .. 2 : About(c, j) <=> j = i
  <2>1. i \in Nat \ {0}
    BY DEF EditsField
  <2>2. Between(i, i) \in Ranges /\ Between(i, i) # WholePlan
    BY <2>1, IntervalFacts
  <2>3. /\ c \in PlanChanges /\ c.commands = new /\ ~c.restoreCommands
        /\ c.changedCommands = Between(i, i)
    BY <1>1, <2>2, ChangeFacts, Zenon
  <2>4. c \in Messages /\ IsChange(c)
    BY <2>3, MessageFacts
  <2>5. \A j \in 1 .. 2 : About(c, j) <=> j = i
    <3>1. Between(i, i).startIndex = i /\ Between(i, i).endIndex = i
      BY DEF Between
    <3>2. \A j \in 1 .. 2 : j \in i .. i <=> j = i
      BY <2>1
    <3> HIDE DEF c
    <3>3. QED
      BY <2>3, <3>1, <3>2 DEF About
  <2>6. QED
    BY <1>1, <2>2, <2>3, <2>4, <2>5 DEF PlainChange
<1> HIDE DEF c
<1>3. /\ home'[u].old = home[u].old /\ home'[u].now.commands = new
      /\ ~home'[u].now.invalidCommands
      /\ home'[u].now.mounted = home[u].now.mounted
      /\ \A v \in UIs \ {u} : home'[v] = home[v]
      /\ \/ /\ q = <<>> /\ Queue(home'[u].now) = <<>> /\ Sends(u, c)
         \/ /\ Extends(Queue(home'[u].now), q, c) /\ toServer' = toServer
  BY <1>1 DEF TakesChange, c, q
<1>4. /\ toUi' = toUi /\ i \in 1 .. 2
      /\ \A j \in 1 .. 2 : j # i => editors'[j] = editors[j]
      /\ editors[i] \subseteq {u}
  <2>1. editors \in [1 .. MaxLength -> SUBSET UIs] /\ MaxLength \in Nat
        /\ MaxLength >= 2
    BY DEF PlanSyncAssumption, PlanInv, CountersOK
  <2>2. editors' = [editors EXCEPT ![i] = @ \cup {u}] /\ i \in 1 .. 2
    BY DEF EditsField
  <2>3. i \in 1 .. MaxLength
    BY <2>1, <2>2
  <2>4. editors'[i] = editors[i] \cup {u}
    BY <2>1, <2>2, <2>3
  <2>5. QED
    BY <2>1, <2>2, <2>4 DEF EditsField
<1>5. /\ q \in Seq(PlanChanges) /\ s \in Seq(Messages)
      /\ Queue(home'[u].now) \in Seq(PlanChanges) \/ TRUE
  BY HomeFacts, ComponentFacts DEF PlanInv, ChannelsOK
<1>6. Apart(u) /\ \A v \in UIs \ {u} : Meets(u, v) /\ Apart(v) /\ Meets(v, u)
  BY DEF Merging
<1> HIDE DEF q, s
\* What has changed in what u has not sent.
<1>7. ASSUME NEW j \in 1 .. 2
      PROVE  /\ \/ Silent(Queue(home'[u].now), j)
                \/ j = i \/ editors[j] = {u}
             /\ Silent(toServer'[u], j) \/ j = i \/ editors[j] = {u}
             /\ j = i => \/ Tells(Queue(home'[u].now), j, new[j])
                         \/ /\ Silent(Queue(home'[u].now), j)
                            /\ Tells(toServer'[u], j, new[j])
             /\ j # i => \A v \in UIs \ {u} :
                  editors[j] = {u} => Reaches(u, v, j)'
  <2>1. j \in Nat /\ c.commands[j] = new[j] /\ (About(c, j) <=> j = i)
    BY <1>2
  <2>2. j # i => new[j] = Field(u, j)
    BY <1>1
  <2>3. Field(u, j)' = new[j] /\ \A v \in UIs \ {u} : Field(v, j)' = Field(v, j)
    BY <1>3 DEF Field
  <2>4. CASE q = <<>> /\ Queue(home'[u].now) = <<>> /\ Sends(u, c)
    <3>1. toServer'[u] = Append(s, c)
      BY <2>4 DEF Sends, s
    <3>2. /\ Silent(toServer'[u], j) <=> Silent(s, j) /\ ~About(c, j)
          /\ Tells(toServer'[u], j, new[j]) <=>
               IF About(c, j) THEN c.commands[j] = new[j]
               ELSE Tells(s, j, new[j])
      BY <1>2, <1>5, <3>1, AppendedTells
    <3>3. Silent(<<>>, j) /\ ~Tells(<<>>, j, new[j])
      BY NothingTells
    <3>4. j # i => \A v \in UIs \ {u} :
                     editors[j] = {u} => Reaches(u, v, j)'
      <4>1. SUFFICES ASSUME j # i, NEW v \in UIs \ {u}, editors[j] = {u}
                     PROVE  Reaches(u, v, j)'
        OBVIOUS
      <4>2. Reaches(u, v, j)
        BY <1>6, <4>1 DEF Meets
      <4>3. \/ Tells(s, j, new[j])
            \/ /\ Silent(s, j)
               /\ \/ Tells(toUi[v], j, new[j])
                  \/ Silent(toUi[v], j) /\ new[j] = Field(v, j)
        BY <2>2, <2>4, <3>3, <4>1, <4>2 DEF Reaches, q, s
      <4>4. \/ Tells(toServer'[u], j, new[j])
            \/ /\ Silent(toServer'[u], j)
               /\ \/ Tells(toUi'[v], j, new[j])
                  \/ Silent(toUi'[v], j) /\ new[j] = Field(v, j)'
        BY <1>4, <2>1, <2>3, <3>2, <4>1, <4>3
      <4>5. QED
        BY <2>3, <2>4, <3>3, <4>4 DEF Reaches
    <3>5. QED
      BY <1>6, <2>1, <2>4, <3>2, <3>3, <3>4 DEF Apart, OfEditor, s
  <2>5. CASE Extends(Queue(home'[u].now), q, c) /\ toServer' = toServer
    <3> DEFINE r == Queue(home'[u].now)
    <3>1. /\ About(c, j) \/ Tells(q, j, new[j]) => Tells(r, j, new[j])
          /\ ~About(c, j) /\ Silent(q, j) => Silent(r, j)
      <4> HIDE DEF r
      <4>1. Extends(r, q, c)
        BY <2>5 DEF r
      <4>2. QED
        BY <1>2, <1>5, <2>1, <4>1, ExtendedTells
    <3>2. j # i => \A v \in UIs \ {u} :
                     editors[j] = {u} => Reaches(u, v, j)'
      <4>1. SUFFICES ASSUME j # i, NEW v \in UIs \ {u}, editors[j] = {u}
                     PROVE  Reaches(u, v, j)'
        OBVIOUS
      <4>2. Reaches(u, v, j)
        BY <1>6, <4>1 DEF Meets
      <4>3. \/ Tells(q, j, new[j])
            \/ /\ Silent(q, j)
               /\ \/ Tells(s, j, new[j])
                  \/ /\ Silent(s, j)
                     /\ \/ Tells(toUi[v], j, new[j])
                        \/ Silent(toUi[v], j) /\ new[j] = Field(v, j)
        BY <2>2, <4>1, <4>2 DEF Reaches, q, s
      <4>4. \/ Tells(r, j, new[j])
            \/ /\ Silent(r, j)
               /\ \/ Tells(toServer'[u], j, new[j])
                  \/ /\ Silent(toServer'[u], j)
                     /\ \/ Tells(toUi'[v], j, new[j])
                        \/ Silent(toUi'[v], j) /\ new[j] = Field(v, j)'
        BY <1>4, <2>1, <2>3, <2>5, <3>1, <4>1, <4>3 DEF s
      <4>5. QED
        BY <2>3, <4>4 DEF Reaches
    <3>3. QED
      BY <1>6, <2>1, <2>5, <3>1, <3>2 DEF Apart, OfEditor, q
  <2>6. QED
    BY <1>3, <2>4, <2>5
<1>8. AllPlain(Queue(home'[u].now)) /\ AllPlain(toServer'[u])
  <2>1. AllPlain(q) /\ AllPlain(s)
    BY <1>6 DEF Apart, q, s
  <2>2. CASE q = <<>> /\ Queue(home'[u].now) = <<>> /\ Sends(u, c)
    <3>1. toServer'[u] = Append(s, c)
      BY <2>2 DEF Sends, s
    <3>2. AllPlain(toServer'[u])
      BY <1>2, <1>5, <2>1, <3>1, PlainQueues
    <3>3. QED
      BY <2>1, <2>2, <3>2
  <2>3. CASE Extends(Queue(home'[u].now), q, c) /\ toServer' = toServer
    BY <1>2, <1>5, <2>1, <2>3, ExtendedIsPlain DEF s
  <2>4. QED
    BY <1>3, <2>2, <2>3
<1>9. /\ \A v \in UIs \ {u} : toServer'[v] = toServer[v]
      /\ \A j \in 1 .. 2 : editors'[j] = {u} <=> j = i \/ editors[j] = {u}
  <2>1. \A v \in UIs \ {u} : toServer'[v] = toServer[v]
    BY <1>3 DEF Sends
  <2>2. QED
    BY <1>4, <2>1
<1>10. Apart(u)'
  <2>1. OfEditor(Queue(home[u].now), u)' /\ OfEditor(toServer[u], u)'
    BY <1>7, <1>9 DEF OfEditor, Queue
  <2>2. OfOthers(toUi[u], u)'
    BY <1>4, <1>6 DEF Apart, OfOthers
  <2>3. QED
    <3>1. /\ home[u].now.mounted /\ Queue(home[u].old) = <<>>
          /\ ~home[u].old.listens /\ AllPlain(toUi[u])
      BY <1>6 DEF Apart
    <3>2. AllPlain(Queue(home[u].now))' /\ AllPlain(toServer[u])'
      BY <1>8 DEF AllPlain, Queue
    <3>3. Plain(home[u].now.commands)'
      BY <1>1, <1>3 DEF Plain
    <3>4. Queue(home[u].old)' = <<>>
      BY <1>3, <3>1 DEF Queue
    <3>5. AllPlain(toUi[u])'
      BY <1>4, <3>1
    <3>6. home'[u].now.mounted /\ ~home'[u].now.invalidCommands
          /\ ~home'[u].old.listens
      BY <1>3, <3>1
    <3>7. QED
      BY <2>1, <2>2, <3>2, <3>3, <3>4, <3>5, <3>6 DEF Apart
<1>11. ASSUME NEW v \in UIs \ {u} PROVE Apart(v)'
  <2>1. OfEditor(Queue(home[v].now), v)' /\ OfEditor(toServer[v], v)'
    <3>1. Queue(home[v].now)' = Queue(home[v].now) /\ toServer'[v] = toServer[v]
      BY <1>3, <1>9 DEF Queue
    <3>2. \A j \in 1 .. 2 : editors[j] = {v} => editors'[j] = {v}
      BY <1>4, <1>11
    <3>3. QED
      BY <1>6, <1>11, <3>1, <3>2 DEF Apart, OfEditor
  <2>2. OfOthers(toUi[v], v)'
    BY <1>4, <1>6, <1>9 DEF Apart, OfOthers
  <2>3. QED
    <3>1. Queue(home[v].now)' = Queue(home[v].now)
          /\ Queue(home[v].old)' = Queue(home[v].old)
      BY <1>3 DEF Queue
    <3>2. AllPlain(Queue(home[v].now))' /\ AllPlain(toServer[v])'
          /\ AllPlain(toUi[v])' /\ Plain(home[v].now.commands)'
      BY <1>3, <1>4, <1>6, <1>9, <3>1 DEF Apart
    <3>3. QED
      BY <1>3, <1>6, <2>1, <2>2, <3>1, <3>2 DEF Apart
<1>12. ASSUME NEW v \in UIs \ {u} PROVE Meets(u, v)'
  <2>1. SUFFICES ASSUME NEW j \in 1 .. 2
                 PROVE  /\ editors'[j] = {u} => Reaches(u, v, j)'
                        /\ editors'[j] = {} => Field(u, j)' = Field(v, j)'
    BY DEF Meets
  <2>2. Field(u, j)' = new[j] /\ Field(v, j)' = Field(v, j)
    BY <1>3 DEF Field
  <2>3. CASE j = i
    <3>1. \/ Tells(Queue(home'[u].now), j, new[j])
          \/ /\ Silent(Queue(home'[u].now), j)
             /\ Tells(toServer'[u], j, new[j])
      BY <1>7, <2>3
    <3>2. Reaches(u, v, j)'
      BY <2>2, <3>1 DEF Reaches, Queue
    <3>3. QED
      BY <2>3, <3>2
  <2>4. CASE j # i
    <3>1. editors'[j] = editors[j] /\ new[j] = Field(u, j)
      BY <1>1, <1>4, <2>4
    <3>2. editors[j] = {} => Field(u, j) = Field(v, j)
      BY <1>6, <1>12 DEF Meets
    <3>3. QED
      BY <1>7, <1>12, <2>2, <2>4, <3>1, <3>2
  <2>5. QED
    BY <2>3, <2>4
<1>13. ASSUME NEW v \in UIs \ {u}, NEW w \in UIs \ {v}
       PROVE  Meets(v, w)'
  <2>1. Meets(v, w)
    BY <1>13 DEF Merging
  <2>2. SUFFICES ASSUME NEW j \in 1 .. 2
                 PROVE  /\ editors'[j] = {v} => Reaches(v, w, j)'
                        /\ editors'[j] = {} => Field(v, j)' = Field(w, j)'
    BY DEF Meets
  <2>3. CASE j = i
    BY <1>13, <2>3
  <2>4. CASE j # i
    <3>1. editors'[j] = editors[j]
      BY <1>4, <2>4
    <3>2. Field(v, j)' = Field(v, j) /\ Field(w, j)' = Field(w, j)
      <4>1. Field(u, j)' = Field(u, j)
        BY <1>1, <1>3, <2>4 DEF Field
      <4>2. \A x \in UIs \ {u} : Field(x, j)' = Field(x, j)
        BY <1>3 DEF Field
      <4>3. QED
        BY <1>13, <4>1, <4>2
    <3>3. /\ Queue(home[v].now)' = Queue(home[v].now)
          /\ toServer'[v] = toServer[v] /\ toUi'[w] = toUi[w]
      BY <1>3, <1>4, <1>9, <1>13 DEF Queue
    <3>4. Reaches(v, w, j)' <=> Reaches(v, w, j)
      BY <3>2, <3>3 DEF Reaches
    <3>5. QED
      BY <2>1, <3>1, <3>2, <3>4 DEF Meets
  <2>5. QED
    BY <2>3, <2>4
<1>14. QED
  BY <1>10, <1>11, <1>12, <1>13 DEF Merging


LEMMA SendingIsMerged ==
  ASSUME PlanInv, Merging, NEW u \in UIs, SendsQueued(u), editors' = editors
  PROVE  Merging'
<1> DEFINE q == Queue(home[u].now)
           s == toServer[u]
           m == Head(q)
<1>1. \A v \in UIs : Apart(v) /\ \A w \in UIs \ {v} : Meets(v, w)
  BY DEF Merging
<1>2. /\ q # <<>> /\ toServer'[u] = Append(s, m)
      /\ Queue(home'[u].now) = Tail(q)
      /\ home'[u].now.commands = home[u].now.commands
      /\ home'[u].now.invalidCommands = home[u].now.invalidCommands
      /\ home'[u].now.mounted = home[u].now.mounted
      /\ home'[u].old = home[u].old
      /\ \A v \in UIs \ {u} : toServer'[v] = toServer[v]
  <2>1. Queue(home[u].old) = <<>>
    BY <1>1 DEF Apart
  <2>2. QED
    BY <2>1 DEF SendsQueued, Sends, Requeued, Queue
<1>3. /\ toUi' = toUi /\ \A v \in UIs \ {u} : home'[v] = home[v]
  BY DEF SendsQueued
<1>4. q \in Seq(Messages) /\ s \in Seq(Messages)
  <2>1. q \in Seq(PlanChanges) /\ s \in Seq(Messages)
    BY HomeFacts, ComponentFacts DEF PlanInv, ChannelsOK
  <2>2. PlanChanges \subseteq Messages
    BY DEF Messages
  <2>3. QED
    BY <2>1, <2>2
<1>5. m \in Messages
  BY <1>2, <1>4, WithoutHead
<1> HIDE DEF q, s, m
<1>6. AllPlain(Tail(q)) /\ AllPlain(Append(s, m))
  <2>1. AllPlain(q) /\ AllPlain(s)
    BY <1>1 DEF Apart, q, s
  <2>2. QED
    BY <1>2, <1>4, <1>5, <2>1, PlainQueues DEF m
\* The change that is sent is about i or not.
<1>7. ASSUME NEW i, NEW x
      PROVE  /\ Silent(q, i) <=> Silent(Tail(q), i) /\ ~About(m, i)
             /\ Silent(Append(s, m), i) <=> Silent(s, i) /\ ~About(m, i)
             /\ \/ Tells(q, i, x)
                \/ Silent(q, i) /\ Tells(s, i, x)
                => \/ Tells(Tail(q), i, x)
                   \/ Silent(Tail(q), i) /\ Tells(Append(s, m), i, x)
  <2>1. /\ Silent(q, i) <=> Silent(Tail(q), i) /\ ~About(m, i)
        /\ Tells(q, i, x) <=>
             \/ Tells(Tail(q), i, x)
             \/ Silent(Tail(q), i) /\ About(m, i) /\ m.commands[i] = x
    BY <1>2, <1>4, HeadTells DEF m
  <2>2. /\ Silent(Append(s, m), i) <=> Silent(s, i) /\ ~About(m, i)
        /\ Tells(Append(s, m), i, x) <=>
             IF About(m, i) THEN m.commands[i] = x ELSE Tells(s, i, x)
    BY <1>4, <1>5, AppendedTells
  <2>3. QED
    BY <2>1, <2>2
<1>8. ASSUME NEW v \in UIs PROVE Apart(v)'
  <2>1. CASE v = u
    <3>1. Apart(u)
      BY <1>1
    <3>2. OfEditor(Queue(home[u].now), u)' /\ OfEditor(toServer[u], u)'
      <4>1. OfEditor(q, u) /\ OfEditor(s, u)
        BY <3>1 DEF Apart, q, s
      <4>2. OfEditor(Tail(q), u) /\ OfEditor(Append(s, m), u)
        BY <1>7, <4>1 DEF OfEditor
      <4>3. QED
        BY <1>2, <4>2 DEF OfEditor, Queue
    <3>3. Queue(home[u].old)' = Queue(home[u].old)
          /\ Queue(home[u].now)' = Tail(q)
      BY <1>2 DEF Queue
    <3>4. OfOthers(toUi[u], u)'
      BY <1>3, <3>1 DEF Apart, OfOthers
    <3>5. QED
      BY <1>2, <1>3, <1>6, <2>1, <3>1, <3>2, <3>3, <3>4 DEF Apart
  <2>2. CASE v # u
    <3>1. home'[v] = home[v] /\ toServer'[v] = toServer[v] /\ toUi'[v] = toUi[v]
      BY <1>2, <1>3, <2>2
    <3>2. Queue(home[v].now)' = Queue(home[v].now)
          /\ Queue(home[v].old)' = Queue(home[v].old)
      BY <3>1 DEF Queue
    <3>3. QED
      BY <1>1, <3>1, <3>2 DEF Apart, OfEditor, OfOthers
  <2>3. QED
    BY <2>1, <2>2
<1>9. ASSUME NEW v \in UIs, NEW w \in UIs \ {v} PROVE Meets(v, w)'
  <2>1. \A i : Field(v, i)' = Field(v, i) /\ Field(w, i)' = Field(w, i)
    BY <1>2, <1>3 DEF Field
  <2>2. ASSUME NEW i \in 1 .. 2, Reaches(v, w, i) PROVE Reaches(v, w, i)'
    <3>1. CASE v = u
      <4>1. \/ Tells(q, i, Field(u, i))
            \/ /\ Silent(q, i)
               /\ \/ Tells(s, i, Field(u, i))
                  \/ /\ Silent(s, i)
                     /\ \/ Tells(toUi[w], i, Field(u, i))
                        \/ /\ Silent(toUi[w], i)
                           /\ Field(u, i) = Field(w, i)
        BY <2>2, <3>1 DEF Reaches, q, s
      <4>2. \/ Tells(Tail(q), i, Field(u, i))
            \/ /\ Silent(Tail(q), i)
               /\ \/ Tells(Append(s, m), i, Field(u, i))
                  \/ /\ Silent(Append(s, m), i)
                     /\ \/ Tells(toUi[w], i, Field(u, i))
                        \/ /\ Silent(toUi[w], i)
                           /\ Field(u, i) = Field(w, i)
        BY <1>7, <4>1
      <4>3. Queue(home[u].now)' = Tail(q)
        BY <1>2 DEF Queue
      <4>4. QED
        BY <1>2, <1>3, <2>1, <3>1, <4>2, <4>3 DEF Reaches
    <3>2. CASE v # u
      <4>1. Queue(home[v].now)' = Queue(home[v].now)
            /\ toServer'[v] = toServer[v]
        BY <1>2, <1>3, <3>2 DEF Queue
      <4>2. QED
        BY <1>3, <2>1, <2>2, <4>1 DEF Reaches
    <3>3. QED
      BY <3>1, <3>2
  <2>3. Meets(v, w)
    BY <1>1
  <2>4. QED
    BY <2>1, <2>2, <2>3 DEF Meets
<1>10. QED
  BY <1>8, <1>9 DEF Merging

LEMMA ServingIsMerged ==
  ASSUME PlanInv, Merging, NEW u \in UIs, ServerTakes(u), editors' = editors
  PROVE  Merging'
<1> DEFINE s == toServer[u]
           m == Head(s)
<1>1. \A v \in UIs : Apart(v) /\ \A w \in UIs \ {v} : Meets(v, w)
  BY DEF Merging
<1>2. s \in Seq(Messages) /\ s # <<>> /\ m \in Messages
  <2>1. s \in Seq(Messages) /\ s # <<>>
    BY DEF PlanInv, ChannelsOK, ServerTakes
  <2>2. QED
    BY <2>1, WithoutHead
<1>3. PlainChange(m) /\ AllPlain(Tail(s))
  <2>1. AllPlain(s)
    BY <1>1 DEF Apart
  <2>2. QED
    BY <1>2, <2>1, PlainQueues
<1>4. /\ home' = home /\ toServer'[u] = Tail(s) /\ toUi'[u] = toUi[u]
      /\ \A v \in UIs \ {u} : /\ toServer'[v] = toServer[v]
                              /\ toUi'[v] = Append(toUi[v], m)
  BY <1>3 DEF ServerTakes, PlainChange
<1>5. \A v \in UIs : toUi[v] \in Seq(Messages)
  <2>1. \A v \in UIs : toUi[v] \in Seq(PlanChanges)
    BY DEF PlanInv, ChannelsOK
  <2>2. PlanChanges \subseteq Messages
    BY DEF Messages
  <2>3. QED
    BY <2>1, <2>2
<1> HIDE DEF s, m
<1>6. ASSUME NEW i, NEW x
      PROVE  /\ Silent(s, i) <=> Silent(Tail(s), i) /\ ~About(m, i)
             /\ Tells(s, i, x) <=>
                  \/ Tells(Tail(s), i, x)
                  \/ Silent(Tail(s), i) /\ About(m, i) /\ m.commands[i] = x
  BY <1>2, HeadTells DEF m
<1>7. ASSUME NEW v \in UIs, NEW i, NEW x
      PROVE  /\ Silent(Append(toUi[v], m), i)
                  <=> Silent(toUi[v], i) /\ ~About(m, i)
             /\ Tells(Append(toUi[v], m), i, x) <=>
                  IF About(m, i) THEN m.commands[i] = x
                  ELSE Tells(toUi[v], i, x)
  BY <1>2, <1>5, AppendedTells
<1>8. \A i \in 1 .. 2 : About(m, i) => editors[i] = {u}
  <2>1. OfEditor(s, u)
    BY <1>1 DEF Apart, s
  <2>2. QED
    BY <1>6, <2>1 DEF OfEditor
<1>9. ASSUME NEW v \in UIs PROVE Apart(v)'
  <2>1. OfOthers(toUi[v], v)'
    <3>1. OfOthers(toUi[v], v)
      BY <1>1 DEF Apart
    <3>2. v # u => OfOthers(Append(toUi[v], m), v)
      BY <1>7, <1>8, <3>1 DEF OfOthers
    <3>3. QED
      BY <1>4, <3>1, <3>2 DEF OfOthers
  <2>2. AllPlain(toUi[v])'
    <3>1. AllPlain(toUi[v])
      BY <1>1 DEF Apart
    <3>2. AllPlain(Append(toUi[v], m))
      BY <1>2, <1>3, <1>5, <3>1, PlainQueues
    <3>3. QED
      BY <1>4, <3>1, <3>2
  <2>3. OfEditor(toServer[v], v)' /\ AllPlain(toServer[v])'
    <3>1. OfEditor(toServer[v], v) /\ AllPlain(toServer[v])
      BY <1>1 DEF Apart
    <3>2. v = u => OfEditor(Tail(s), v)
      BY <1>6, <3>1 DEF OfEditor, s
    <3>3. QED
      BY <1>3, <1>4, <3>1, <3>2 DEF OfEditor
  <2>4. OfEditor(Queue(home[v].now), v)'
    BY <1>1, <1>4 DEF Apart, OfEditor
  <2>5. QED
    BY <1>1, <1>4, <2>1, <2>2, <2>3, <2>4 DEF Apart
<1>10. ASSUME NEW v \in UIs, NEW w \in UIs \ {v} PROVE Meets(v, w)'
  <2>1. \A i : Field(v, i)' = Field(v, i) /\ Field(w, i)' = Field(w, i)
    BY <1>4 DEF Field
  <2>2. ASSUME NEW i \in 1 .. 2, editors[i] = {v}, Reaches(v, w, i)
        PROVE  Reaches(v, w, i)'
    <3> DEFINE x == Field(v, i)
               q == Queue(home[v].now)
    <3>1. x' = x /\ q' = q /\ Field(w, i)' = Field(w, i)
      BY <1>4, <2>1
    <3> HIDE DEF x, q
    <3>2. \/ Tells(q, i, x)
          \/ /\ Silent(q, i)
             /\ \/ Tells(toServer[v], i, x)
                \/ /\ Silent(toServer[v], i)
                   /\ \/ Tells(toUi[w], i, x)
                      \/ Silent(toUi[w], i) /\ x = Field(w, i)
      BY <2>2 DEF Reaches, x, q
    <3>3. \/ Tells(q, i, x)
          \/ /\ Silent(q, i)
             /\ \/ Tells(toServer'[v], i, x)
                \/ /\ Silent(toServer'[v], i)
                   /\ \/ Tells(toUi'[w], i, x)
                      \/ Silent(toUi'[w], i) /\ x = Field(w, i)
      <4>1. CASE v = u
        <5>1. /\ toServer'[v] = Tail(s) /\ toUi'[w] = Append(toUi[w], m)
              /\ toServer[v] = s
          BY <1>4, <4>1 DEF s
        <5>2. QED
          BY <1>6, <1>7, <3>2, <5>1
      <4>2. CASE v # u
        <5>1. ~About(m, i) /\ toServer'[v] = toServer[v]
          BY <1>4, <1>8, <2>2, <4>2
        <5>2. CASE w = u
          BY <1>4, <3>2, <5>1, <5>2
        <5>3. CASE w # u
          <6>1. toUi'[w] = Append(toUi[w], m)
            BY <1>4, <5>3
          <6>2. QED
            BY <1>7, <3>2, <5>1, <6>1
        <5>4. QED
          BY <5>2, <5>3
      <4>3. QED
        BY <4>1, <4>2
    <3>4. QED
      BY <3>1, <3>3 DEF Reaches, x, q
  <2>3. Meets(v, w)
    BY <1>1
  <2>4. QED
    BY <2>1, <2>2, <2>3 DEF Meets
<1>11. QED
  BY <1>9, <1>10 DEF Merging


\* What the listener does when the message is a change of some fields.
MergesChange(u) ==
  LET m == Head(toUi[u])
  IN  /\ toUi[u] # <<>> /\ toUi'[u] = Tail(toUi[u])
      /\ \A v \in UIs \ {u} : toUi'[v] = toUi[v] /\ home'[v] = home[v]
      /\ toServer' = toServer /\ home'[u].old = home[u].old
      /\ Queue(home'[u].now) = Queue(home[u].now)
      /\ home'[u].now.mounted /\ ~home'[u].now.invalidCommands
      /\ Plain(home'[u].now.commands)
      /\ \A i \in 1 .. 2 :
           home'[u].now.commands[i] = IF About(m, i) THEN m.commands[i]
                                      ELSE Field(u, i)

LEMMA ChangeIsMerged ==
  ASSUME PlanSyncAssumption, PlanInv, Merging, NEW u \in UIs, UiReceives(u),
         ~(reshaped' = TRUE)
  PROVE  MergesChange(u)
<1> DEFINE h == home[u].now
           m == Head(toUi[u])
           k == Received(u)
           taken == [h EXCEPT !.commands = k.commands,
                              !.invalidCommands = FALSE]
<1>1. toUi[u] # <<>> /\ toUi' = [toUi EXCEPT ![u] = Tail(@)]
  BY Zenon DEF UiReceives
<1>2. Apart(u)
  BY DEF Merging
<1>3. m \in PlanChanges /\ k \in PlanChanges /\ toUi[u] \in Seq(Messages)
      /\ m \in Messages
  <2>1. m \in PlanChanges /\ k \in PlanChanges /\ toUi[u] \in Seq(PlanChanges)
    BY <1>1, ReceivedFacts
  <2>2. PlanChanges \subseteq Messages
    BY DEF Messages
  <2>3. QED
    BY <2>1, <2>2
<1>4. PlainChange(m)
  BY <1>1, <1>2, <1>3, PlainQueues DEF Apart
<1>5. /\ h \in Components /\ Sound(u, h) /\ h.listens
      /\ home[u].old \in Components /\ Sound(u, home[u].old) /\ HomesOK
  BY HomeFacts DEF PlanInv
<1>6. Merge(home[u].old, m) = m
  BY <1>2, <1>3, <1>5, MergeMakes DEF Apart
<1>7. k = Merge(h, m)
  BY <1>6 DEF Received
<1>8. /\ Merged(k, h, m)
      /\ \A i \in DOMAIN m.commands :
           ~About(m, i) /\ i \in DOMAIN h.commands
             => k.commands[i] = h.commands[i]
  <2>1. h.listens /\ ~h.invalidCommands /\ m.changedCommands # WholePlan
    BY <1>2, <1>4, <1>5 DEF Apart, PlainChange
  <2> HIDE DEF m, h, k
  <2>2. QED
    BY <1>3, <1>5, <1>7, <2>1, MergeMakes
<1>9. /\ DOMAIN m.commands = 1 .. 2 /\ DOMAIN h.commands = 1 .. 2
      /\ m.commands \in Plans /\ h.commands \in Plans /\ k.commands \in Plans
  <2>1. m.commands \in Plans /\ h.commands \in Plans /\ k.commands \in Plans
    BY <1>2, <1>3, <1>5, MessageFacts DEF Apart, Sound
  <2>2. Len(m.commands) = 2 /\ Len(h.commands) = 2
    BY <1>2, <1>4 DEF Apart, PlainChange, Plain
  <2>3. QED
    BY <2>1, <2>2, PlanFacts
<1>10. /\ DOMAIN k.commands = 1 .. 2
       /\ \A i \in 1 .. 2 : k.commands[i] = IF About(m, i) THEN m.commands[i]
                                            ELSE h.commands[i]
  <2>1. DOMAIN k.commands = DOMAIN m.commands
        /\ \A i \in DOMAIN m.commands :
             About(m, i) => k.commands[i] = m.commands[i]
    BY <1>8 DEF Merged
  <2>2. QED
    BY <1>8, <1>9, <2>1
<1>11. Plain(k.commands)
  <2>1. Len(k.commands) = 2
    <3> DEFINE n == Len(k.commands)
    <3>1. n \in Nat /\ 1 .. n = 1 .. 2
      BY <1>9, <1>10, PlanFacts
    <3> HIDE DEF n
    <3>2. 2 \in 1 .. n /\ n \in 1 .. n
      BY <3>1
    <3>3. n \in 1 .. 2
      BY <3>1, <3>2
    <3>4. n = 2
      BY <3>1, <3>2, <3>3
    <3>5. QED
      BY <3>4 DEF n
  <2>2. Plain(m.commands) /\ Plain(h.commands)
    BY <1>2, <1>4 DEF Apart, PlainChange
  <2>3. QED
    BY <1>10, <2>1, <2>2 DEF Plain
<1>12. Unknown(u, k.commands) = {}
  BY <1>10, <1>11 DEF Unknown, Plain
<1>13. home' = [home EXCEPT ![u].now = taken] /\ toServer' = toServer
  <2>1. \/ ~h.mounted
        \/ /\ h.mounted /\ Unknown(u, k.commands) = {}
           /\ home' = [home EXCEPT ![u].now = taken]
           /\ UNCHANGED <<toServer, overlapped, reshaped>>
        \/ h.mounted /\ Unknown(u, k.commands) # {}
    BY Zenon DEF UiReceives, Received
  <2>2. h.mounted
    BY <1>2 DEF Apart
  <2>3. QED
    BY <1>12, <2>1, <2>2
<1> HIDE DEF h, k, m
<1>14. /\ taken \in Components /\ Sound(u, taken) /\ taken.listens
       /\ taken.commands = k.commands /\ taken.invalidCommands = FALSE
       /\ taken.mounted = h.mounted /\ Queue(taken) = Queue(h)
  BY <1>5, <1>9, TakenFacts, Zenon
<1> HIDE DEF taken
<1>15. /\ home'[u].now = taken /\ home'[u].old = home[u].old
       /\ \A v \in UIs \ {u} : home'[v] = home[v]
  BY <1>5, <1>13, <1>14, NowBecomes
<1>16. /\ toUi'[u] = Tail(toUi[u])
       /\ \A v \in UIs \ {u} : toUi'[v] = toUi[v]
  <2>1. toUi \in [UIs -> Seq(PlanChanges)]
    BY DEF PlanInv, ChannelsOK
  <2> HIDE DEF PlanChanges
  <2>2. QED
    BY <1>1, <2>1
<1>17. h = home[u].now /\ h.mounted
  BY <1>2 DEF Apart, h
<1>18. /\ home'[u].now.commands = k.commands
       /\ ~home'[u].now.invalidCommands /\ home'[u].now.mounted
       /\ Queue(home'[u].now) = Queue(home[u].now)
       /\ Plain(home'[u].now.commands)
  BY <1>11, <1>14, <1>15, <1>17
<1>19. \A i \in 1 .. 2 :
         home'[u].now.commands[i] = IF About(m, i) THEN m.commands[i]
                                    ELSE Field(u, i)
  BY <1>10, <1>17, <1>18 DEF Field
<1>20. QED
  BY <1>1, <1>13, <1>15, <1>16, <1>18, <1>19 DEF MergesChange, m

LEMMA TakingIsMerged ==
  ASSUME PlanInv, Merging, NEW u \in UIs, MergesChange(u), editors' = editors
  PROVE  Merging'
<1> DEFINE p == toUi[u]
           m == Head(p)
<1>1. \A v \in UIs : Apart(v) /\ \A w \in UIs \ {v} : Meets(v, w)
  BY DEF Merging
<1>2. p \in Seq(Messages) /\ p # <<>>
  <2>1. p \in Seq(PlanChanges) /\ p # <<>>
    BY DEF PlanInv, ChannelsOK, MergesChange
  <2>2. PlanChanges \subseteq Messages
    BY DEF Messages
  <2>3. QED
    BY <2>1, <2>2
<1>3. AllPlain(Tail(p))
  <2>1. AllPlain(p)
    BY <1>1 DEF Apart
  <2>2. QED
    BY <1>2, <2>1, PlainQueues
<1>4. /\ toServer' = toServer /\ toUi'[u] = Tail(p)
      /\ \A v \in UIs \ {u} : toUi'[v] = toUi[v] /\ home'[v] = home[v]
      /\ home'[u].old = home[u].old
      /\ Queue(home'[u].now) = Queue(home[u].now)
      /\ home'[u].now.mounted /\ ~home'[u].now.invalidCommands
      /\ Plain(home'[u].now.commands)
  BY DEF MergesChange
<1>5. \A i \in 1 .. 2 :
        Field(u, i)' = IF About(m, i) THEN m.commands[i] ELSE Field(u, i)
  BY DEF MergesChange, Field
<1>6. \A v \in UIs \ {u} : \A i : Field(v, i)' = Field(v, i)
  BY <1>4 DEF Field
<1> HIDE DEF p, m
<1>7. ASSUME NEW i, NEW x
      PROVE  /\ Silent(p, i) <=> Silent(Tail(p), i) /\ ~About(m, i)
             /\ Tells(p, i, x) <=>
                  \/ Tells(Tail(p), i, x)
                  \/ Silent(Tail(p), i) /\ About(m, i) /\ m.commands[i] = x
  BY <1>2, HeadTells DEF m
<1>8. \A i \in 1 .. 2 : About(m, i) => editors[i] # {} /\ u \notin editors[i]
  <2>1. OfOthers(p, u)
    BY <1>1 DEF Apart, p
  <2>2. QED
    BY <1>7, <2>1 DEF OfOthers
<1>9. ASSUME NEW v \in UIs PROVE Apart(v)'
  <2>1. /\ Queue(home[v].now)' = Queue(home[v].now)
        /\ Queue(home[v].old)' = Queue(home[v].old)
        /\ home'[v].old = home[v].old
        /\ home'[v].now.mounted /\ ~home'[v].now.invalidCommands
        /\ Plain(home'[v].now.commands)
    BY <1>1, <1>4 DEF Queue, Apart
  <2>2. OfEditor(Queue(home[v].now), v)' /\ OfEditor(toServer[v], v)'
    BY <1>1, <1>4, <2>1 DEF Apart, OfEditor
  <2>3. OfOthers(toUi[v], v)' /\ AllPlain(toUi[v])'
    <3>1. OfOthers(toUi[v], v) /\ AllPlain(toUi[v])
      BY <1>1 DEF Apart
    <3>2. v = u => OfOthers(Tail(p), v)
      BY <1>7, <3>1 DEF OfOthers, p
    <3>3. QED
      BY <1>3, <1>4, <3>1, <3>2 DEF OfOthers
  <2>4. QED
    BY <1>1, <1>4, <2>1, <2>2, <2>3 DEF Apart
<1>10. ASSUME NEW v \in UIs, NEW w \in UIs \ {v} PROVE Meets(v, w)'
  <2>1. Meets(v, w)
    BY <1>1
  <2>2. ASSUME NEW i \in 1 .. 2, editors[i] = {}
        PROVE  Field(v, i)' = Field(w, i)'
    <3>1. Field(u, i)' = Field(u, i)
      BY <1>5, <1>8, <2>2
    <3>2. QED
      BY <1>6, <2>1, <2>2, <3>1 DEF Meets
  <2>3. ASSUME NEW i \in 1 .. 2, editors[i] = {v} PROVE Reaches(v, w, i)'
    <3> DEFINE x == Field(v, i)
               q == Queue(home[v].now)
    <3>1. x' = x /\ q' = q
      <4>1. v = u => Field(u, i)' = Field(u, i)
        BY <1>5, <1>8, <2>3
      <4>2. QED
        BY <1>4, <1>6, <4>1 DEF Queue
    <3> HIDE DEF x, q
    <3>2. \/ Tells(q, i, x)
          \/ /\ Silent(q, i)
             /\ \/ Tells(toServer[v], i, x)
                \/ /\ Silent(toServer[v], i)
                   /\ \/ Tells(toUi[w], i, x)
                      \/ Silent(toUi[w], i) /\ x = Field(w, i)
      BY <2>1, <2>3 DEF Meets, Reaches, x, q
    <3>3. \/ Tells(toUi[w], i, x)
          \/ Silent(toUi[w], i) /\ x = Field(w, i)
          => \/ Tells(toUi'[w], i, x)
             \/ Silent(toUi'[w], i) /\ x = Field(w, i)'
      <4>1. CASE w = u
        <5>1. toUi'[w] = Tail(p) /\ toUi[w] = p
              /\ Field(w, i)' = IF About(m, i) THEN m.commands[i]
                                ELSE Field(w, i)
          BY <1>4, <1>5, <4>1 DEF p
        <5>2. QED
          BY <1>7, <5>1
      <4>2. CASE w # u
        BY <1>4, <1>6, <4>2
      <4>3. QED
        BY <4>1, <4>2
    <3>4. QED
      BY <1>4, <3>1, <3>2, <3>3 DEF Reaches, x, q
  <2>4. QED
    BY <2>2, <2>3 DEF Meets
<1>11. QED
  BY <1>9, <1>10 DEF Merging

LEMMA MergingBegins ==
  ASSUME PlanSyncAssumption, PlanInit PROVE MergeInv
<1>1. \A i \in 1 .. MaxLength : editors[i] = {}
  BY DEF PlanInit
<1>2. EditorsOK
  BY <1>1, FS_EmptySet DEF EditorsOK
<1>3. \A u \in UIs : /\ toServer[u] = <<>> /\ toUi[u] = <<>>
                     /\ Queue(home[u].now) = <<>> /\ Queue(home[u].old) = <<>>
                     /\ home[u].now.mounted /\ ~home[u].now.invalidCommands
                     /\ ~home[u].old.listens
                     /\ home[u].now.commands = InitialPlan
  BY DEF PlanInit, NewHome, Queue
<1>4. Plain(InitialPlan)
  BY DEF Plain, InitialPlan, Command
<1>5. AllPlain(<<>>) /\ \A i : Silent(<<>>, i)
  BY DEF AllPlain, Silent
<1>6. \A u \in UIs : Apart(u)
  BY <1>3, <1>4, <1>5 DEF Apart, OfEditor, OfOthers
<1>7. \A u, v \in UIs : Meets(u, v)
  <2>1. \A i \in 1 .. 2 : i \in 1 .. MaxLength
    BY DEF PlanSyncAssumption
  <2>2. QED
    BY <1>1, <1>3, <2>1 DEF Meets, Field
<1>8. QED
  BY <1>2, <1>6, <1>7 DEF MergeInv, Merging

LEMMA MergingIsKept ==
  ASSUME PlanSyncAssumption, PlanInv, MergeInv, [PlanNext]_planVars
  PROVE  MergeInv'
<1>1. CASE PlanNext
  <2>1. EditorsOK' /\ (OwnFieldsOnly' => OwnFieldsOnly) /\ Remembers
    BY <1>1, NothingIsForgotten, OnceShared DEF MergeInv
  <2>2. SUFFICES ASSUME OwnFieldsOnly' PROVE Merging'
    BY <2>1 DEF MergeInv
  <2>3. Merging /\ ~(reshaped' = TRUE) /\ remounts' = 0
    BY <2>1, <2>2 DEF MergeInv, OwnFieldsOnly
  <2>4. PICK u \in UIs :
          \/ EditAction(u) \/ RestoreCommands(u) \/ Unmount(u) \/ Mount(u)
          \/ \E c \in {"now", "old"} : SendQueuedCommands(u, c)
          \/ ServerReceives(u) \/ UiReceives(u)
    BY <1>1, StepsOfThePlan
  <2>5. CASE EditAction(u)
    <3>1. ASSUME NEW commands, NEW range, Reshapes(u, commands, range)
          PROVE  FALSE
      BY <2>3, <3>1 DEF Reshapes
    <3>2. ~ClearCommands(u)
      BY <2>3 DEF ClearCommands
    <3>3. PICK i \in 1 .. MaxLength : ChangedCommandField(u, i)
      BY <2>5, <3>1, <3>2
      DEF EditAction, AddCommand, DeleteCommand, OnSortEnd
    <3>4. EditsField(u, i)
      BY <2>3, <3>3, FieldIsEdited
    <3>5. editors'[i] = {u}
      <4>1. editors \in [1 .. MaxLength -> SUBSET UIs] /\ i \in 1 .. MaxLength
            /\ i \in 1 .. 2
        BY <3>4 DEF PlanInv, CountersOK, EditsField
      <4>2. editors'[i] = editors[i] \cup {u}
        BY <3>4, <4>1 DEF EditsField
      <4>3. IsFiniteSet(editors'[i]) /\ Cardinality(editors'[i]) <= 1
        <5>1. DOMAIN editors' = 1 .. MaxLength
          BY <3>4, <4>1 DEF EditsField
        <5>2. QED
          BY <2>1, <2>2, <4>1, <5>1 DEF EditorsOK, OwnFieldsOnly
      <4>4. Cardinality({u}) = 1 /\ IsFiniteSet({u})
        BY FS_Singleton
      <4>5. {u} = editors'[i]
        <5>1. {u} \subseteq editors'[i] /\ Cardinality(editors'[i]) \in Nat
          BY <4>2, <4>3, FS_CardinalityType
        <5>2. Cardinality({u}) <= Cardinality(editors'[i])
          BY <4>3, <5>1, FS_Subset
        <5>3. Cardinality({u}) = Cardinality(editors'[i])
          BY <4>3, <4>4, <5>1, <5>2
        <5>4. QED
          BY <4>3, <5>1, <5>3, FS_Subset
      <4>6. QED
        BY <4>5
    <3>6. QED
      BY <2>3, <3>4, <3>5, EditsAreMerged
  <2>6. CASE RestoreCommands(u) \/ Unmount(u) \/ Mount(u)
    <3>1. home[u].now.mounted /\ ~home[u].now.invalidCommands
      BY <2>3 DEF Merging, Apart
    <3>2. ~RestoreCommands(u) /\ ~Mount(u)
      BY <3>1 DEF RestoreCommands, Mount
    <3>3. ~Unmount(u)
      <4>1. remounts \in Nat
        BY DEF PlanInv, CountersOK
      <4>2. QED
        BY <2>3, <4>1 DEF Unmount
    <3>4. QED
      BY <2>6, <3>2, <3>3
  <2>7. CASE \E c \in {"now", "old"} : SendQueuedCommands(u, c)
    <3>1. editors' = editors
      BY <2>7 DEF SendQueuedCommands
    <3>2. SendsQueued(u)
      BY <2>7, SendIsTaken
    <3>3. QED
      BY <2>3, <3>1, <3>2, SendingIsMerged
  <2>8. CASE ServerReceives(u)
    <3>1. editors' = editors
      BY <2>8, Zenon DEF ServerReceives
    <3>2. ServerTakes(u)
      BY <2>8, AtTheServer
    <3>3. QED
      BY <2>3, <3>1, <3>2, ServingIsMerged
  <2>9. CASE UiReceives(u)
    <3>1. editors' = editors
      BY <2>9, Zenon DEF UiReceives
    <3>2. MergesChange(u)
      BY <2>3, <2>9, ChangeIsMerged
    <3>3. QED
      BY <2>3, <3>1, <3>2, TakingIsMerged
  <2>10. QED
    BY <2>4, <2>5, <2>6, <2>7, <2>8, <2>9
<1>2. CASE UNCHANGED planVars
  <2>1. (OwnFieldsOnly' <=> OwnFieldsOnly) /\ (EditorsOK' <=> EditorsOK)
    BY <1>2 DEF planVars, OwnFieldsOnly, EditorsOK
  <2>2. \A u \in UIs : Apart(u)' <=> Apart(u)
    BY <1>2 DEF planVars, Apart, OfEditor, OfOthers, Queue
  <2>3. \A u, v \in UIs : Meets(u, v)' <=> Meets(u, v)
    BY <1>2 DEF planVars, Meets, Reaches, Field, Queue
  <2>4. QED
    BY <2>1, <2>2, <2>3 DEF MergeInv, Merging
<1>3. QED
  BY <1>1, <1>2


-----------------------------------------------------------------------------

LEMMA PlanInvHolds ==
  ASSUME PlanSyncAssumption
  PROVE  PlanSpec => []PlanInv
<1>1. PlanInit => PlanInv
  BY PlanBegins
<1>2. PlanInv /\ [PlanNext]_planVars => PlanInv'
  BY PlanStepKeepsInv
<1>3. QED
  BY <1>1, <1>2, PTL DEF PlanSpec

\* Types: a plan holds commands and is no longer than the bound; the error
\* stands alone, in a browser whose mission lacks objects (Map.jsx:371).
THEOREM PlansAreTyped ==
  ASSUME PlanSyncAssumption
  PROVE  PlanSpec => []PlanTypeOK
<1>1. PlanInv => PlanTypeOK
  BY PlansHaveTypes
<1>2. QED
  BY <1>1, PlanInvHolds, PTL

\* The error that stands for a plan which cannot be shown is in no queue, in
\* no message and not in the server's plan, however changes cross.
THEOREM ErrorsStay ==
  ASSUME PlanSyncAssumption
  PROVE  PlanSpec => []ErrorStaysHere
<1>1. PlanInv => ErrorStaysHere
  BY ErrorsAreNotSent
<1>2. QED
  BY <1>1, PlanInvHolds, PTL

\* When no two changes crossed, and nobody left a page who cannot show every
\* plan, all browsers that show a plan show the server's as soon as nothing
\* is on the way, whatever was queued, joined, restored or left.
THEOREM BrowsersAgree ==
  ASSUME PlanSyncAssumption
  PROVE  PlanSpec => []PlansAgree
<1>1. PlanInit => AgreeInv
  BY BrowsersBeginInSync DEF AgreeInv
<1>2. PlanInv /\ AgreeInv /\ [PlanNext]_planVars => AgreeInv'
  BY AgreeInvIsKept
<1>3. PlanInv /\ AgreeInv => PlansAgree
  BY InSyncTheyAgree
<1>4. QED
  BY <1>1, <1>2, <1>3, PlanInvHolds, PTL DEF PlanSpec

\* Changes that cross each other are merged: browsers that edited the fields
\* of different commands show the same plan as soon as nothing is on the way.
THEOREM CrossedEditsMerge ==
  ASSUME PlanSyncAssumption
  PROVE  PlanSpec => []EditsMerge
<1>1. PlanInit => MergeInv
  BY MergingBegins
<1>2. PlanInv /\ MergeInv /\ [PlanNext]_planVars => MergeInv'
  BY MergingIsKept
<1>3. PlanInv /\ MergeInv => EditsMerge
  BY MergedAtRest
<1>4. QED
  BY <1>1, <1>2, <1>3, PlanInvHolds, PTL DEF PlanSpec

=============================================================================
