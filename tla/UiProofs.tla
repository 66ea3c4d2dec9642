------------------------------ MODULE UiProofs ------------------------------
(***************************************************************************)
(* Proofs about the state of the UI's connection (UiConnection), of its    *)
(* Tagging page (Tagging), of what its Analytics page records and plays    *)
(* back (TelemetryView) and of the mission it edits (MissionEditor), and   *)
(* about the archived interface's application with the station that it     *)
(* shows (ArchiveApp).  They share no state; each has its own section.     *)
(***************************************************************************)
EXTENDS UiConnection, Tagging, ArchiveApp, TelemetryView, MissionEditor, TLAPS

-----------------------------------------------------------------------------
(* The UI's connection.                                                    *)

\* The orders given so far.
Given == 1 .. given

\* Types, which the component's type invariant leaves to these.
ConnectionTypes ==
  /\ {gndServerIp, connectedGndServerIp, socketIp} \subseteq Servers
  /\ {gndServerConnected, connected, resetSince} \subseteq BOOLEAN
  /\ given \in Nat /\ shownFor \in Seq(Servers \cup {NoServer})
  /\ Len(shownFor) = given
  /\ sendBuffer \in Seq(Given) /\ wire \in Seq(Given)
  /\ closing \in [ip : Servers \cup {NoServer}, wire : Seq(Given)]
  /\ closing # NotClosing => closing.ip \in Servers
  /\ executed \in [Servers -> SUBSET Given]
  /\ connected => sendBuffer = <<>>
  /\ ~connected => wire = <<>>

\* Until the state is reset the settings follow the socket.
SettingsFollow ==
  ~resetSince => /\ connectedGndServerIp = socketIp
                 /\ gndServerConnected = connected

\* An order goes to the server that was shown, wherever it is.
WillBeExecutedWhereShown ==
  /\ \A i \in DOMAIN sendBuffer : shownFor[sendBuffer[i]] = NoServer
  /\ \A i \in DOMAIN wire : shownFor[wire[i]] \in {socketIp, NoServer}
  /\ \A i \in DOMAIN closing.wire :
       shownFor[closing.wire[i]] \in {closing.ip, NoServer}

\* An order is in one place at a time.
Distinct(s) == \A i, j \in DOMAIN s : s[i] = s[j] => i = j
Disjoint(s, t) == \A i \in DOMAIN s, j \in DOMAIN t : s[i] # t[j]
Fresh(s) == \A i \in DOMAIN s : \A server \in Servers :
     s[i] \notin executed[server]

InOnePlace ==
  /\ Distinct(sendBuffer) /\ Distinct(wire) /\ Distinct(closing.wire)
  /\ Disjoint(sendBuffer, closing.wire) /\ Disjoint(wire, closing.wire)
  /\ Fresh(sendBuffer) /\ Fresh(wire) /\ Fresh(closing.wire)
  /\ \A s, t \in Servers : s # t => executed[s] \cap executed[t] = {}

ConnectionInv ==
  /\ ConnectionTypes /\ SettingsFollow /\ ExecutedWhereShown
  /\ WillBeExecutedWhereShown /\ InOnePlace

LEMMA ConnectionInitInv ==
  ASSUME ConnectionAssumption, Init
  PROVE  ConnectionInv
<1>1. /\ ConnectionTypes /\ SettingsFollow /\ ExecutedWhereShown
  <2>1. /\ \A S : << >> \in Seq(S)
        /\ Len(<< >>) = 0
        /\ NotClosing \in [ip : Servers \cup {NoServer}, wire : Seq(Given)]
        /\ executed \in [Servers -> SUBSET Given]
    BY DEF Init, NotClosing
  <2>2. ConnectionTypes
    BY <2>1 DEF Init, ConnectionAssumption, ConnectionTypes
  <2>3. SettingsFollow /\ ExecutedWhereShown
    BY DEF Init, SettingsFollow, ExecutedWhereShown
  <2>4. QED
    BY <2>2, <2>3
<1>2. WillBeExecutedWhereShown /\ InOnePlace
  BY DEF Init, WillBeExecutedWhereShown, InOnePlace, NotClosing, NoServer,
    Distinct, Disjoint, Fresh
<1>3. QED
  BY <1>1, <1>2 DEF ConnectionInv

LEMMA AppendIs ==
  ASSUME NEW S, NEW s \in Seq(S), NEW x \in S
  PROVE  /\ Append(s, x) \in Seq(S)
         /\ DOMAIN Append(s, x) = 1 .. Len(s) + 1
         /\ DOMAIN s = 1 .. Len(s)
         /\ Len(s) \in Nat
         /\ \A i \in DOMAIN s : Append(s, x)[i] = s[i] /\ s[i] \in S
         /\ Append(s, x)[Len(s) + 1] = x
  OBVIOUS

LEMMA TailIs ==
  ASSUME NEW S, NEW s \in Seq(S), s # <<>>
  PROVE  /\ Tail(s) \in Seq(S)
         /\ Head(s) = s[1] /\ 1 \in DOMAIN s /\ s[1] \in S
         /\ DOMAIN Tail(s) = 1 .. Len(s) - 1
         /\ \A i \in DOMAIN Tail(s) :
              i + 1 \in DOMAIN s /\ Tail(s)[i] = s[i + 1] /\ i + 1 # 1
  OBVIOUS

LEMMA ConnectsInv ==
  ASSUME ConnectionInv, SocketConnects
  PROVE  ConnectionInv'
<1>1. /\ ConnectionTypes' /\ SettingsFollow' /\ ExecutedWhereShown'
  BY DEF ConnectionInv, SocketConnects, orders, ConnectionTypes,
       SettingsFollow, Given, ExecutedWhereShown, NotClosing, NoServer
<1>2. WillBeExecutedWhereShown' /\ InOnePlace'
  BY DEF ConnectionInv, SocketConnects, orders, ConnectionTypes,
   WillBeExecutedWhereShown, InOnePlace, NotClosing, NoServer,
    Distinct, Disjoint, Fresh
<1>3. QED
  BY <1>1, <1>2 DEF ConnectionInv

LEMMA DisconnectsInv ==
  ASSUME ConnectionInv, SocketDisconnects
  PROVE  ConnectionInv'
<1>1. /\ ConnectionTypes' /\ SettingsFollow' /\ ExecutedWhereShown'
  BY DEF ConnectionInv, SocketDisconnects, orders, ConnectionTypes,
       SettingsFollow, Given, ExecutedWhereShown, NotClosing, NoServer
<1>2. WillBeExecutedWhereShown' /\ InOnePlace'
  BY DEF ConnectionInv, SocketDisconnects, orders, ConnectionTypes,
   WillBeExecutedWhereShown, InOnePlace, NotClosing, NoServer,
    Distinct, Disjoint, Fresh
<1>3. QED
  BY <1>1, <1>2 DEF ConnectionInv

LEMMA ReplacesInv ==
  ASSUME ConnectionInv, ConnectToGndServer
  PROVE  ConnectionInv'
<1>1. /\ ConnectionTypes' /\ SettingsFollow' /\ ExecutedWhereShown'
  BY DEF ConnectionInv, ConnectToGndServer, ConnectionTypes, SettingsFollow,
       Given, ExecutedWhereShown, NotClosing, NoServer
<1>2. WillBeExecutedWhereShown' /\ InOnePlace'
  BY DEF ConnectionInv, ConnectToGndServer, ConnectionTypes,
   WillBeExecutedWhereShown, InOnePlace, NotClosing, NoServer,
    Distinct, Disjoint, Fresh
<1>3. QED
  BY <1>1, <1>2 DEF ConnectionInv

LEMMA TransmitInv ==
  ASSUME ConnectionInv, Transmit
  PROVE  ConnectionInv'
<1> DEFINE shownNow == IF resetSince THEN NoServer ELSE Shown
           shown == Append(shownFor, shownNow)
<1>1. /\ given' = given + 1 /\ given \in Nat
      /\ Given' = Given \cup {given'} /\ given' \notin Given
      /\ given' \in Given'
  <2>1. given' = given + 1 /\ given \in Nat
    BY DEF ConnectionInv, ConnectionTypes, Transmit
  <2>2. Given = 1 .. given /\ Given' = 1 .. given'
    BY DEF Given
  <2>3. QED
    BY <2>1, <2>2
<1>2. /\ shownNow \in Servers \cup {NoServer}
      /\ shownNow \in {socketIp, NoServer}
      /\ ~connected => shownNow = NoServer
  BY DEF ConnectionInv, ConnectionTypes, SettingsFollow, Shown
<1>3. /\ shownFor' = shown /\ shown \in Seq(Servers \cup {NoServer})
      /\ Len(shown) = given'
      /\ \A order \in Given : shown[order] = shownFor[order]
      /\ shown[given'] = shownNow
  <2>1. /\ shownFor' = shown /\ Len(shownFor) = given
        /\ shownFor \in Seq(Servers \cup {NoServer})
    BY DEF ConnectionInv, ConnectionTypes, Transmit
  <2> HIDE DEF shownNow
  <2>2. /\ shown \in Seq(Servers \cup {NoServer})
        /\ Len(shown) = Len(shownFor) + 1
        /\ \A i \in DOMAIN shownFor : shown[i] = shownFor[i]
        /\ shown[Len(shownFor) + 1] = shownNow
    BY <1>2, <2>1
  <2>3. Given = 1 .. given /\ DOMAIN shownFor = 1 .. Len(shownFor)
    BY <2>1 DEF Given
  <2>4. QED
    BY <1>1, <2>1, <2>2, <2>3
<1> HIDE DEF shown, shownNow
<1>4. /\ UNCHANGED <<gndServerIp, connectedGndServerIp, gndServerConnected,
           socketIp, connected, closing, executed, resetSince>>
      /\ executed \in [Servers -> SUBSET Given]
      /\ closing.wire \in Seq(Given)
      /\ sendBuffer \in Seq(Given) /\ wire \in Seq(Given)
  BY DEF ConnectionInv, ConnectionTypes, Transmit, settings
<1>5. SettingsFollow'
  BY <1>4 DEF ConnectionInv, SettingsFollow
<1>6. ExecutedWhereShown'
  BY <1>3, <1>4 DEF ConnectionInv, ExecutedWhereShown
<1>7. /\ \A s, t \in Servers : s # t => (executed[s] \cap executed[t] = {})'
      /\ \A i \in DOMAIN closing.wire : closing.wire[i] \in Given
      /\ \A i \in DOMAIN wire : wire[i] \in Given
      /\ \A i \in DOMAIN sendBuffer : sendBuffer[i] \in Given
  BY <1>4 DEF ConnectionInv, InOnePlace
<1>8. \A S \in {Given} : Seq(S) \subseteq Seq(Given')
  BY <1>1
<1>9. CASE connected
  <2> DEFINE next == Append(wire, given')
  <2>1. wire' = next /\ sendBuffer' = sendBuffer /\ sendBuffer = <<>>
    BY <1>9 DEF Transmit, ConnectionInv, ConnectionTypes
  <2>2. wire \in Seq(Given')
    BY <1>4, <1>8
  <2>3. /\ next \in Seq(Given')
        /\ DOMAIN next = 1 .. Len(wire) + 1
        /\ DOMAIN wire = 1 .. Len(wire)
        /\ Len(wire) \in Nat
        /\ \A i \in DOMAIN wire : next[i] = wire[i]
        /\ next[Len(wire) + 1] = given'
    BY <2>2, <1>1, AppendIs
  <2> HIDE DEF next
  <2>4. ConnectionTypes'
    <3>1. /\ closing \in [ip : Servers \cup {NoServer}, wire : Seq(Given')]
          /\ executed \in [Servers -> SUBSET Given']
      BY <1>1, <1>4, <1>8 DEF ConnectionInv, ConnectionTypes
    <3>2. QED
      BY <1>9, <1>1, <1>3, <1>4, <2>1, <2>3, <3>1 DEF ConnectionInv,
           ConnectionTypes
  <2>5. WillBeExecutedWhereShown'
    BY <1>2, <1>3, <1>4, <1>7, <2>1, <2>3
    DEF ConnectionInv, WillBeExecutedWhereShown
  <2>6. InOnePlace'
    <3>1. Distinct(next)
      BY <1>1, <1>7, <2>3 DEF ConnectionInv, InOnePlace, Distinct
    <3>2. \A i \in DOMAIN next :
            \/ next[i] = given'
            \/ \E j \in DOMAIN wire : next[i] = wire[j]
      BY <2>3
    <3>3. Disjoint(next, closing.wire)
      BY <1>1, <1>7, <3>2 DEF ConnectionInv, InOnePlace, Disjoint
    <3>4. \A server \in Servers : \A order \in executed[server] :
               order \in Given
      BY <1>4
    <3>5. \A i \in DOMAIN next : \A server \in Servers :
            next[i] \notin executed'[server]
      BY <1>1, <1>4, <3>2, <3>4 DEF ConnectionInv, InOnePlace, Fresh
    <3>6. QED
      BY <1>4, <1>7, <2>1, <3>1, <3>3, <3>5
      DEF ConnectionInv, InOnePlace, Distinct, Disjoint, Fresh
  <2>7. QED
    BY <1>5, <1>6, <2>4, <2>5, <2>6 DEF ConnectionInv
<1>10. CASE ~connected
  <2> DEFINE next == Append(sendBuffer, given')
  <2>1. sendBuffer' = next /\ wire' = wire /\ wire = <<>>
    BY <1>10 DEF Transmit, ConnectionInv, ConnectionTypes
  <2>2. sendBuffer \in Seq(Given')
    BY <1>4, <1>8
  <2>3. /\ next \in Seq(Given')
        /\ DOMAIN next = 1 .. Len(sendBuffer) + 1
        /\ DOMAIN sendBuffer = 1 .. Len(sendBuffer)
        /\ Len(sendBuffer) \in Nat
        /\ \A i \in DOMAIN sendBuffer : next[i] = sendBuffer[i]
        /\ next[Len(sendBuffer) + 1] = given'
    BY <2>2, <1>1, AppendIs
  <2> HIDE DEF next
  <2>4. ConnectionTypes'
    <3>1. /\ closing \in [ip : Servers \cup {NoServer}, wire : Seq(Given')]
          /\ executed \in [Servers -> SUBSET Given']
      BY <1>1, <1>4, <1>8 DEF ConnectionInv, ConnectionTypes
    <3>2. QED
      BY <1>10, <1>1, <1>3, <1>4, <2>1, <2>3, <3>1 DEF ConnectionInv,
           ConnectionTypes
  <2>5. WillBeExecutedWhereShown'
    <3>1. \A i \in DOMAIN next :
            \/ next[i] = given'
            \/ \E j \in DOMAIN sendBuffer : next[i] = sendBuffer[j]
      BY <2>3
    <3>2. \A i \in DOMAIN next : shownFor'[next[i]] = NoServer
      BY <1>2, <1>3, <1>7, <1>10, <3>1
      DEF ConnectionInv, WillBeExecutedWhereShown
    <3>3. QED
      BY <1>3, <1>4, <1>7, <2>1, <3>2
      DEF ConnectionInv, WillBeExecutedWhereShown
  <2>6. InOnePlace'
    <3>1. Distinct(next)
      BY <1>1, <1>7, <2>3 DEF ConnectionInv, InOnePlace, Distinct
    <3>2. \A i \in DOMAIN next :
            \/ next[i] = given'
            \/ \E j \in DOMAIN sendBuffer : next[i] = sendBuffer[j]
      BY <2>3
    <3>3. Disjoint(next, closing.wire)
      BY <1>1, <1>7, <3>2 DEF ConnectionInv, InOnePlace, Disjoint
    <3>4. \A server \in Servers : \A order \in executed[server] :
               order \in Given
      BY <1>4
    <3>5. \A i \in DOMAIN next : \A server \in Servers :
            next[i] \notin executed'[server]
      BY <1>1, <1>4, <3>2, <3>4 DEF ConnectionInv, InOnePlace, Fresh
    <3>6. QED
      BY <1>4, <1>7, <2>1, <3>1, <3>3, <3>5
      DEF ConnectionInv, InOnePlace, Distinct, Disjoint, Fresh
  <2>7. QED
    BY <1>5, <1>6, <2>4, <2>5, <2>6 DEF ConnectionInv
<1>11. QED
  BY <1>9, <1>10

LEMMA ReceivesInv ==
  ASSUME ConnectionInv, ServerReceives
  PROVE  ConnectionInv'
<1>1. /\ wire # <<>> /\ wire' = Tail(wire) /\ wire \in Seq(Given)
      /\ executed' = [executed EXCEPT ![socketIp] = @ \cup {wire[1]}]
      /\ UNCHANGED <<settings, socketIp, connected, sendBuffer, closing,
                     given, shownFor, resetSince>>
      /\ connected /\ sendBuffer = <<>>
  BY DEF ConnectionInv, ConnectionTypes, ServerReceives
<1>2. /\ wire' \in Seq(Given) /\ 1 \in DOMAIN wire /\ wire[1] \in Given
      /\ \A i \in DOMAIN wire' :
           i + 1 \in DOMAIN wire /\ wire'[i] = wire[i + 1] /\ i + 1 # 1
             /\ i \in Nat
  BY <1>1
<1>3. /\ \A s \in Servers :
           executed'[s] = IF s = socketIp THEN executed[s] \cup {wire[1]}
                          ELSE executed[s]
      /\ executed' \in [Servers -> SUBSET Given]
  BY <1>1, <1>2 DEF ConnectionInv, ConnectionTypes
<1>4. ConnectionTypes'
  BY <1>1, <1>2, <1>3 DEF ConnectionInv, ConnectionTypes, settings, Given
<1>5. SettingsFollow' /\ ExecutedWhereShown' /\ WillBeExecutedWhereShown'
  BY <1>1, <1>2, <1>3 DEF ConnectionInv, SettingsFollow, settings,
    ExecutedWhereShown, WillBeExecutedWhereShown
<1>6. /\ Distinct(wire') /\ Disjoint(wire', closing.wire)
  BY <1>1, <1>2 DEF ConnectionInv, InOnePlace, Distinct, Disjoint
<1>7. Fresh(wire)' /\ Fresh(closing.wire)' /\ Fresh(sendBuffer)'
  BY <1>1, <1>2, <1>3 DEF ConnectionInv, InOnePlace, Distinct, Disjoint, Fresh
<1>8. \A s, t \in Servers : s # t => (executed[s] \cap executed[t] = {})'
  BY <1>2, <1>3 DEF ConnectionInv, InOnePlace, Fresh
<1>9. InOnePlace'
  BY <1>1, <1>6, <1>7, <1>8 DEF ConnectionInv, InOnePlace
<1>10. QED
  BY <1>4, <1>5, <1>9 DEF ConnectionInv

LEMMA ClosesInv ==
  ASSUME ConnectionInv, OldSocketCloses
  PROVE  ConnectionInv'
<1>1. PICK n \in 0 .. Len(closing.wire) :
        executed' = [executed EXCEPT ![closing.ip] =
                      @ \cup {closing.wire[i] : i \in 1 .. n}]
  BY DEF OldSocketCloses
<1> DEFINE arrived == {closing.wire[i] : i \in 1 .. n}
<1>2. /\ closing.wire \in Seq(Given) /\ closing.ip \in Servers
      /\ closing' = NotClosing /\ closing'.wire = <<>>
      /\ UNCHANGED <<settings, socketIp, connected, sendBuffer, wire, given,
                     shownFor, resetSince>>
  BY DEF ConnectionInv, ConnectionTypes, OldSocketCloses, NotClosing
<1>3. 1 .. n \subseteq DOMAIN closing.wire
  BY <1>2
<1>4. \A order \in arrived : \E i \in DOMAIN closing.wire :
        order = closing.wire[i] /\ order \in Given
  BY <1>2, <1>3
<1> HIDE DEF arrived
<1>5. /\ \A s \in Servers :
           executed'[s] = IF s = closing.ip THEN executed[s] \cup arrived
                          ELSE executed[s]
      /\ executed' \in [Servers -> SUBSET Given]
  BY <1>1, <1>2, <1>4 DEF ConnectionInv, ConnectionTypes, arrived
<1>6. ConnectionTypes'
  BY <1>2, <1>5 DEF ConnectionInv, ConnectionTypes, settings, Given,
       NotClosing
<1>7. SettingsFollow' /\ ExecutedWhereShown' /\ WillBeExecutedWhereShown'
  BY <1>2, <1>4, <1>5 DEF ConnectionInv, SettingsFollow, settings,
    ExecutedWhereShown, WillBeExecutedWhereShown
<1>8. Fresh(wire)' /\ Fresh(sendBuffer)'
  BY <1>2, <1>4, <1>5 DEF ConnectionInv, InOnePlace, Disjoint, Fresh
<1>9. \A s, t \in Servers : s # t => (executed[s] \cap executed[t] = {})'
  BY <1>4, <1>5 DEF ConnectionInv, InOnePlace, Fresh
<1>10. InOnePlace'
  BY <1>2, <1>8, <1>9
  DEF ConnectionInv, InOnePlace, Distinct, Disjoint, Fresh
<1>11. QED
  BY <1>6, <1>7, <1>10 DEF ConnectionInv

LEMMA ConnectionStep ==
  ASSUME ConnectionAssumption, ConnectionInv, [Next]_vars
  PROVE  ConnectionInv'
<1>1. CASE UNCHANGED socket /\ UNCHANGED <<given, shownFor, executed>>
           /\ ConnectionTypes' /\ SettingsFollow'
  BY <1>1 DEF ConnectionInv, socket, ExecutedWhereShown,
       WillBeExecutedWhereShown, InOnePlace, Distinct, Disjoint, Fresh
<1>2. CASE UNCHANGED vars
  BY <1>1, <1>2 DEF vars, settings, orders, socket, ConnectionInv,
       ConnectionTypes, SettingsFollow, Given
<1>3. CASE \E ip \in Servers : UpdateSettings(ip)
  BY <1>1, <1>3 DEF UpdateSettings, settings, orders, socket, ConnectionInv,
       ConnectionTypes, SettingsFollow, Given
<1>4. CASE ResetReduxState
  BY <1>1, <1>4 DEF ResetReduxState, ConnectionAssumption, settings, orders,
       socket, ConnectionInv, ConnectionTypes, SettingsFollow, Given
<1>5. QED
  BY <1>2, <1>3, <1>4, ConnectsInv, DisconnectsInv, ReplacesInv, TransmitInv,
     ReceivesInv, ClosesInv DEF Next

LEMMA ConnectionInvImplies ==
  ASSUME ConnectionInv
  PROVE  ShowsTheConnection /\ ExecutedWhereShown /\ ExecutedOnce
<1>1. ShowsTheConnection
  BY DEF ConnectionInv, SettingsFollow, ShowsTheConnection, Shown
<1>2. ToSet(sendBuffer \o wire \o closing.wire)
        \subseteq {sendBuffer[i] : i \in DOMAIN sendBuffer}
          \cup {wire[i] : i \in DOMAIN wire}
          \cup {closing.wire[i] : i \in DOMAIN closing.wire}
  <2>1. \A s, t \in Seq(Given) :
          /\ s \o t \in Seq(Given)
          /\ \A i \in DOMAIN (s \o t) :
               \/ \E j \in DOMAIN s : (s \o t)[i] = s[j]
               \/ \E j \in DOMAIN t : (s \o t)[i] = t[j]
    <3> SUFFICES ASSUME NEW s \in Seq(Given), NEW t \in Seq(Given)
                 PROVE /\ s \o t \in Seq(Given)
                       /\ \A i \in DOMAIN (s \o t) :
                         \/ \E j \in DOMAIN s : (s \o t)[i] = s[j]
                         \/ \E j \in DOMAIN t : (s \o t)[i] = t[j]
      OBVIOUS
    <3>1. s \o t \in Seq(Given)
      OBVIOUS
    <3>2. ASSUME NEW i \in DOMAIN (s \o t)
          PROVE \/ \E j \in DOMAIN s : (s \o t)[i] = s[j]
                \/ \E j \in DOMAIN t : (s \o t)[i] = t[j]
      <4>1. CASE i <= Len(s)
        BY <4>1
      <4>2. CASE ~(i <= Len(s))
        <5>1. i - Len(s) \in DOMAIN t /\ (s \o t)[i] = t[i - Len(s)]
          BY <4>2
        <5>2. QED
          BY <5>1
      <4>3. QED
        BY <4>1, <4>2
    <3>3. QED
      BY <3>1, <3>2
  <2>2. sendBuffer \in Seq(Given) /\ wire \in Seq(Given)
          /\ closing.wire \in Seq(Given)
    BY DEF ConnectionInv, ConnectionTypes
  <2> DEFINE front == sendBuffer \o wire
             all == front \o closing.wire
  <2>3. /\ front \in Seq(Given)
        /\ \A i \in DOMAIN front :
             \/ \E j \in DOMAIN sendBuffer : front[i] = sendBuffer[j]
             \/ \E j \in DOMAIN wire : front[i] = wire[j]
    BY <2>1, <2>2
  <2> HIDE DEF front
  <2>4. \A i \in DOMAIN all :
             \/ \E j \in DOMAIN front : all[i] = front[j]
             \/ \E j \in DOMAIN closing.wire : all[i] = closing.wire[j]
    BY <2>1, <2>2, <2>3
  <2> HIDE DEF all
  <2>5. ToSet(all) \subseteq {sendBuffer[i] : i \in DOMAIN sendBuffer}
          \cup {wire[i] : i \in DOMAIN wire}
          \cup {closing.wire[i] : i \in DOMAIN closing.wire}
    BY <2>3, <2>4 DEF ToSet
  <2>6. QED
    BY <2>5 DEF all, front
<1>3. ExecutedOnce
  BY <1>2 DEF ConnectionInv, InOnePlace, Fresh, ExecutedOnce
<1>4. QED
  BY <1>1, <1>3 DEF ConnectionInv

\* The Settings page names the server that gets the orders until the state is
\* reset; no other server executes an order than the one shown when it was
\* given, and none does twice: for any servers and any number of orders.
THEOREM OrdersReachTheShown ==
  ASSUME ConnectionAssumption
  PROVE  Spec => [](ShowsTheConnection /\ ExecutedWhereShown /\ ExecutedOnce)
<1>1. Init => ConnectionInv
  BY ConnectionInitInv
<1>2. ConnectionInv /\ [Next]_vars => ConnectionInv'
  BY ConnectionStep
<1>3. ConnectionInv
           => ShowsTheConnection /\ ExecutedWhereShown /\ ExecutedOnce
  BY ConnectionInvImplies
<1>4. QED
  BY <1>1, <1>2, <1>3, PTL DEF Spec

\* The variables have their types, and a socket that is connected keeps
\* nothing back, for any servers and any number of orders.
THEOREM ConnectionTypeCorrect ==
  ASSUME ConnectionAssumption
  PROVE  Spec => []ConnectionTypeOK
<1> DEFINE Inv == ConnectionInv /\ given <= MaxOrders
<1>1. ASSUME Init PROVE Inv
  <2>1. ConnectionInv
    BY <1>1, ConnectionInitInv
  <2>2. given = 0 /\ MaxOrders \in Nat
    BY <1>1 DEF Init, ConnectionAssumption
  <2>3. QED
    BY <2>1, <2>2
<1>2. Inv /\ [Next]_vars => Inv'
  <2> SUFFICES ASSUME ConnectionInv, given <= MaxOrders, [Next]_vars
               PROVE  Inv'
    OBVIOUS
  <2>1. ConnectionInv'
    BY ConnectionStep
  <2>2. given \in Nat /\ MaxOrders \in Nat
    BY DEF ConnectionInv, ConnectionTypes, ConnectionAssumption
  <2>3. CASE Transmit
    <3>1. given' <= MaxOrders
      BY <2>2, <2>3 DEF Transmit
    <3>2. QED
      BY <2>1, <3>1
  <2>4. CASE ~Transmit
    <3>1. UNCHANGED given
      BY <2>4 DEF Next, vars, orders, SocketConnects, SocketDisconnects,
         UpdateSettings, ConnectToGndServer, ResetReduxState, ServerReceives,
         OldSocketCloses
    <3>2. QED
      BY <2>1, <3>1
  <2>5. QED
    BY <2>3, <2>4
<1>3. Inv => ConnectionTypeOK
  BY DEF ConnectionInv, ConnectionTypes, ConnectionTypeOK,
     ConnectionAssumption
<1>4. QED
  BY <1>1, <1>2, <1>3, PTL DEF Spec

-----------------------------------------------------------------------------
(* The Tagging page.                                                       *)

\* A file is read or a crop is made, not both.
OneThingAtATime ==
  /\ crops # {} => reads = {}
  /\ reads # {} => chosen = {}

\* What is cropped is the selected image, and it is for its own file.
CropsAreOfTheSelected ==
  /\ \A c \in crops : /\ selectedImage \in Images
                      /\ c.crop = Crop(selectedImage, selectedImage)
                      /\ c.to \in {None, selectedImage}
  /\ croppedImagePath # None =>
       /\ croppedImagePath = selectedImage
       /\ disk[selectedImage] = Crop(selectedImage, selectedImage)

\* What was chosen since the last click describes the selected image, in the
\* form or where the form was saved to.
ChosenDescribesTheSelected ==
  \A f \in chosen :
    /\ selectedImage \in Images
    /\ \/ formValues[f] = selectedImage
       \/ formValues[f] = None /\ annValues[f] = selectedImage

\* From the click until the file is read, its file holds the image's crop.
SubmissionIsOfOneImage ==
  submission.step # "none" =>
    /\ submission.image \in Images
    /\ submission.file = submission.image
    /\ disk[submission.file] = Crop(submission.image, submission.image)

SubmissionTyped ==
  submission \in [step : {"none", "details", "posted"},
                  image : Images \cup {None}, file : Images \cup {None},
                  content :
                       [of : Images \cup {None}, area : Images \cup {None}],
                  description : [Fields -> Images \cup {None}]]

TagInv ==
  /\ TaggingTypeOK /\ SubmissionTyped
  /\ OneThingAtATime /\ CropsAreOfTheSelected /\ ChosenDescribesTheSelected
  /\ SubmissionIsOfOneImage /\ SubmitsTheSelected /\ SubmitsItsDescription

LEMMA TagInitially == ASSUME TaggingAssumption, TaggingInit PROVE TagInv
<1>1. TaggingTypeOK /\ SubmissionTyped
  BY DEF TaggingInit, TaggingTypeOK, SubmissionTyped, NoSubmission, NoCrop,
       Crop, NoValues
<1>2. QED
  BY <1>1 DEF TaggingInit, TagInv, OneThingAtATime, CropsAreOfTheSelected,
     ChosenDescribesTheSelected, SubmissionIsOfOneImage, SubmitsTheSelected,
     SubmitsItsDescription, NoSubmission

LEMMA PageStep ==
  ASSUME TaggingAssumption, Careful, TagInv,
         \/ \E i \in Images : HandleListClick(i) \/ ImageRead(i)
         \/ HandleOpen \/ OnCropComplete \/ HandleCropComplete
  PROVE  TagInv'
<1>1. UNCHANGED <<formValues, annValues, disk, submission>>
  BY DEF HandleListClick, ImageRead, HandleOpen, OnCropComplete,
         HandleCropComplete, cropVars, formVars
<1>2. TaggingTypeOK'
  <2>1. {selectedImage', croppedImagePath', croppedAreaPixels'}
          \subseteq Images \cup {None}
    BY DEF HandleListClick, ImageRead, HandleOpen, OnCropComplete,
         HandleCropComplete, cropVars, formVars, TagInv, TaggingTypeOK
  <2>2. displayCropper' \in BOOLEAN /\ reads' \subseteq Images
          /\ chosen' \subseteq Fields
    BY DEF HandleListClick, ImageRead, HandleOpen, OnCropComplete,
         HandleCropComplete, cropVars, formVars, TagInv, TaggingTypeOK
  <2>3. crops' \subseteq
          [crop : [of : Images, area : Images], to : Images \cup {None}]
    BY DEF HandleListClick, ImageRead, HandleOpen, OnCropComplete,
         HandleCropComplete, cropVars, formVars, TagInv, TaggingTypeOK, Crop
  <2>4. QED
    BY <1>1, <2>1, <2>2, <2>3 DEF TagInv, TaggingTypeOK
<1>3. OneThingAtATime'
  BY DEF HandleListClick, ImageRead, HandleOpen, OnCropComplete,
       HandleCropComplete, cropVars, formVars, TagInv, OneThingAtATime,
       Attentive
<1>4. CropsAreOfTheSelected' /\ ChosenDescribesTheSelected'
  BY DEF HandleListClick, ImageRead, HandleOpen, OnCropComplete,
       HandleCropComplete, cropVars, formVars, TagInv, OneThingAtATime,
       TaggingTypeOK, CropsAreOfTheSelected, ChosenDescribesTheSelected,
       Attentive
<1>5. QED
  BY <1>1, <1>2, <1>3, <1>4 DEF TagInv, SubmissionTyped,
     SubmissionIsOfOneImage, SubmitsTheSelected, SubmitsItsDescription

LEMMA CropStep ==
  ASSUME TaggingAssumption, TagInv, NEW c \in crops, Clipped(c) \/ Written(c)
  PROVE  TagInv'
<1>1. /\ UNCHANGED <<selectedImage, croppedAreaPixels, displayCropper,
                     formValues, annValues, chosen, reads, submission>>
      /\ c.to \in {None, selectedImage} /\ selectedImage \in Images
      /\ c.crop = Crop(selectedImage, selectedImage)
      /\ c \in [crop : [of : Images, area : Images], to : Images \cup {None}]
  BY DEF Clipped, Written, cropVars, formVars, TagInv, CropsAreOfTheSelected,
       TaggingTypeOK
<1>2. CASE Clipped(c)
  <2>1. /\ [c EXCEPT !.to = selectedImage].crop = c.crop
        /\ [c EXCEPT !.to = selectedImage].to = selectedImage
        /\ [c EXCEPT !.to = selectedImage] \in
             [crop : [of : Images, area : Images], to : Images \cup {None}]
    BY <1>1
  <2>2. /\ UNCHANGED <<disk, croppedImagePath>>
        /\ crops' = (crops \ {c}) \cup {[c EXCEPT !.to = selectedImage]}
    BY <1>2 DEF Clipped
  <2>3. \A d \in crops' : d \in crops \/ d = [c EXCEPT !.to = selectedImage]
    BY <2>2
  <2>4. TaggingTypeOK' /\ OneThingAtATime'
    BY <1>1, <2>1, <2>2, <2>3 DEF TagInv, TaggingTypeOK, OneThingAtATime
  <2>5. CropsAreOfTheSelected'
    BY <1>1, <2>1, <2>2, <2>3 DEF TagInv, CropsAreOfTheSelected
  <2>6. QED
    BY <1>1, <2>2, <2>4, <2>5 DEF TagInv, SubmissionTyped,
         ChosenDescribesTheSelected, SubmissionIsOfOneImage,
         SubmitsTheSelected, SubmitsItsDescription
<1>3. CASE Written(c)
  <2>1. /\ c.to = selectedImage /\ crops' = crops \ {c}
        /\ \/ /\ disk' = [disk EXCEPT ![selectedImage] =
                             Crop(selectedImage, selectedImage)]
              /\ croppedImagePath' = selectedImage
           \/ UNCHANGED <<disk, croppedImagePath>>
    BY <1>1, <1>3 DEF Written
  <2>2. Crop(selectedImage, selectedImage) \in [of : Images, area : Images]
    BY <1>1 DEF Crop
  <2>3. disk' \in
          [Images -> [of : Images \cup {None}, area : Images \cup {None}]]
    BY <1>1, <2>1, <2>2 DEF TagInv, TaggingTypeOK
  <2>4. TaggingTypeOK' /\ OneThingAtATime'
    BY <1>1, <2>1, <2>3 DEF TagInv, TaggingTypeOK, OneThingAtATime
  <2>5. \A i \in Images : disk'[i] \in {disk[i], Crop(i, i)}
    BY <1>1, <2>1 DEF TagInv, TaggingTypeOK
  <2>6. croppedImagePath' # None =>
          /\ croppedImagePath' = selectedImage
          /\ disk'[selectedImage] = Crop(selectedImage, selectedImage)
    BY <1>1, <2>1 DEF TagInv, TaggingTypeOK, CropsAreOfTheSelected
  <2>7. CropsAreOfTheSelected'
    BY <1>1, <2>1, <2>6 DEF TagInv, CropsAreOfTheSelected
  <2>8. SubmissionIsOfOneImage'
    BY <1>1, <2>5 DEF TagInv, SubmissionIsOfOneImage
  <2>9. QED
    BY <1>1, <2>4, <2>7, <2>8 DEF TagInv, SubmissionTyped,
         ChosenDescribesTheSelected, SubmitsTheSelected, SubmitsItsDescription
<1>4. QED
  BY <1>2, <1>3

LEMMA FormStep ==
  ASSUME TaggingAssumption, Careful, TagInv,
         (\E f \in Fields : HandleChange(f)) \/ HandleSubmit
  PROVE  TagInv'
<1>1. UNCHANGED <<selectedImage, croppedImagePath, croppedAreaPixels,
                  displayCropper, reads, crops, disk, submission>>
  BY DEF HandleChange, HandleSubmit, cropVars
<1>2. /\ formValues' \in [Fields -> Images \cup {None}]
      /\ annValues' \in [Fields -> Images \cup {None}]
      /\ chosen' \subseteq Fields
  BY DEF HandleChange, HandleSubmit, TagInv, TaggingTypeOK, NoValues
<1>3. OneThingAtATime'
  BY <1>1 DEF HandleChange, HandleSubmit, TagInv, OneThingAtATime, Attentive
<1>4. ChosenDescribesTheSelected'
  <2>1. CASE HandleSubmit
    BY <1>1, <2>1 DEF HandleSubmit, TagInv, TaggingTypeOK,
         ChosenDescribesTheSelected, TaggingAssumption, NoValues
  <2>2. ASSUME NEW f \in Fields, HandleChange(f)
        PROVE  ChosenDescribesTheSelected'
    BY <1>1, <2>2 DEF HandleChange, TagInv, TaggingTypeOK,
         ChosenDescribesTheSelected
  <2>3. QED
    BY <2>1, <2>2
<1>5. TaggingTypeOK'
  BY <1>1, <1>2 DEF TagInv, TaggingTypeOK
<1>6. QED
  BY <1>1, <1>3, <1>4, <1>5 DEF TagInv, SubmissionTyped,
       CropsAreOfTheSelected, SubmissionIsOfOneImage, SubmitsTheSelected,
       SubmitsItsDescription

LEMMA SubmissionStep ==
  ASSUME TaggingAssumption, Careful, TagInv,
         HandleInteropSubmit \/ ImagePosted \/ SubmissionEnds
  PROVE  TagInv'
<1>1. UNCHANGED <<selectedImage, croppedImagePath, croppedAreaPixels,
                  displayCropper, formValues, annValues, chosen, reads, crops,
                  disk>>
  BY DEF HandleInteropSubmit, ImagePosted, SubmissionEnds, cropVars, formVars
<1>2. OneThingAtATime' /\ CropsAreOfTheSelected'
        /\ ChosenDescribesTheSelected'
  BY <1>1 DEF TagInv, OneThingAtATime, CropsAreOfTheSelected,
       ChosenDescribesTheSelected
<1>3. CASE HandleInteropSubmit
  <2>1. /\ submission'.step = "details" /\ submission'.image = selectedImage
        /\ submission'.file = croppedImagePath
        /\ submission'.description = annValues
        /\ SubmissionTyped'
        /\ chosen = Fields /\ formValues = NoValues /\ selectedImage # None
        /\ croppedImagePath # None
    BY <1>3 DEF HandleInteropSubmit, SubmissionTyped, TagInv, TaggingTypeOK,
         NoCrop, Crop
  <2>2. /\ selectedImage \in Images /\ croppedImagePath = selectedImage
        /\ disk[selectedImage] = Crop(selectedImage, selectedImage)
        /\ \A f \in Fields : annValues[f] = selectedImage
    BY <2>1 DEF TagInv, TaggingTypeOK, CropsAreOfTheSelected,
         ChosenDescribesTheSelected, NoValues
  <2>3. TaggingTypeOK'
    BY <1>1, <2>1, <2>2 DEF TagInv, TaggingTypeOK
  <2>4. QED
    BY <1>1, <1>2, <2>1, <2>2, <2>3 DEF TagInv, SubmissionIsOfOneImage,
         SubmitsTheSelected, SubmitsItsDescription
<1>4. CASE ImagePosted
  <2>1. /\ submission.step = "details" /\ submission'.step = "posted"
        /\ submission'.image = submission.image
        /\ submission'.file = submission.file
        /\ submission'.description = submission.description
        /\ submission'.content = disk[submission.file]
        /\ SubmissionTyped'
    BY <1>4 DEF ImagePosted, SubmissionTyped, TagInv, TaggingTypeOK,
         SubmissionIsOfOneImage
  <2>2. TaggingTypeOK'
    BY <1>1, <2>1 DEF TagInv, TaggingTypeOK, SubmissionIsOfOneImage
  <2>3. QED
    BY <1>1, <1>2, <2>1, <2>2 DEF TagInv, SubmissionIsOfOneImage,
         SubmitsTheSelected, SubmitsItsDescription
<1>5. CASE SubmissionEnds
  <2>1. submission'.step = "none" /\ SubmissionTyped'
    BY <1>5 DEF SubmissionEnds, NoSubmission, NoCrop, Crop, NoValues,
         SubmissionTyped
  <2>2. TaggingTypeOK'
    BY <1>1, <2>1 DEF TagInv, TaggingTypeOK
  <2>3. QED
    BY <1>2, <2>1, <2>2 DEF TagInv, SubmissionIsOfOneImage,
         SubmitsTheSelected, SubmitsItsDescription
<1>6. QED
  BY <1>3, <1>4, <1>5

LEMMA TagInvHolds ==
  ASSUME TaggingAssumption, Careful
  PROVE  TaggingSpec => []TagInv
<1>1. TaggingInit => TagInv
  BY TagInitially
<1>2. TagInv /\ UNCHANGED taggingVars => TagInv'
  BY DEF TagInv, TaggingTypeOK, SubmissionTyped, OneThingAtATime,
       CropsAreOfTheSelected, ChosenDescribesTheSelected,
       SubmissionIsOfOneImage, SubmitsTheSelected, SubmitsItsDescription,
       taggingVars, cropVars, formVars
<1>3. TagInv /\ [TaggingNext]_taggingVars => TagInv'
  BY <1>2, PageStep, CropStep, FormStep, SubmissionStep DEF TaggingNext
<1>4. QED
  BY <1>1, <1>3, PTL DEF TaggingSpec

\* What an operator who waits for the files submits is the selected image's
\* crop with the description given for it, for any images and descriptions.
THEOREM SubmissionsAreOfTheSelected ==
  ASSUME TaggingAssumption, Careful
  PROVE  TaggingSpec => [](SubmitsTheSelected /\ SubmitsItsDescription)
<1>1. TagInv => SubmitsTheSelected /\ SubmitsItsDescription
  BY DEF TagInv
<1>2. QED
  BY <1>1, TagInvHolds, PTL

\* The variables have their types, and what is on its way to the ground server
\* has its image, when the operator waits for the files.
THEOREM TaggingTypeCorrect ==
  ASSUME TaggingAssumption, Careful
  PROVE  TaggingSpec => []TaggingTypeOK
<1>1. TagInv => TaggingTypeOK
  BY DEF TagInv
<1>2. QED
  BY <1>1, TagInvHolds, PTL

-----------------------------------------------------------------------------
(* The archived interface's application and its station.                   *)

\* A reader of the messages s, who knows x and learns f[m] from each message m
\* of K, will know v.
WillKnow(s, K, f, x, v) ==
  /\ \A i \in DOMAIN s :
       s[i] \in K /\ (\A j \in DOMAIN s : j > i => s[j] \notin K)
            => f[s[i]] = v
  /\ (\A i \in DOMAIN s : s[i] \notin K) => x = v

LEMMA Concatenated ==
  ASSUME NEW S, NEW s \in Seq(S), NEW u \in Seq(S)
  PROVE  /\ s \o u \in Seq(S)
         /\ Len(s) \in Nat /\ Len(u) \in Nat
         /\ DOMAIN s = 1 .. Len(s) /\ DOMAIN u = 1 .. Len(u)
         /\ DOMAIN (s \o u) = 1 .. Len(s) + Len(u)
         /\ \A i \in DOMAIN s : (s \o u)[i] = s[i]
         /\ \A i \in DOMAIN u : (s \o u)[Len(s) + i] = u[i]
  OBVIOUS

\* What is sent next is read last.
LEMMA KnowsAfterwards ==
  ASSUME NEW S, NEW s \in Seq(S), NEW u \in Seq(S), NEW K, NEW f,
         NEW x, NEW w, NEW v,
         WillKnow(s, K, f, x, w), WillKnow(u, K, f, w, v)
  PROVE  WillKnow(s \o u, K, f, x, v)
<1> DEFINE t == s \o u
<1>1. /\ Len(s) \in Nat /\ Len(u) \in Nat
      /\ DOMAIN s = 1 .. Len(s) /\ DOMAIN u = 1 .. Len(u)
      /\ DOMAIN t = 1 .. Len(s) + Len(u)
      /\ \A i \in DOMAIN s : t[i] = s[i]
      /\ \A i \in DOMAIN u : t[Len(s) + i] = u[i]
  BY Concatenated
<1> HIDE DEF t
<1>2. \A i \in DOMAIN t : i \in DOMAIN s
           \/ (i - Len(s) \in DOMAIN u /\ i = Len(s) + (i - Len(s)))
  BY <1>1
<1>3. ASSUME NEW i \in DOMAIN t, t[i] \in K,
             \A j \in DOMAIN t : j > i => t[j] \notin K
      PROVE  f[t[i]] = v
  <2>1. CASE i \in DOMAIN s
    <3>1. \A j \in DOMAIN s : j > i => s[j] \notin K
      BY <1>1, <1>3
    <3>2. f[s[i]] = w
      BY <1>1, <1>3, <2>1, <3>1 DEF WillKnow
    <3>3. \A j \in DOMAIN u : u[j] \notin K
      <4>1. ASSUME NEW j \in DOMAIN u PROVE u[j] \notin K
        <5>1. Len(s) + j \in DOMAIN t /\ Len(s) + j > i
          BY <1>1, <2>1
        <5>2. QED
          BY <1>1, <1>3, <5>1
      <4>2. QED
        BY <4>1
    <3>4. QED
      BY <1>1, <2>1, <3>2, <3>3 DEF WillKnow
  <2>2. CASE i - Len(s) \in DOMAIN u /\ i = Len(s) + (i - Len(s))
    <3> DEFINE k == i - Len(s)
    <3>1. \A j \in DOMAIN u : j > k => u[j] \notin K
      <4>1. ASSUME NEW j \in DOMAIN u, j > k PROVE u[j] \notin K
        <5>1. Len(s) + j \in DOMAIN t /\ Len(s) + j > i
          BY <1>1, <2>2, <4>1
        <5>2. QED
          BY <1>1, <1>3, <5>1
      <4>2. QED
        BY <4>1
    <3>2. t[i] = u[k] /\ k \in DOMAIN u
      BY <1>1, <2>2
    <3>3. QED
      BY <1>3, <3>1, <3>2 DEF WillKnow
  <2>3. QED
    BY <1>2, <2>1, <2>2
<1>4. ASSUME \A i \in DOMAIN t : t[i] \notin K
      PROVE  x = v
  <2>1. \A i \in DOMAIN s : s[i] \notin K
    BY <1>1, <1>4
  <2>2. \A i \in DOMAIN u : u[i] \notin K
    <3>1. \A i \in DOMAIN u : Len(s) + i \in DOMAIN t
      BY <1>1
    <3>2. QED
      BY <1>1, <1>4, <3>1
  <2>3. QED
    BY <2>1, <2>2 DEF WillKnow
<1>5. QED
  BY <1>3, <1>4 DEF WillKnow, t

\* The last message alone may tell.
LEMMA KnowsFromTheLast ==
  ASSUME NEW S, NEW s \in Seq(S), NEW m \in S, NEW K, NEW f, NEW x, m \in K
  PROVE  WillKnow(s \o <<m>>, K, f, x, f[m])
<1> DEFINE t == s \o <<m>>
<1>1. /\ Len(s) \in Nat /\ DOMAIN t = 1 .. Len(s) + 1
      /\ t[Len(s) + 1] = m
  BY Concatenated
<1> HIDE DEF t
<1>2. \A i \in DOMAIN t : i = Len(s) + 1 \/ Len(s) + 1 > i
  BY <1>1
<1>3. Len(s) + 1 \in DOMAIN t
  BY <1>1
<1>4. QED
  BY <1>1, <1>2, <1>3 DEF WillKnow, t

\* Reading the first message.
LEMMA KnowsOnReading ==
  ASSUME NEW S, NEW s \in Seq(S), s # <<>>, NEW K, NEW f, NEW x, NEW v,
         WillKnow(s, K, f, x, v)
  PROVE  WillKnow(Tail(s), K, f, IF Head(s) \in K THEN f[Head(s)] ELSE x, v)
<1> DEFINE t == Tail(s)
<1>1. /\ Len(s) \in Nat /\ DOMAIN s = 1 .. Len(s) /\ 1 \in DOMAIN s
      /\ DOMAIN t = 1 .. Len(s) - 1
      /\ \A i \in DOMAIN t : i + 1 \in DOMAIN s /\ t[i] = s[i + 1]
      /\ Head(s) = s[1]
  OBVIOUS
<1> HIDE DEF t
<1>2. \A j \in DOMAIN s : j = 1 \/ (j - 1 \in DOMAIN t /\ s[j] = t[j - 1])
  BY <1>1
<1>3. ASSUME NEW i \in DOMAIN t, t[i] \in K,
             \A j \in DOMAIN t : j > i => t[j] \notin K
      PROVE  f[t[i]] = v
  <2>1. \A j \in DOMAIN s : j > i + 1 => s[j] \notin K
    BY <1>1, <1>2, <1>3
  <2>2. QED
    BY <1>1, <1>3, <2>1 DEF WillKnow
<1>4. ASSUME \A i \in DOMAIN t : t[i] \notin K
      PROVE  (IF s[1] \in K THEN f[s[1]] ELSE x) = v
  <2>1. \A j \in DOMAIN s : j > 1 => s[j] \notin K
    BY <1>1, <1>2, <1>4
  <2>2. \A j \in DOMAIN s : j = 1 \/ j > 1
    BY <1>1
  <2>3. QED
    BY <1>1, <2>1, <2>2 DEF WillKnow
<1>5. QED
  BY <1>1, <1>3, <1>4 DEF WillKnow, t

-----------------------------------------------------------------------------
Lists == Missions \cup {Empty}

AppMessages ==
  [type : {"initial_data"}, drone : BOOLEAN, missions : Lists \cup {Unknown}]
    \cup
  [type : {"interop_data", "interop_disconnected", "drone_connected",
           "drone_disconnected", "on_telemetry"},
   missions : Lists \cup {Unknown}]

\* The messages about the drone, and what they say of it.
DroneNews ==
  {m \in AppMessages : m.type \notin {"interop_data", "interop_disconnected"}}
SaysDrone ==
  [m \in DroneNews |->
     IF m.type = "drone_disconnected" \/ (m.type = "initial_data" /\ ~m.drone)
     THEN "away" ELSE "here"]

\* The messages that give the missions, and which.
MissionNews ==
  {m \in AppMessages : \/ m.type \in {"initial_data", "interop_disconnected"}
                       \/ m.type = "interop_data" /\ m.missions # Unknown}
SaysMissions ==
  [m \in MissionNews |->
     IF m.type = "interop_disconnected" \/ m.missions = Unknown THEN Empty
     ELSE m.missions]

TheDrone == IF station.drone THEN "here" ELSE "away"
DroneShown ==
  IF ui.droneState \in {"Drone Connected", "In Air"} THEN "here" ELSE "away"

InteropStates == [missions : Lists, up : BOOLEAN]

StationStates ==
  [client : BOOLEAN, missions : Lists \cup {Unknown}, drone : BOOLEAN]

BrowserStates ==
  [online : BOOLEAN,
   droneState : {"Offline", "Ground Online", "Ground Offline",
                 "Drone Connected", "Drone Disconnected", "In Air"},
   missions : Lists,
   text : {"Connect", "Connecting", "Connected", "Cannot"},
   enabled : BOOLEAN, timers : Nat]

IsBroadcast(b) ==
  \/ b = <<>> \/ b = <<Disconnected>>
  \/ \E missions \in Lists \cup {Unknown} : b = <<Data(missions)>>

AppTypes ==
  /\ interop \in InteropStates
  /\ station \in StationStates
  /\ refresh \in Lists \cup {Unknown, Asleep}
  /\ connect \in {"none", "requested", "asks"}
  /\ IsBroadcast(broadcast) /\ toUi \in Seq(AppMessages)
  /\ ui \in BrowserStates

\* What the station says on joining is read first.
JoinedFirst ==
  /\ ~ui.online => toUi = <<>>
  /\ \A i \in DOMAIN toUi :
       toUi[i].type = "initial_data"
         => i = 1 /\ ui.droneState = "Ground Online"

\* The browser will know whether the drone is connected.
DroneWillBeKnown ==
  ui.online => WillKnow(toUi, DroneNews, SaysDrone, DroneShown, TheDrone)

\* The threads of the station take turns: while the button's handler waits
\* for interop the loop sleeps, and what the loop found or told is current.
TakeTurns ==
  /\ connect = "asks" => refresh = Asleep /\ broadcast = <<>>
  /\ refresh # Asleep => refresh = station.missions
  /\ station.client /\ connect # "asks" => station.missions # Unknown
  /\ broadcast = <<Disconnected>> => ~station.client
  /\ \A missions \in Lists : broadcast = <<Data(missions)>>
       => missions = station.missions

\* The browser has the missions, or they are on their way.
MissionsWillBeKnown ==
  ui.online /\ station.client /\ connect # "asks" =>
    \/ station.missions = Empty
    \/ broadcast = <<Data(station.missions)>>
    \/ WillKnow(toUi, MissionNews, SaysMissions, ui.missions,
                station.missions)

AppInv ==
  /\ AppTypes /\ JoinedFirst /\ DroneWillBeKnown /\ TakeTurns
  /\ MissionsWillBeKnown

LEMMA MessagesTyped ==
  /\ \A missions \in Lists \cup {Unknown} : Data(missions) \in AppMessages
  /\ Disconnected \in AppMessages
  /\ \A type \in {"drone_connected", "drone_disconnected", "on_telemetry"} :
       Message(type) \in AppMessages
  BY DEF Data, Disconnected, Message, AppMessages

LEMMA MessagesDiffer ==
  ASSUME ArchiveAssumption
  PROVE /\ <<Disconnected>> # <<>> /\ \A m : <<Data(m)>> # <<>>
        /\ \A m : <<Data(m)>> # <<Disconnected>>
        /\ \A m, n : <<Data(m)>> = <<Data(n)>> => m = n
<1>1. \A m : Data(m).type = "interop_data" /\ Data(m).missions = m
  BY DEF Data
<1>2. Disconnected.type = "interop_disconnected"
  BY DEF Disconnected, Message
<1>3. /\ <<Disconnected>>[1] = Disconnected /\ Len(<<Disconnected>>) = 1
      /\ \A m : <<Data(m)>>[1] = Data(m) /\ Len(<<Data(m)>>) = 1
      /\ Len(<< >>) = 0
  OBVIOUS
<1>4. QED
  BY <1>1, <1>2, <1>3

\* A message about missions says nothing of the drone, and the other way.
LEMMA WhatMessagesSay ==
  ASSUME ArchiveAssumption
  PROVE /\ Disconnected \in MissionNews \ DroneNews
        /\ SaysMissions[Disconnected] = Empty
        /\ \A m \in Lists : /\ Data(m) \in MissionNews \ DroneNews
                            /\ SaysMissions[Data(m)] = m
        /\ Data(Unknown) \in AppMessages /\ Data(Unknown) \notin MissionNews
        /\ Data(Unknown) \notin DroneNews
        /\ \A type \in {"drone_connected", "drone_disconnected",
                        "on_telemetry"} :
             /\ Message(type) \in DroneNews \ MissionNews
             /\ SaysDrone[Message(type)] =
                  IF type = "drone_disconnected" THEN "away" ELSE "here"
<1>1. Unknown \notin Lists
  BY DEF ArchiveAssumption, Lists
<1>2. /\ \A m : Data(m).type = "interop_data" /\ Data(m).missions = m
      /\ \A type :
           Message(type).type = type /\ Message(type).missions = Unknown
      /\ Disconnected.type = "interop_disconnected"
  BY DEF Data, Message, Disconnected
<1>3. QED
  BY <1>1, <1>2, MessagesTyped DEF DroneNews, MissionNews, SaysDrone,
       SaysMissions

LEMMA Broadcasts ==
  /\ IsBroadcast(<<>>) /\ IsBroadcast(<<Disconnected>>)
  /\ \A missions \in Lists \cup {Unknown} : IsBroadcast(<<Data(missions)>>)
  BY DEF IsBroadcast

LEMMA AppInitially == ASSUME ArchiveAssumption, ArchiveInit PROVE AppInv
<1>1. << >> \in Seq(AppMessages) /\ DOMAIN << >> = {}
  OBVIOUS
<1>2. QED
  BY <1>1, MessagesDiffer, Broadcasts DEF ArchiveInit, AppInv, AppTypes,
       InteropStates, StationStates, BrowserStates, JoinedFirst,
       DroneWillBeKnown, TakeTurns, MissionsWillBeKnown, Lists, Asleep

\* Emitting one message.
LEMMA Emitted ==
  ASSUME AppTypes, JoinedFirst, NEW m \in AppMessages,
         m.type # "initial_data",
         Emit(<<m>>), UNCHANGED ui
  PROVE  /\ toUi' \in Seq(AppMessages) /\ JoinedFirst'
         /\ ui.online => toUi' = toUi \o <<m>>
  <1>1. /\ <<m>> \in Seq(AppMessages) /\ DOMAIN <<m>> = {1} /\ <<m>>[1] = m
        /\ Len(<<m>>) = 1
    OBVIOUS
  <1>2. CASE ui.online
    <2>1. toUi' = toUi \o <<m>>
      BY <1>2 DEF Emit
    <2>2. /\ Len(toUi) \in Nat
          /\ toUi' \in Seq(AppMessages)
          /\ DOMAIN toUi = 1 .. Len(toUi)
          /\ DOMAIN toUi' = 1 .. Len(toUi) + 1
          /\ \A i \in DOMAIN toUi : toUi'[i] = toUi[i]
          /\ toUi'[Len(toUi) + 1] = m
      <3> DEFINE u == <<m>>
      <3>1. u \in Seq(AppMessages) /\ 1 \in DOMAIN u /\ u[1] = m /\ Len(u) = 1
        BY <1>1
      <3>2. toUi' = toUi \o u
        BY <2>1
      <3> HIDE DEF u
      <3>3. toUi \in Seq(AppMessages)
        BY DEF AppTypes, InteropStates, StationStates, BrowserStates
      <3>4. QED
        BY <3>1, <3>2, <3>3, Concatenated
    <2>3. \A i \in DOMAIN toUi' : i \in DOMAIN toUi \/ i = Len(toUi) + 1
      BY <2>2
    <2>4. JoinedFirst'
      <3>1. \A i \in DOMAIN toUi' :
              toUi'[i].type = "initial_data" => i \in DOMAIN toUi
        BY <2>2, <2>3
      <3>2. QED
        BY <1>2, <2>2, <3>1 DEF JoinedFirst
    <2>5. QED
      BY <2>1, <2>2, <2>4
  <1>3. CASE ~ui.online
    BY <1>3 DEF Emit, JoinedFirst, AppTypes, InteropStates, StationStates,
         BrowserStates
  <1>4. QED
    BY <1>2, <1>3

\* ... about the drone
LEMMA EmittedDrone ==
  ASSUME AppTypes, NEW m \in DroneNews, Emit(<<m>>), UNCHANGED ui,
         SaysDrone[m] = TheDrone'
  PROVE  DroneWillBeKnown'
<1>1. ui.online => toUi' = toUi \o <<m>>
  BY DEF Emit
<1>2. toUi \in Seq(AppMessages) /\ m \in AppMessages
  BY DEF AppTypes, InteropStates, StationStates, BrowserStates, DroneNews
<1>3. WillKnow(toUi \o <<m>>, DroneNews, SaysDrone, DroneShown, SaysDrone[m])
  BY <1>2, KnowsFromTheLast
<1>4. QED
  BY <1>1, <1>3 DEF DroneWillBeKnown, DroneShown

LEMMA SilentDrone ==
  ASSUME AppTypes, DroneWillBeKnown, NEW m \in AppMessages,
         m \notin DroneNews,
         Emit(<<m>>), UNCHANGED ui, station'.drone = station.drone
  PROVE  DroneWillBeKnown'
<1> DEFINE u == <<m>>
<1>1. u \in Seq(AppMessages) /\ DOMAIN u = {1} /\ u[1] = m
  OBVIOUS
<1>2. toUi \in Seq(AppMessages) /\ (ui.online => toUi' = toUi \o u)
  BY DEF AppTypes, InteropStates, StationStates, BrowserStates, Emit
<1> HIDE DEF u
<1>3. WillKnow(u, DroneNews, SaysDrone, TheDrone, TheDrone)
  BY <1>1 DEF WillKnow
<1>4. ui.online
           => WillKnow(toUi \o u, DroneNews, SaysDrone, DroneShown, TheDrone)
  BY <1>1, <1>2, <1>3, KnowsAfterwards DEF DroneWillBeKnown
<1>5. QED
  BY <1>2, <1>4 DEF DroneWillBeKnown, DroneShown, TheDrone

\* The same for the missions.
LEMMA EmittedMissions ==
  ASSUME AppTypes, NEW m \in MissionNews, Emit(<<m>>), UNCHANGED ui, ui.online
  PROVE  WillKnow(toUi', MissionNews, SaysMissions, ui'.missions,
                  SaysMissions[m])
<1>1. toUi' = toUi \o <<m>>
  BY DEF Emit
<1>2. toUi \in Seq(AppMessages) /\ m \in AppMessages
  BY DEF AppTypes, InteropStates, StationStates, BrowserStates, MissionNews
<1>3. WillKnow(toUi \o <<m>>, MissionNews, SaysMissions, ui.missions,
               SaysMissions[m])
  BY <1>2, KnowsFromTheLast
<1>4. QED
  BY <1>1, <1>3

LEMMA SilentMissions ==
  ASSUME AppTypes, NEW m \in AppMessages, m \notin MissionNews,
         Emit(<<m>>), UNCHANGED ui, NEW v, ui.online,
         WillKnow(toUi, MissionNews, SaysMissions, ui.missions, v)
  PROVE  WillKnow(toUi', MissionNews, SaysMissions, ui'.missions, v)
<1> DEFINE u == <<m>>
<1>1. u \in Seq(AppMessages) /\ DOMAIN u = {1} /\ u[1] = m
  OBVIOUS
<1>2. toUi \in Seq(AppMessages) /\ toUi' = toUi \o u
  BY DEF AppTypes, InteropStates, StationStates, BrowserStates, Emit
<1> HIDE DEF u
<1>3. WillKnow(u, MissionNews, SaysMissions, v, v)
  BY <1>1 DEF WillKnow
<1>4. QED
  BY <1>1, <1>2, <1>3, KnowsAfterwards

-----------------------------------------------------------------------------
LEMMA TypesKept ==
  ASSUME AppTypes, UNCHANGED <<interop, refresh, connect, broadcast, ui>>,
         station' \in StationStates,
         toUi' \in Seq(AppMessages)
  PROVE  AppTypes'
  BY DEF AppTypes, InteropStates, StationStates, BrowserStates

LEMMA DroneStep ==
  ASSUME ArchiveAssumption, AppInv, DroneConnects \/ DroneDisconnects
  PROVE  AppInv'
<1>1. /\ UNCHANGED <<interop, refresh, connect, broadcast, ui>>
      /\ station'.client = station.client
      /\ station'.missions = station.missions
      /\ station' \in StationStates
  BY DEF DroneConnects, DroneDisconnects, threads, AppInv, AppTypes,
       InteropStates, StationStates, BrowserStates
<1>2. PICK type \in {"drone_connected", "drone_disconnected"} :
        /\ Emit(<<Message(type)>>)
        /\ station'.drone = (type = "drone_connected")
  BY DEF DroneConnects, DroneDisconnects, AppInv, AppTypes, InteropStates,
       StationStates, BrowserStates
<1>3. /\ Message(type) \in AppMessages /\ Message(type).type = type
      /\ Message(type) \in DroneNews /\ Message(type) \notin MissionNews
      /\ SaysDrone[Message(type)] = TheDrone'
  BY <1>2, WhatMessagesSay, MessagesTyped DEF Message, TheDrone
<1>4. toUi' \in Seq(AppMessages) /\ JoinedFirst'
  BY <1>1, <1>2, <1>3, Emitted DEF AppInv
<1>9. AppTypes'
  BY <1>1, <1>4, TypesKept DEF AppInv
<1>5. DroneWillBeKnown'
  BY <1>1, <1>2, <1>3, EmittedDrone DEF AppInv
<1>6. TakeTurns'
  BY <1>1 DEF AppInv, TakeTurns
<1>7. MissionsWillBeKnown'
  BY <1>1, <1>2, <1>3, SilentMissions DEF AppInv, MissionsWillBeKnown
<1>8. QED
  BY <1>4, <1>5, <1>6, <1>7, <1>9 DEF AppInv

\* The connect button.
LEMMA ConnectAsks ==
  ASSUME ArchiveAssumption, Apart, AppInv, ConnectToInterop
  PROVE  AppInv'
<1>1. /\ UNCHANGED <<interop, refresh, broadcast, ui>>
      /\ station'.drone = station.drone
      /\ station'.missions = station.missions
      /\ station' \in StationStates
      /\ refresh = Asleep /\ broadcast = <<>>
      /\ connect' \in {"none", "asks"}
      /\ connect' # "asks" => ~station'.client /\ Emit(<<Disconnected>>)
      /\ connect' = "asks" => UNCHANGED toUi
  BY DEF ConnectToInterop, AppInv, AppTypes, InteropStates, StationStates,
       BrowserStates
<1>2. /\ Disconnected \in AppMessages /\ Disconnected \notin DroneNews
      /\ Disconnected.type # "initial_data"
  BY WhatMessagesSay, MessagesTyped DEF Disconnected, Message
<1>3. toUi' \in Seq(AppMessages) /\ JoinedFirst'
  <2>1. CASE connect' = "asks"
    BY <1>1, <2>1 DEF AppInv, AppTypes, InteropStates, StationStates,
         BrowserStates, JoinedFirst
  <2>2. CASE connect' # "asks"
    BY <1>1, <1>2, <2>2, Emitted DEF AppInv
  <2>3. QED
    BY <2>1, <2>2
<1>4. AppTypes'
  BY <1>1, <1>3 DEF AppInv, AppTypes
<1>5. DroneWillBeKnown'
  <2>1. CASE connect' = "asks"
    BY <1>1, <2>1 DEF AppInv, DroneWillBeKnown, TheDrone, DroneShown
  <2>2. CASE connect' # "asks"
    BY <1>1, <1>2, <2>2, SilentDrone DEF AppInv
  <2>3. QED
    BY <2>1, <2>2
<1>6. TakeTurns'
  BY <1>1, MessagesDiffer DEF AppInv, TakeTurns
<1>7. MissionsWillBeKnown'
  BY <1>1 DEF MissionsWillBeKnown
<1>8. QED
  BY <1>3, <1>4, <1>5, <1>6, <1>7 DEF AppInv

LEMMA ConnectEnds ==
  ASSUME ArchiveAssumption, AppInv, ConnectAnswered
  PROVE  AppInv'
<1>1. /\ UNCHANGED <<interop, refresh, broadcast, ui>>
      /\ station'.drone = station.drone
      /\ station' \in StationStates
      /\ connect' = "none" /\ refresh = Asleep /\ broadcast = <<>>
  BY DEF ConnectAnswered, AppInv, AppTypes, InteropStates, StationStates,
       BrowserStates, TakeTurns
<1>2. /\ interop.missions \in Lists
      /\ station'.client => station'.missions = interop.missions
  BY DEF ConnectAnswered, AppInv, AppTypes, InteropStates, StationStates,
       BrowserStates
<1>3. PICK m \in AppMessages :
        /\ Emit(<<m>>) /\ m.type # "initial_data"
        /\ m \in MissionNews \ DroneNews
        /\ station'.client => SaysMissions[m] = station'.missions
  <2>1. CASE interop.up /\ station.client
    <3>1. Emit(<<Data(interop.missions)>>)
      BY <2>1 DEF ConnectAnswered
    <3>2. Data(interop.missions).type # "initial_data"
      BY DEF Data
    <3>3. QED
      BY <1>2, <3>1, <3>2, WhatMessagesSay, MessagesTyped
  <2>2. CASE ~(interop.up /\ station.client)
    <3>1. Emit(<<Disconnected>>) /\ ~station'.client
      BY <2>2 DEF ConnectAnswered, AppInv, AppTypes, InteropStates,
           StationStates, BrowserStates
    <3>2. Disconnected.type # "initial_data"
      BY DEF Disconnected, Message
    <3>3. QED
      BY <3>1, <3>2, WhatMessagesSay, MessagesTyped
  <2>3. QED
    BY <2>1, <2>2
<1>4. toUi' \in Seq(AppMessages) /\ JoinedFirst'
  BY <1>1, <1>3, Emitted DEF AppInv
<1>5. AppTypes'
  BY <1>1, <1>4 DEF AppInv, AppTypes
<1>6. DroneWillBeKnown'
  BY <1>1, <1>3, SilentDrone DEF AppInv
<1>7. TakeTurns'
  <2>1. Unknown \notin Lists
    BY DEF ArchiveAssumption, Lists
  <2>2. QED
    BY <1>1, <1>2, <2>1, MessagesDiffer DEF AppInv, TakeTurns
<1>8. MissionsWillBeKnown'
  <2>1. ui.online => WillKnow(toUi', MissionNews, SaysMissions,
                              ui'.missions, SaysMissions[m])
    BY <1>1, <1>3, EmittedMissions DEF AppInv
  <2>2. QED
    BY <1>1, <1>3, <2>1 DEF MissionsWillBeKnown
<1>9. QED
  BY <1>4, <1>5, <1>6, <1>7, <1>8 DEF AppInv

\* The handler of the drone's telemetry: one message or two.
LEMMA TelemetryStep ==
  ASSUME ArchiveAssumption, AppInv, Telemetry
  PROVE  AppInv'
<1> DEFINE m == Message("on_telemetry")
<1>1. /\ UNCHANGED <<interop, refresh, connect, broadcast, ui>>
      /\ station'.drone = station.drone
      /\ station'.missions = station.missions
      /\ station' \in StationStates
      /\ station'.client => station.client
      /\ station.drone /\ TheDrone' = "here"
  BY DEF Telemetry, threads, AppInv, AppTypes, InteropStates, StationStates,
       BrowserStates, TheDrone
<1>2. /\ m \in AppMessages /\ m.type # "initial_data"
      /\ m \in DroneNews /\ m \notin MissionNews /\ SaysDrone[m] = "here"
      /\ Disconnected \in AppMessages /\ Disconnected.type # "initial_data"
      /\ Disconnected \notin DroneNews
  BY WhatMessagesSay, MessagesTyped DEF Message, Disconnected
<1>3. TakeTurns'
  BY <1>1 DEF AppInv, TakeTurns
<1>4. CASE Emit(<<m>>) /\ UNCHANGED station
  <2>1. toUi' \in Seq(AppMessages) /\ JoinedFirst'
    BY <1>1, <1>2, <1>4, Emitted DEF AppInv
  <2>2. AppTypes'
    BY <1>1, <2>1, TypesKept DEF AppInv
  <2>3. DroneWillBeKnown'
    BY <1>1, <1>2, <1>4, EmittedDrone DEF AppInv
  <2>4. MissionsWillBeKnown'
    BY <1>1, <1>2, <1>4, SilentMissions DEF AppInv, MissionsWillBeKnown
  <2>5. QED
    BY <1>3, <2>1, <2>2, <2>3, <2>4 DEF AppInv
<1>5. CASE Emit(<<m, Disconnected>>) /\ ~station'.client
  <2> DEFINE u == <<m, Disconnected>>
  <2>1. u \in Seq(AppMessages) /\ Len(u) = 2 /\ DOMAIN u = {1, 2} /\ u[1] = m
          /\ u[2] = Disconnected
    BY <1>2
  <2>2. /\ toUi \in Seq(AppMessages)
        /\ toUi' = IF ui.online THEN toUi \o u ELSE toUi
    BY <1>5 DEF Emit, AppInv, AppTypes, InteropStates, StationStates,
         BrowserStates
  <2> HIDE DEF u
  <2>3. /\ toUi \o u \in Seq(AppMessages)
        /\ Len(toUi) \in Nat
        /\ DOMAIN toUi = 1 .. Len(toUi)
        /\ DOMAIN (toUi \o u) = 1 .. Len(toUi) + 2
        /\ \A i \in DOMAIN toUi : (toUi \o u)[i] = toUi[i]
        /\ (toUi \o u)[Len(toUi) + 1] = m
        /\ (toUi \o u)[Len(toUi) + 2] = Disconnected
    <3>1. /\ toUi \o u \in Seq(AppMessages)
          /\ Len(toUi) \in Nat
          /\ DOMAIN toUi = 1 .. Len(toUi)
          /\ DOMAIN (toUi \o u) = 1 .. Len(toUi) + Len(u)
          /\ \A i \in DOMAIN toUi : (toUi \o u)[i] = toUi[i]
          /\ \A i \in DOMAIN u : (toUi \o u)[Len(toUi) + i] = u[i]
      <4>1. toUi \in Seq(AppMessages) /\ u \in Seq(AppMessages)
        BY <2>1, <2>2
      <4>2. QED
        BY <4>1, Concatenated
    <3> HIDE DEF m
    <3>2. QED
      BY <2>1, <3>1
  <2> DEFINE t == toUi \o u
  <2> HIDE DEF t
  <2>4. /\ t \in Seq(AppMessages) /\ toUi' = IF ui.online THEN t ELSE toUi
        /\ \A i \in DOMAIN t : t[i].type = "initial_data"
             => i \in DOMAIN toUi /\ t[i] = toUi[i]
    BY <1>2, <2>2, <2>3 DEF t
  <2>5. toUi' \in Seq(AppMessages) /\ JoinedFirst'
    <3>1. CASE ui.online
      BY <1>1, <2>4, <3>1 DEF AppInv, JoinedFirst
    <3>2. CASE ~ui.online
      BY <1>1, <2>2, <2>4, <3>2 DEF AppInv, JoinedFirst
    <3>3. QED
      BY <3>1, <3>2
  <2>6. AppTypes'
    BY <1>1, <2>5, TypesKept DEF AppInv
  <2>7. DroneWillBeKnown'
    <3>1. WillKnow(u, DroneNews, SaysDrone, "here", "here")
      BY <1>2, <2>1 DEF WillKnow
    <3>2. TheDrone = "here"
      BY <1>1 DEF TheDrone
    <3>3. ui.online => WillKnow(t, DroneNews, SaysDrone, DroneShown, "here")
      BY <2>1, <2>2, <3>1, <3>2, KnowsAfterwards DEF AppInv, DroneWillBeKnown,
           t
    <3>4. QED
      BY <1>1, <2>4, <3>3 DEF DroneWillBeKnown, DroneShown
  <2>8. MissionsWillBeKnown'
    BY <1>5 DEF MissionsWillBeKnown
  <2>9. QED
    BY <1>3, <2>5, <2>6, <2>7, <2>8 DEF AppInv
<1>6. QED
  BY <1>4, <1>5 DEF Telemetry, AppInv, AppTypes, InteropStates, StationStates,
       BrowserStates

\* The loop.
LEMMA RefreshStep ==
  ASSUME ArchiveAssumption, Apart, AppInv, RefreshAsks \/ RefreshAnswered
  PROVE  AppInv'
<1>1. /\ UNCHANGED <<interop, connect, toUi, ui>>
      /\ station'.drone = station.drone
      /\ station' \in StationStates
  BY DEF RefreshAsks, RefreshAnswered, AppInv, AppTypes, InteropStates,
       StationStates, BrowserStates
<1>2. JoinedFirst' /\ DroneWillBeKnown'
  BY <1>1 DEF AppInv, JoinedFirst, DroneWillBeKnown, DroneShown, TheDrone
<1>3. CASE RefreshAsks
  <2>1. /\ UNCHANGED <<station, broadcast>> /\ refresh' = station.missions
        /\ connect # "asks"
    BY <1>3 DEF RefreshAsks
  <2>2. AppTypes'
    <3>1. station.missions \in Lists \cup {Unknown}
      BY DEF AppInv, AppTypes, StationStates
    <3>2. QED
      BY <1>1, <2>1, <3>1 DEF AppInv, AppTypes
  <2>3. TakeTurns' /\ MissionsWillBeKnown'
    BY <1>1, <2>1 DEF AppInv, TakeTurns, MissionsWillBeKnown
  <2>4. QED
    BY <1>2, <2>2, <2>3 DEF AppInv
<1>4. CASE RefreshAnswered
  <2>1. /\ refresh' = Asleep /\ broadcast = <<>> /\ connect # "asks"
        /\ refresh = station.missions /\ interop.missions \in Lists
    BY <1>4 DEF RefreshAnswered, AppInv, AppTypes, InteropStates,
         StationStates, BrowserStates, TakeTurns
  <2>2. Unknown \notin Lists
    BY DEF ArchiveAssumption, Lists
  <2>3. CASE /\ station.client /\ station'.client
             /\ station'.missions = interop.missions
             /\ broadcast' = <<Data(Changed(refresh, interop.missions))>>
    <3>1. Changed(refresh, interop.missions) \in Lists \cup {Unknown}
      BY <2>1 DEF Changed
    <3>2. AppTypes'
      BY <1>1, <2>1, <2>3, <3>1, Broadcasts DEF AppInv, AppTypes
    <3>3. /\ \A x \in Lists : broadcast' = <<Data(x)>>
               => x = station'.missions
          /\ broadcast' # <<Disconnected>>
      BY <2>2, <2>3, MessagesDiffer DEF Changed
    <3>4. TakeTurns'
      BY <1>1, <2>1, <2>2, <2>3, <3>3 DEF AppInv, TakeTurns
    <3>5. MissionsWillBeKnown'
      BY <1>1, <2>1, <2>3, MessagesDiffer DEF AppInv, MissionsWillBeKnown,
           Changed
    <3>6. QED
      BY <1>2, <3>2, <3>4, <3>5 DEF AppInv
  <2>4. CASE ~station'.client /\ broadcast' = <<Disconnected>>
    <3>1. AppTypes'
      BY <1>1, <2>1, <2>4, Broadcasts DEF AppInv, AppTypes
    <3>2. TakeTurns' /\ MissionsWillBeKnown'
      BY <1>1, <2>1, <2>4, MessagesDiffer DEF TakeTurns, MissionsWillBeKnown
    <3>3. QED
      BY <1>2, <3>1, <3>2 DEF AppInv
  <2>5. QED
    BY <1>4, <2>3, <2>4 DEF RefreshAnswered, AppInv, AppTypes, InteropStates,
         StationStates, BrowserStates
<1>5. QED
  BY <1>3, <1>4

LEMMA BroadcastStep ==
  ASSUME ArchiveAssumption, AppInv, Broadcast
  PROVE  AppInv'
<1>1. /\ UNCHANGED <<interop, station, refresh, connect, ui>>
      /\ broadcast # <<>> /\ Emit(<<Head(broadcast)>>)
      /\ broadcast' = Tail(broadcast)
  BY DEF Broadcast
<1>2. PICK m \in AppMessages :
        /\ broadcast = <<m>> /\ m.type # "initial_data" /\ m \notin DroneNews
        /\ \/ m = Disconnected
           \/ m = Data(Unknown)
           \/ m = Data(station.missions) /\ station.missions \in Lists
  <2>1. CASE broadcast = <<Disconnected>>
    BY <2>1, WhatMessagesSay, MessagesTyped DEF Disconnected, Message
  <2>2. ASSUME NEW x \in Lists \cup {Unknown}, broadcast = <<Data(x)>>
        PROVE  \E m \in AppMessages :
        /\ broadcast = <<m>> /\ m.type # "initial_data" /\ m \notin DroneNews
        /\ \/ m = Disconnected
           \/ m = Data(Unknown)
           \/ m = Data(station.missions) /\ station.missions \in Lists
    <3>1. Data(x) \in AppMessages /\ Data(x).type # "initial_data"
            /\ Data(x) \notin DroneNews
      BY WhatMessagesSay, MessagesTyped DEF Data
    <3>2. x = Unknown \/ (x = station.missions /\ station.missions \in Lists)
      BY <2>2 DEF AppInv, TakeTurns
    <3>3. QED
      BY <2>2, <3>1, <3>2
  <2>3. QED
    BY <1>1, <2>1, <2>2 DEF AppInv, AppTypes, InteropStates, StationStates,
         BrowserStates, IsBroadcast
<1>3. Emit(<<m>>) /\ broadcast' = <<>>
  BY <1>1, <1>2
<1>4. toUi' \in Seq(AppMessages) /\ JoinedFirst'
  BY <1>1, <1>2, <1>3, Emitted DEF AppInv
<1>5. AppTypes'
  <2>1. IsBroadcast(broadcast')
    BY <1>3, Broadcasts
  <2>2. UNCHANGED <<interop, station, refresh, connect, ui>>
    BY <1>1
  <2>3. QED
    BY <1>4, <2>1, <2>2 DEF AppInv, AppTypes
<1>6. DroneWillBeKnown'
  BY <1>1, <1>2, <1>3, SilentDrone DEF AppInv
<1>7. TakeTurns'
  BY <1>1, <1>3, MessagesDiffer DEF AppInv, TakeTurns
<1>8. MissionsWillBeKnown'
  <2> SUFFICES ASSUME ui.online, station.client, connect # "asks",
                      station.missions # Empty
               PROVE  WillKnow(toUi', MissionNews, SaysMissions, ui'.missions,
                               station.missions)
    BY <1>1 DEF MissionsWillBeKnown
  <2>1. m # Disconnected
    BY <1>2 DEF AppInv, TakeTurns
  <2>2. CASE m = Data(Unknown)
    <3>1. Data(Unknown) \notin MissionNews /\ Unknown \notin Lists
      BY WhatMessagesSay DEF ArchiveAssumption, Lists
    <3>2. CASE broadcast = <<Data(station.missions)>>
      <4>1. station.missions = Unknown
        BY <1>2, <2>2, <3>2, MessagesDiffer
      <4>2. QED
        BY <4>1 DEF AppInv, TakeTurns
    <3>3. QED
      BY <1>1, <1>2, <1>3, <2>2, <3>1, <3>2, SilentMissions DEF AppInv,
           MissionsWillBeKnown
  <2>3. CASE m = Data(station.missions) /\ station.missions \in Lists
    <3>1. m \in MissionNews /\ SaysMissions[m] = station.missions
      BY <2>3, WhatMessagesSay
    <3>2. QED
      BY <1>1, <1>3, <3>1, EmittedMissions DEF AppInv
  <2>4. QED
    BY <1>2, <2>1, <2>2, <2>3
<1>9. QED
  BY <1>4, <1>5, <1>6, <1>7, <1>8 DEF AppInv

\* The browser.
LEMMA JoinStep ==
  ASSUME ArchiveAssumption, AppInv, Connects
  PROVE  AppInv'
<1> DEFINE told == IF station.client THEN station.missions ELSE Unknown
           m == [type |-> "initial_data", drone |-> station.drone,
                 missions |-> told]
<1>1. /\ UNCHANGED <<interop, station, refresh, connect, broadcast>>
      /\ ui' = [ui EXCEPT !.online = TRUE, !.droneState = "Ground Online"]
      /\ toUi' = <<m>> /\ (station.client => station.missions # Unknown)
  BY DEF Connects, InitialData, threads
<1>2. /\ station.drone \in BOOLEAN /\ station.client \in BOOLEAN
      /\ station.missions \in Lists \cup {Unknown}
      /\ told \in Lists \cup {Unknown}
  BY DEF AppInv, AppTypes, InteropStates, StationStates, BrowserStates
<1>3. /\ m \in AppMessages /\ m.type = "initial_data"
      /\ m.drone = station.drone
      /\ m.missions = told
  BY <1>2 DEF AppMessages
<1>4. /\ m \in DroneNews /\ m \in MissionNews
      /\ SaysDrone[m] = TheDrone
      /\ SaysMissions[m] = IF told = Unknown THEN Empty ELSE told
  BY <1>3 DEF DroneNews, MissionNews, SaysDrone, SaysMissions, TheDrone
<1> HIDE DEF m
<1>5. /\ toUi' \in Seq(AppMessages) /\ DOMAIN toUi' = {1} /\ toUi'[1] = m
  BY <1>1, <1>3
<1>6. AppTypes'
  BY <1>1, <1>5 DEF AppInv, AppTypes, BrowserStates
<1>7. ui'.online /\ ui'.droneState = "Ground Online"
  BY <1>1 DEF AppInv, AppTypes, InteropStates, StationStates, BrowserStates
<1>8. JoinedFirst'
  BY <1>5, <1>7 DEF JoinedFirst
<1>9. DroneWillBeKnown'
  BY <1>1, <1>4, <1>5 DEF DroneWillBeKnown, WillKnow, TheDrone
<1>10. TakeTurns'
  BY <1>1 DEF AppInv, TakeTurns
<1>11. MissionsWillBeKnown'
  BY <1>1, <1>4, <1>5 DEF MissionsWillBeKnown, WillKnow
<1>12. QED
  BY <1>6, <1>8, <1>9, <1>10, <1>11 DEF AppInv

LEMMA LeaveStep ==
  ASSUME ArchiveAssumption, AppInv, Disconnects
  PROVE  AppInv'
<1>1. /\ UNCHANGED <<interop, station, refresh, connect, broadcast>>
      /\ ui' = [ui EXCEPT !.online = FALSE, !.droneState = "Ground Offline"]
      /\ toUi' = <<>>
  BY DEF Disconnects, threads
<1>2. << >> \in Seq(AppMessages) /\ DOMAIN << >> = {}
  OBVIOUS
<1>3. ~ui'.online /\ AppTypes'
  BY <1>1, <1>2 DEF AppInv, AppTypes, InteropStates, StationStates,
       BrowserStates
<1>4. QED
  BY <1>1, <1>2, <1>3
  DEF AppInv, JoinedFirst, DroneWillBeKnown, TakeTurns, MissionsWillBeKnown

LEMMA ButtonStep ==
  ASSUME ArchiveAssumption, AppInv,
         PressInterop \/ TimerFires \/ InteropChanges
  PROVE  AppInv'
<1>1. /\ UNCHANGED <<station, refresh, broadcast, toUi>>
      /\ ui'.online = ui.online /\ ui'.droneState = ui.droneState
      /\ ui'.missions = ui.missions
      /\ connect' = "asks" <=> connect = "asks"
  BY DEF PressInterop, TimerFires, InteropChanges, threads, AppInv, AppTypes,
       InteropStates, StationStates, BrowserStates
<1>2. AppTypes'
  <2>1. CASE PressInterop
    BY <2>1 DEF PressInterop, AppInv, AppTypes, InteropStates, StationStates,
         BrowserStates
  <2>2. CASE TimerFires
    <3>1. /\ UNCHANGED <<interop, station, refresh, connect, broadcast, toUi>>
          /\ ui' = [ui EXCEPT !.text = "Connect", !.timers = @ - 1]
          /\ ui.timers > 0 /\ ui.timers \in Nat
      BY <2>2 DEF TimerFires, threads, AppInv, AppTypes, InteropStates,
           StationStates, BrowserStates
    <3>2. ui.timers - 1 \in Nat
      BY <3>1
    <3>3. QED
      BY <3>1, <3>2 DEF AppInv, AppTypes, InteropStates, StationStates,
           BrowserStates
  <2>3. CASE InteropChanges
    <3>1. /\ UNCHANGED <<station, refresh, connect, broadcast, toUi, ui>>
          /\ interop' \in InteropStates
      BY <2>3 DEF InteropChanges, threads, Lists, InteropStates
    <3>2. QED
      BY <3>1 DEF AppInv, AppTypes
  <2>4. QED
    BY <2>1, <2>2, <2>3
<1>3. QED
  BY <1>1, <1>2 DEF AppInv, JoinedFirst, DroneWillBeKnown, TakeTurns,
       MissionsWillBeKnown, DroneShown, TheDrone

LEMMA ReadStep ==
  ASSUME ArchiveAssumption, AppInv, Receive
  PROVE  AppInv'
<1> DEFINE m == Head(toUi)
<1>1. /\ UNCHANGED <<interop, station, refresh, connect, broadcast>>
      /\ toUi # <<>> /\ ui' = Received(m) /\ toUi' = Tail(toUi)
      /\ toUi \in Seq(AppMessages)
  BY DEF Receive, threads, AppInv, AppTypes, InteropStates, StationStates,
       BrowserStates
<1>2. /\ m \in AppMessages /\ m = toUi[1] /\ 1 \in DOMAIN toUi
      /\ toUi' \in Seq(AppMessages)
      /\ \A i \in DOMAIN toUi' :
           i + 1 \in DOMAIN toUi /\ toUi'[i] = toUi[i + 1] /\ i + 1 # 1
  BY <1>1
<1>3. /\ WillKnow(toUi, DroneNews, SaysDrone, DroneShown, TheDrone) =>
           WillKnow(toUi', DroneNews, SaysDrone,
             IF m \in DroneNews THEN SaysDrone[m] ELSE DroneShown, TheDrone)
      /\ \A v : WillKnow(toUi, MissionNews, SaysMissions, ui.missions, v) =>
           WillKnow(toUi', MissionNews, SaysMissions,
             IF m \in MissionNews THEN SaysMissions[m] ELSE ui.missions, v)
  BY <1>1, KnowsOnReading
<1> HIDE DEF m
<1>4. ui.online
        /\ (m.type = "initial_data" => ui.droneState = "Ground Online")
  BY <1>1, <1>2 DEF AppInv, JoinedFirst, AppTypes, InteropStates,
       StationStates, BrowserStates
<1>5. Unknown \notin Lists /\ Empty \in Lists
  BY DEF ArchiveAssumption, Lists
<1>6. /\ m.missions \in Lists \cup {Unknown}
      /\ m.type \in {"initial_data", "interop_data", "interop_disconnected",
           "drone_connected", "drone_disconnected", "on_telemetry"}
      /\ m.type = "initial_data" => m.drone \in BOOLEAN
  BY <1>2 DEF AppMessages
<1>7. \A u \in BrowserStates, c \in BOOLEAN :
        /\ ReceivedInteropStatus(u, c) \in BrowserStates
        /\ ReceivedInteropStatus(u, c).online = u.online
        /\ ReceivedInteropStatus(u, c).droneState = u.droneState
        /\ ReceivedInteropStatus(u, c).missions =
             IF c THEN u.missions ELSE Empty
  <2> TAKE u \in BrowserStates, c \in BOOLEAN
  <2>1. CASE c
    BY <2>1 DEF ReceivedInteropStatus, BrowserStates
  <2>2. CASE ~c
    <3>1. u.timers \in Nat
      BY DEF BrowserStates
    <3>2. u.timers + 1 \in Nat
      BY <3>1
    <3>3. QED
      BY <1>5, <2>2, <3>1, <3>2 DEF ReceivedInteropStatus, BrowserStates
  <2>3. QED
    BY <2>1, <2>2
<1>8. ui \in BrowserStates
  BY DEF AppInv, AppTypes, InteropStates, StationStates, BrowserStates
<1>9. /\ ui' \in BrowserStates /\ ui'.online = ui.online
      /\ ui'.droneState =
           IF \/ m.type = "initial_data" /\ m.drone
              \/ m.type = "drone_connected"
           THEN "Drone Connected"
           ELSE IF m.type = "drone_disconnected" THEN "Drone Disconnected"
           ELSE IF m.type = "on_telemetry" THEN "In Air"
           ELSE ui.droneState
      /\ ui'.missions =
           IF \/ m.type = "interop_disconnected"
              \/ m.type = "initial_data" /\ m.missions = Unknown
           THEN Empty
           ELSE IF m.type \in {"initial_data", "interop_data"}
             /\ m.missions # Unknown
           THEN m.missions ELSE ui.missions
  <2> DEFINE with == IF m.missions = Unknown THEN ui
                     ELSE [ui EXCEPT !.missions = m.missions]
             joined == IF m.type = "initial_data" /\ m.drone
                THEN [with EXCEPT !.droneState = "Drone Connected"] ELSE with
  <2>1. /\ with \in BrowserStates /\ with.online = ui.online
        /\ with.droneState = ui.droneState
        /\ with.missions =
             IF m.missions = Unknown THEN ui.missions ELSE m.missions
    BY <1>6, <1>8 DEF BrowserStates
  <2>2. /\ joined \in BrowserStates /\ joined.online = ui.online
        /\ joined.droneState = IF m.type = "initial_data" /\ m.drone
                               THEN "Drone Connected" ELSE ui.droneState
        /\ joined.missions = with.missions
    BY <1>6, <2>1 DEF BrowserStates
  <2>3. CASE m.type = "initial_data"
    <3>1. ui' = ReceivedInteropStatus(joined, m.missions # Unknown)
      BY <1>1, <2>3 DEF Received
    <3> HIDE DEF joined, with
    <3>2. QED
      BY <1>6, <1>7, <2>1, <2>2, <2>3, <3>1
  <2>4. CASE m.type \in {"interop_data", "interop_disconnected"}
    BY <1>1, <1>7, <1>8, <2>1, <2>4 DEF Received
  <2>5. CASE m.type \in {"drone_connected", "drone_disconnected",
                         "on_telemetry"}
    BY <1>1, <1>8, <2>5 DEF Received, BrowserStates
  <2>6. QED
    BY <1>6, <2>3, <2>4, <2>5
<1>10. AppTypes'
  BY <1>1, <1>2, <1>9 DEF AppInv, AppTypes
<1>11. JoinedFirst'
  BY <1>2, <1>4, <1>9 DEF AppInv, JoinedFirst
<1>12. DroneShown' = IF m \in DroneNews THEN SaysDrone[m] ELSE DroneShown
  <2>1. m \in DroneNews
             <=> m.type \notin {"interop_data", "interop_disconnected"}
    BY <1>2 DEF DroneNews
  <2>2. m \in DroneNews => SaysDrone[m] =
     IF m.type = "drone_disconnected" \/ (m.type = "initial_data" /\ ~m.drone)
     THEN "away" ELSE "here"
    BY DEF SaysDrone
  <2>3. QED
    BY <1>4, <1>6, <1>9, <2>1, <2>2 DEF DroneShown
<1>13. ui'.missions =
         IF m \in MissionNews THEN SaysMissions[m] ELSE ui.missions
  BY <1>2, <1>6, <1>9 DEF MissionNews, SaysMissions
<1>14. DroneWillBeKnown' /\ MissionsWillBeKnown' /\ TakeTurns'
  BY <1>1, <1>3, <1>4, <1>12, <1>13
  DEF AppInv, DroneWillBeKnown, MissionsWillBeKnown, TakeTurns, TheDrone
<1>15. QED
  BY <1>10, <1>11, <1>14 DEF AppInv

LEMMA AppInvHolds ==
  ASSUME ArchiveAssumption, Apart
  PROVE  ArchiveSpec => []AppInv
<1>1. ArchiveInit => AppInv
  BY AppInitially
<1>2. AppInv /\ UNCHANGED archiveVars => AppInv'
  BY DEF AppInv, archiveVars, threads, AppTypes, InteropStates, StationStates,
       BrowserStates, JoinedFirst, DroneWillBeKnown, DroneShown, TheDrone,
       TakeTurns, MissionsWillBeKnown
<1>3. AppInv /\ [ArchiveNext]_archiveVars => AppInv'
  BY <1>2, DroneStep, TelemetryStep, ButtonStep, ConnectAsks, ConnectEnds,
     RefreshStep, BroadcastStep, JoinStep, LeaveStep, ReadStep DEF ArchiveNext
<1>4. QED
  BY <1>1, <1>3, PTL DEF ArchiveSpec

LEMMA AppInvImplies ==
  ASSUME ArchiveAssumption, AppInv
  PROVE  StateTellsTheDrone /\ MissionsOfTheStation
<1>1. DOMAIN << >> = {}
  OBVIOUS
<1>2. StateTellsTheDrone
  BY <1>1 DEF AppInv, AppTypes, InteropStates, StationStates, BrowserStates,
       DroneWillBeKnown, WillKnow, DroneShown, TheDrone, StateTellsTheDrone
<1>3. MissionsOfTheStation
  BY <1>1, MessagesDiffer DEF AppInv, MissionsWillBeKnown, WillKnow,
       MissionsOfTheStation
<1>4. QED
  BY <1>2, <1>3

\* A browser that has read what the station sent tells whether the drone is
\* connected and has the station's missions, for any missions and any number
\* of messages under way, when the threads of the station keep apart.
THEOREM BrowserKnowsTheStation ==
  ASSUME ArchiveAssumption, Apart
  PROVE  ArchiveSpec => [](StateTellsTheDrone /\ MissionsOfTheStation)
<1>1. AppInv => StateTellsTheDrone /\ MissionsOfTheStation
  BY AppInvImplies
<1>2. QED
  BY <1>1, AppInvHolds, PTL

\* What is sent fits in what there is room for.
LEMMA EmittedFits ==
  ASSUME ArchiveAssumption, toUi \in Seq(AppMessages),
         Len(toUi) <= MaxMessages, NEW list \in Seq(AppMessages),
         RoomFor(Len(list)), Emit(list)
  PROVE  Len(toUi') <= MaxMessages
<1>1. Len(toUi \o list) = Len(toUi) + Len(list)
  OBVIOUS
<1>2. QED
  BY <1>1 DEF Emit, RoomFor

\* The button's timers are counted up to their bound only.
LEMMA TimersAreBounded ==
  ASSUME ArchiveAssumption, NEW m \in AppMessages, ui \in BrowserStates,
         ui.timers <= MaxTimers
  PROVE  Received(m).timers <= MaxTimers
<1>1. ui.timers \in Nat /\ MaxTimers \in Nat
  BY DEF BrowserStates, ArchiveAssumption
<1>2. /\ m.missions \in Lists \cup {Unknown}
      /\ m.type \in {"initial_data", "interop_data", "interop_disconnected",
           "drone_connected", "drone_disconnected", "on_telemetry"}
  BY DEF AppMessages
<1>3. ASSUME NEW u \in BrowserStates, u.timers = ui.timers, NEW c \in BOOLEAN
      PROVE  ReceivedInteropStatus(u, c).timers <= MaxTimers
  <2>1. CASE c
    BY <1>1, <1>3, <2>1 DEF ReceivedInteropStatus, BrowserStates
  <2>2. CASE ~c
    <3>1. ReceivedInteropStatus(u, c).timers =
            IF u.timers < MaxTimers THEN u.timers + 1 ELSE u.timers
      BY <2>2 DEF ReceivedInteropStatus, BrowserStates
    <3>2. QED
      BY <1>1, <1>3, <3>1
  <2>3. QED
    BY <2>1, <2>2
<1> DEFINE with == IF m.missions = Unknown THEN ui
                   ELSE [ui EXCEPT !.missions = m.missions]
           joined == IF m.type = "initial_data" /\ m.drone
              THEN [with EXCEPT !.droneState = "Drone Connected"] ELSE with
<1>4. with \in BrowserStates /\ with.timers = ui.timers
  BY <1>2 DEF BrowserStates
<1>5. joined \in BrowserStates /\ joined.timers = ui.timers
  BY <1>4 DEF BrowserStates
<1>6. \/ Received(m) = ReceivedInteropStatus(joined, m.missions # Unknown)
      \/ Received(m) = ReceivedInteropStatus(with, TRUE)
      \/ Received(m) = ReceivedInteropStatus(ui, FALSE)
      \/ Received(m) = [ui EXCEPT !.droneState = "Drone Connected"]
      \/ Received(m) = [ui EXCEPT !.droneState = "Drone Disconnected"]
      \/ Received(m) = [ui EXCEPT !.droneState = "In Air"]
  BY <1>2 DEF Received
<1> HIDE DEF with, joined
<1>7. \A s : [ui EXCEPT !.droneState = s].timers = ui.timers
  BY DEF BrowserStates
<1>8. CASE Received(m) = ReceivedInteropStatus(joined, m.missions # Unknown)
  <2>1. (m.missions # Unknown) \in BOOLEAN
    OBVIOUS
  <2>2. QED
    BY <1>3, <1>5, <1>8, <2>1
<1>9. QED
  BY <1>3, <1>4, <1>6, <1>7, <1>8

\* The variables have their types, and the channels and the button's timers
\* stay within their bounds, when the threads of the station keep apart.
THEOREM ArchiveTypeCorrect ==
  ASSUME ArchiveAssumption, Apart
  PROVE  ArchiveSpec => []ArchiveTypeOK
<1> DEFINE Bounded == Len(toUi) <= MaxMessages /\ ui.timers <= MaxTimers
<1>1. ArchiveInit => Bounded
  BY DEF ArchiveInit, ArchiveAssumption
<1>2. AppInv /\ Bounded /\ [ArchiveNext]_archiveVars => Bounded'
  <2> SUFFICES ASSUME AppInv, Bounded, ArchiveNext PROVE Bounded'
    BY DEF archiveVars
  <2>1. /\ toUi \in Seq(AppMessages) /\ ui \in BrowserStates
        /\ ui.timers \in Nat /\ ui.timers <= MaxTimers /\ Len(toUi) \in Nat
        /\ MaxMessages \in Nat \ {0} /\ MaxTimers \in Nat \ {0}
    <3>1. toUi \in Seq(AppMessages) /\ ui \in BrowserStates
      BY DEF AppInv, AppTypes
    <3>2. ui.timers \in Nat
      BY <3>1 DEF BrowserStates
    <3>3. QED
      BY <3>1, <3>2 DEF ArchiveAssumption
  <2>2. /\ \A m \in AppMessages : <<m>> \in Seq(AppMessages) /\ Len(<<m>>) = 1
        /\ \A m, n \in AppMessages :
             <<m, n>> \in Seq(AppMessages) /\ Len(<<m, n>>) = 2
    OBVIOUS
  <2>3. ASSUME NEW m \in AppMessages, RoomFor(1), Emit(<<m>>)
        PROVE  Len(toUi') <= MaxMessages
    BY <2>1, <2>2, <2>3, EmittedFits
  <2>4. ASSUME NEW m \in AppMessages, NEW n \in AppMessages, RoomFor(2),
               Emit(<<m, n>>) \/ Emit(<<m>>)
        PROVE  Len(toUi') <= MaxMessages
    <3>1. RoomFor(1)
      BY <2>1, <2>4 DEF RoomFor
    <3>2. QED
      BY <2>1, <2>2, <2>3, <2>4, <3>1, EmittedFits
  <2>5. CASE DroneConnects \/ DroneDisconnects
    BY <2>3, <2>5, MessagesTyped DEF DroneConnects, DroneDisconnects
  <2>6. CASE Telemetry
    BY <2>4, <2>6, MessagesTyped DEF Telemetry
  <2>7. CASE ConnectToInterop
    BY <2>3, <2>7, MessagesTyped DEF ConnectToInterop
  <2>8. CASE ConnectAnswered
    <3>1. interop.missions \in Lists
      BY DEF AppInv, AppTypes, InteropStates
    <3>2. QED
      BY <2>3, <2>8, <3>1, MessagesTyped DEF ConnectAnswered
  <2>9. CASE Broadcast
    <3>1. Head(broadcast) \in AppMessages
      BY <2>9, MessagesTyped DEF Broadcast, AppInv, AppTypes, IsBroadcast
    <3>2. QED
      BY <2>3, <2>9, <3>1 DEF Broadcast
  <2>10. CASE InteropChanges \/ RefreshAsks \/ RefreshAnswered
    BY <2>10 DEF InteropChanges, RefreshAsks, RefreshAnswered
  <2>11. CASE Connects
    <3>1. Len(toUi') = 1
      BY <2>11 DEF Connects, InitialData
    <3>2. ui'.timers = ui.timers
      BY <2>1, <2>11 DEF Connects, BrowserStates
    <3>3. QED
      BY <2>1, <3>1, <3>2
  <2>12. CASE Disconnects
    <3>1. Len(toUi') = 0
      BY <2>12 DEF Disconnects
    <3>2. ui'.timers = ui.timers
      BY <2>1, <2>12 DEF Disconnects, BrowserStates
    <3>3. QED
      BY <2>1, <3>1, <3>2
  <2>13. CASE PressInterop
    BY <2>1, <2>13 DEF PressInterop, BrowserStates
  <2>14. CASE TimerFires
    <3>1. ui'.timers = ui.timers - 1 /\ ui.timers \in Nat /\ toUi' = toUi
      BY <2>1, <2>14 DEF TimerFires, BrowserStates
    <3>2. QED
      BY <2>1, <3>1
  <2>15. CASE Receive
    <3>1. /\ Head(toUi) \in AppMessages /\ Len(toUi') = Len(toUi) - 1
          /\ ui' = Received(Head(toUi))
      BY <2>1, <2>15 DEF Receive
    <3>2. ui'.timers <= MaxTimers
      BY <2>1, <3>1, TimersAreBounded
    <3>3. QED
      BY <2>1, <3>1, <3>2
  <2>16. QED
    BY <2>5, <2>6, <2>7, <2>8, <2>9, <2>10, <2>11, <2>12, <2>13, <2>14,
       <2>15 DEF ArchiveNext
<1>3. AppInv /\ Bounded => ArchiveTypeOK
  <2> SUFFICES ASSUME AppInv, Bounded PROVE ArchiveTypeOK
    OBVIOUS
  <2>1. Len(broadcast) <= 1
    <3>1. broadcast = <<>> \/ \E m : broadcast = <<m>>
      BY Zenon DEF AppInv, AppTypes, IsBroadcast
    <3>2. QED
      BY <3>1
  <2>2. station.missions \in Lists \cup {Unknown}
    BY DEF AppInv, AppTypes, StationStates
  <2>3. ui.missions \in Lists /\ ui.timers \in Nat
    BY DEF AppInv, AppTypes, BrowserStates
  <2>4. ui.timers \in 0 .. MaxTimers
    BY <2>3 DEF ArchiveAssumption
  <2>5. QED
    BY <2>1, <2>2, <2>3, <2>4 DEF AppInv, AppTypes, Lists, ArchiveTypeOK
<1>4. QED
  BY <1>1, <1>2, <1>3, AppInvHolds, PTL DEF ArchiveSpec

-----------------------------------------------------------------------------
(* What the Analytics page records and plays back.                         *)

Readers == [page : 0 .. 1, file : {"bad", "good"}]
Timers  == [page : 0 .. 1, i : 0 .. FileLength]

\* s is the end of t.
EndOf(s, t) ==
  /\ Len(s) <= Len(t)
  /\ \A i \in DOMAIN s : s[i] = t[Len(t) - Len(s) + i]

RecordsWhatIsShown == recording => EndOf(received, telemetryData)

\* An operator who waits has one file read or one recording replayed, and
\* live telemetry is hidden meanwhile.
OneAfterTheOther ==
  \/ readers = <<>> /\ replays = <<>> /\ ~playback
  \/ /\ \E p \in 0 .. 1 : readers = <<[page |-> p, file |-> "good"]>>
     /\ replays = <<>> /\ playback
  \/ /\ readers = <<>> /\ playback
     /\ \E t \in Timers : replays = <<t>>

ViewInv ==
  /\ ViewTypeOK
  /\ readers \in Seq(Readers) /\ replays \in Seq(Timers)
  /\ received \in Seq(Live)
  /\ RecordsWhatIsShown

LEMMA OneMoreOfEach ==
  ASSUME NEW S, NEW s \in Seq(S), NEW t \in Seq(S), NEW x \in S, EndOf(s, t)
  PROVE  /\ Append(s, x) \in Seq(S) /\ Append(t, x) \in Seq(S)
         /\ EndOf(Append(s, x), Append(t, x))
<1> DEFINE u == Append(s, x)
           v == Append(t, x)
<1>1. /\ Len(s) \in Nat /\ Len(t) \in Nat
      /\ DOMAIN s = 1 .. Len(s) /\ DOMAIN t = 1 .. Len(t)
      /\ Len(u) = Len(s) + 1 /\ DOMAIN u = 1 .. Len(s) + 1
      /\ Len(v) = Len(t) + 1
      /\ \A i \in DOMAIN s : u[i] = s[i]
      /\ \A i \in DOMAIN t : v[i] = t[i]
      /\ u[Len(s) + 1] = x /\ v[Len(t) + 1] = x
      /\ u \in Seq(S) /\ v \in Seq(S)
  OBVIOUS
<1> HIDE DEF u, v
<1>2. Len(s) <= Len(t)
  BY DEF EndOf
<1>3. ASSUME NEW i \in DOMAIN u
      PROVE  u[i] = v[Len(v) - Len(u) + i]
  <2>1. CASE i = Len(s) + 1
    BY <1>1, <1>2, <2>1
  <2>2. CASE i \in DOMAIN s
    <3>1. Len(t) - Len(s) + i \in DOMAIN t
      BY <1>1, <1>2, <2>2
    <3>2. Len(v) - Len(u) + i = Len(t) - Len(s) + i
      BY <1>1, <2>2
    <3>3. s[i] = t[Len(t) - Len(s) + i]
      BY <2>2 DEF EndOf
    <3>4. QED
      BY <1>1, <2>2, <3>1, <3>2, <3>3
  <2>3. QED
    BY <1>1, <2>1, <2>2
<1>4. EndOf(u, v)
  <2>1. Len(u) <= Len(v)
    BY <1>1, <1>2
  <2>2. QED
    BY <1>3, <2>1 DEF EndOf
<1>5. QED
  BY <1>1, <1>4 DEF u, v

LEMMA EndIsSuffix ==
  ASSUME NEW S, NEW s \in Seq(S), NEW t \in Seq(S), EndOf(s, t)
  PROVE  IsSuffix(s, t)
<1> DEFINE u == Reverse(s)
           v == Reverse(t)
<1>1. /\ Len(s) \in Nat /\ Len(t) \in Nat
      /\ DOMAIN s = 1 .. Len(s) /\ DOMAIN t = 1 .. Len(t)
      /\ u = [i \in 1 .. Len(s) |-> s[(Len(s) - i) + 1]]
      /\ v = [i \in 1 .. Len(t) |-> t[(Len(t) - i) + 1]]
  BY DEF Reverse
<1>2. u \in Seq(S) /\ v \in Seq(S) /\ Len(u) = Len(s) /\ Len(v) = Len(t)
  BY <1>1
<1>3. Len(s) <= Len(t)
  BY DEF EndOf
<1>4. ASSUME NEW i \in 1 .. Len(s) PROVE u[i] = v[i]
  <2>1. (Len(s) - i) + 1 \in DOMAIN s
    BY <1>1
  <2>2. s[(Len(s) - i) + 1] = t[Len(t) - Len(s) + ((Len(s) - i) + 1)]
    BY <2>1 DEF EndOf
  <2>3. /\ Len(t) - Len(s) + ((Len(s) - i) + 1) = (Len(t) - i) + 1
        /\ i \in 1 .. Len(t)
    BY <1>1, <1>3
  <2>4. QED
    BY <1>1, <2>2, <2>3
<1> HIDE DEF u, v
<1>5. IsPrefix(u, v)
  <2>1. \A w \in Seq(S), n \in Nat :
          n <= Len(w) => SubSeq(w, 1, n) = [i \in 1 .. n |-> w[i]]
    OBVIOUS
  <2>2. /\ SubSeq(u, 1, Len(u)) = [i \in 1 .. Len(s) |-> u[i]]
        /\ SubSeq(v, 1, Len(u)) = [i \in 1 .. Len(s) |-> v[i]]
    BY <1>1, <1>2, <1>3, <2>1
  <2>3. SubSeq(u, 1, Len(u)) = SubSeq(v, 1, Len(u))
    BY <1>4, <2>2
  <2>4. QED
    BY <1>2, <1>3, <2>3 DEF IsPrefix
<1>6. QED
  BY <1>5 DEF IsSuffix, u, v

LEMMA TimersAreInBounds ==
  ASSUME NEW t \in Seq(Timers)
  PROVE  \A k \in DOMAIN t : t[k].i \in 0 .. FileLength
<1>1. \A k \in DOMAIN t : t[k] \in Timers
  OBVIOUS
<1>2. QED
  BY <1>1 DEF Timers

LEMMA ViewInitially == ASSUME ViewAssumption, ViewInit PROVE ViewInv
<1>1. Len(telemetryData) <= MaxRecorded
  <2>1. Len(telemetryData) = 0 /\ 0 <= MaxRecorded
    BY DEF ViewInit, ViewAssumption
  <2>2. QED
    BY <2>1
<1>2. /\ readers \in Seq(Readers) /\ replays \in Seq(Timers)
      /\ received \in Seq(Live) /\ telemetryData \in Seq(Live)
      /\ \A k \in DOMAIN replays : replays[k].i \in 0 .. FileLength
  BY DEF ViewInit
<1>3. RecordsWhatIsShown
  BY DEF ViewInit, RecordsWhatIsShown
<1>4. /\ {playback, recording, usingLoaded, isPaused} \subseteq BOOLEAN
      /\ droneTelemetry = NoFrame
      /\ file \in {"none", "bad", "good"}
      /\ page \in 0 .. 1
  <2>1. page \in 0 .. 1
    BY DEF ViewInit
  <2>2. {playback, recording, usingLoaded, isPaused} \subseteq {FALSE}
    BY DEF ViewInit
  <2>3. QED
    BY <2>1, <2>2 DEF ViewInit
<1>5. ViewTypeOK
  BY <1>1, <1>2, <1>4 DEF ViewTypeOK
<1>6. QED
  BY <1>2, <1>3, <1>5 DEF ViewInv

\* The reducer's part of the invariant does not depend on the page's.
LEMMA ViewTelemetry ==
  ASSUME ViewAssumption, ViewInv, NEW live \in Live, ReceiveTelemetry(live)
  PROVE  ViewInv'
<1>1. /\ droneTelemetry' \in {NoFrame} \cup Recorded
                               \cup {LiveFrame(l) : l \in Live}
      /\ UNCHANGED <<playback, recording, pageVars>>
  BY DEF ReceiveTelemetry, ViewInv, ViewTypeOK
<1>2. telemetryData \in Seq(Live) /\ received \in Seq(Live)
      /\ Len(telemetryData) <= MaxRecorded
  BY DEF ViewInv, ViewTypeOK
<1>3. CASE ~playback /\ recording
  <2>1. /\ telemetryData' = Append(telemetryData, live)
        /\ received' = Append(received, live)
        /\ Len(telemetryData) < MaxRecorded
    BY <1>3 DEF ReceiveTelemetry
  <2>2. EndOf(received, telemetryData)
    BY <1>3 DEF ViewInv, RecordsWhatIsShown
  <2>3. /\ telemetryData' \in Seq(Live) /\ received' \in Seq(Live)
        /\ EndOf(received', telemetryData')
    BY <1>2, <2>1, <2>2, OneMoreOfEach
  <2>4. Len(telemetryData') <= MaxRecorded
    <3>1. Len(telemetryData') = Len(telemetryData) + 1
          /\ Len(telemetryData) \in Nat
      BY <1>2, <2>1
    <3>2. QED
      BY <2>1, <3>1 DEF ViewAssumption
  <2>5. ViewTypeOK'
    BY <1>1, <2>3, <2>4 DEF ViewInv, ViewTypeOK, pageVars
  <2>6. QED
    BY <1>1, <2>3, <2>5 DEF ViewInv, RecordsWhatIsShown, pageVars
<1>4. CASE ~(~playback /\ recording)
  <2>1. UNCHANGED <<telemetryData, received>>
    BY <1>4 DEF ReceiveTelemetry
  <2>2. ViewTypeOK'
    BY <1>1, <2>1 DEF ViewInv, ViewTypeOK, pageVars
  <2>3. QED
    BY <1>1, <2>1, <2>2 DEF ViewInv, RecordsWhatIsShown, pageVars
<1>5. QED
  BY <1>3, <1>4

LEMMA ViewRecords ==
  ASSUME ViewAssumption, ViewInv, ToggleRecord \/ ResetTelemetry
  PROVE  ViewInv'
<1>1. /\ telemetryData' \in {<<>>, telemetryData}
      /\ received' = <<>>
      /\ droneTelemetry' \in {NoFrame, droneTelemetry}
      /\ {playback', recording'} \subseteq BOOLEAN
      /\ UNCHANGED pageVars
  BY DEF ToggleRecord, ResetTelemetry, ViewInv, ViewTypeOK
<1>2. telemetryData' \in Seq(Live) /\ received' \in Seq(Live)
      /\ EndOf(received', telemetryData')
  <2>1. telemetryData' \in Seq(Live) /\ received' \in Seq(Live)
    <3>1. <<>> \in Seq(Live)
      OBVIOUS
    <3>2. telemetryData \in Seq(Live)
      BY DEF ViewInv, ViewTypeOK
    <3>3. QED
      BY <1>1, <3>1, <3>2
  <2>2. Len(received') = 0 /\ DOMAIN received' = {}
        /\ Len(telemetryData') \in Nat
    BY <1>1, <2>1
  <2>3. QED
    BY <2>1, <2>2 DEF EndOf
<1>3. Len(telemetryData') <= MaxRecorded
  <2>1. Len(<<>>) = 0 /\ 0 <= MaxRecorded
    BY DEF ViewAssumption
  <2>2. QED
    BY <1>1, <2>1 DEF ViewInv, ViewTypeOK
<1>4. ViewTypeOK'
  BY <1>1, <1>2, <1>3 DEF ViewInv, ViewTypeOK, pageVars
<1>5. QED
  BY <1>1, <1>2, <1>4 DEF ViewInv, RecordsWhatIsShown, pageVars

LEMMA ViewReads ==
  ASSUME ViewAssumption, ViewInv,
         \/ \E kind \in {"bad", "good"} : ChooseFile(kind)
         \/ RunLoaded \/ FileRead \/ VisitAnotherPage
  PROVE  ViewInv'
<1>1. /\ UNCHANGED <<droneTelemetry, recording, telemetryData, received>>
      /\ {playback', usingLoaded', isPaused'} \subseteq BOOLEAN
      /\ file' \in {"none", "bad", "good"} /\ page' \in 0 .. 1
  <2>1. /\ {playback, usingLoaded, isPaused} \subseteq BOOLEAN
        /\ file \in {"none", "bad", "good"} /\ page \in 0 .. 1
    BY DEF ViewInv, ViewTypeOK
  <2>2. CASE \E kind \in {"bad", "good"} : ChooseFile(kind)
    BY <2>1, <2>2 DEF ChooseFile, reducer
  <2>3. CASE RunLoaded
    BY <2>1, <2>3 DEF RunLoaded
  <2>4. CASE FileRead
    BY <2>1, <2>4 DEF FileRead, reducer
  <2>5. CASE VisitAnotherPage
    <3>1. /\ UNCHANGED reducer /\ received' = received
          /\ usingLoaded' = FALSE /\ isPaused' = FALSE /\ file' = "none"
          /\ page' = 1 - page
      BY <2>5 DEF VisitAnotherPage
    <3>2. page' \in 0 .. 1
      BY <2>1, <3>1
    <3>3. QED
      BY <2>1, <3>1, <3>2 DEF reducer
  <2>6. QED
    BY <2>2, <2>3, <2>4, <2>5
<1>2. \A r \in Seq(Readers) : r # <<>> =>
        Head(r) \in Readers /\ Tail(r) \in Seq(Readers)
  OBVIOUS
<1>3. \A r \in Seq(Readers), x \in Readers : Append(r, x) \in Seq(Readers)
  OBVIOUS
<1>4. \A t \in Seq(Timers), x \in Timers : Append(t, x) \in Seq(Timers)
  OBVIOUS
<1>5. /\ [page |-> page, file |-> file] \in Readers \/ file = "none"
      /\ \A r \in Readers : [page |-> r.page, i |-> 0] \in Timers
  BY DEF Readers, Timers, ViewInv, ViewTypeOK, ViewAssumption
<1>6. readers' \in Seq(Readers) /\ replays' \in Seq(Timers)
  <2>1. CASE \/ \E kind \in {"bad", "good"} : ChooseFile(kind)
             \/ VisitAnotherPage
    <3>1. <<>> \in Seq(Readers) /\ <<>> \in Seq(Timers)
      OBVIOUS
    <3>2. readers' \in {readers, <<>>} /\ replays' \in {replays, <<>>}
      BY <2>1 DEF ChooseFile, VisitAnotherPage
    <3>3. QED
      BY <3>1, <3>2 DEF ViewInv
  <2>2. CASE RunLoaded
    BY <1>3, <1>5, <2>2 DEF RunLoaded, ViewInv
  <2>3. CASE FileRead
    BY <1>2, <1>4, <1>5, <2>3 DEF FileRead, ViewInv
  <2>4. QED
    BY <2>1, <2>2, <2>3
<1>7. \A k \in DOMAIN replays' : replays'[k].i \in 0 .. FileLength
  BY <1>6, TimersAreInBounds
<1>8. ViewTypeOK'
  BY <1>1, <1>7 DEF ViewInv, ViewTypeOK
<1>9. QED
  BY <1>1, <1>6, <1>8 DEF ViewInv, RecordsWhatIsShown

LEMMA ViewReplays ==
  ASSUME ViewAssumption, ViewInv, NEW r \in DOMAIN replays, Replay(r)
  PROVE  ViewInv'
<1>1. /\ UNCHANGED <<recording, telemetryData, isPaused, file, readers, page,
                     received>>
      /\ {playback', usingLoaded'} \subseteq BOOLEAN
      /\ droneTelemetry' = Frame(replays[r].i)
  BY DEF Replay, ViewInv, ViewTypeOK
<1>2. replays \in Seq(Timers) /\ replays[r] \in Timers
  BY DEF ViewInv
<1>3. Frame(replays[r].i) \in Recorded
  BY <1>2 DEF Recorded, Timers
<1>4. replays' \in Seq(Timers)
  <2>1. \A t \in Seq(Timers) : \A k \in DOMAIN t :
          SubSeq(t, 1, k - 1) \in Seq(Timers)
          /\ SubSeq(t, k + 1, Len(t)) \in Seq(Timers)
    OBVIOUS
  <2>2. \A s, t \in Seq(Timers) : s \o t \in Seq(Timers)
    OBVIOUS
  <2>3. RemoveAt(replays, r) \in Seq(Timers)
    BY <1>2, <2>1, <2>2 DEF RemoveAt
  <2>4. ~(replays[r].i + 1 > FileLength)
          => [replays EXCEPT ![r].i = replays[r].i + 1] \in Seq(Timers)
    <3> DEFINE t == [replays[r] EXCEPT !.i = replays[r].i + 1]
    <3>1. ~(replays[r].i + 1 > FileLength) => t \in Timers
      BY <1>2 DEF Timers, ViewAssumption
    <3>2. [replays EXCEPT ![r].i = replays[r].i + 1]
          = [replays EXCEPT ![r] = t]
      BY <1>2
    <3> HIDE DEF t
    <3>3. t \in Timers => [replays EXCEPT ![r] = t] \in Seq(Timers)
      BY <1>2
    <3>4. QED
      BY <3>1, <3>2, <3>3
  <2>5. QED
    BY <2>3, <2>4 DEF Replay
<1>5. \A k \in DOMAIN replays' : replays'[k].i \in 0 .. FileLength
  BY <1>4, TimersAreInBounds
<1>6. ViewTypeOK'
  BY <1>1, <1>3, <1>5 DEF ViewInv, ViewTypeOK
<1>7. QED
  BY <1>1, <1>4, <1>6 DEF ViewInv, RecordsWhatIsShown

LEMMA ViewInvariant ==
  ASSUME ViewAssumption
  PROVE  ViewSpec => []ViewInv
<1>1. ViewInit => ViewInv
  BY ViewInitially
<1>2. ASSUME ViewInv, [ViewNext]_viewVars PROVE ViewInv'
  <2>1. CASE UNCHANGED viewVars
    BY <1>2, <2>1 DEF viewVars, reducer, pageVars, ViewInv, ViewTypeOK,
                      RecordsWhatIsShown
  <2>2. QED
    BY <1>2, <2>1, ViewTelemetry, ViewRecords, ViewReads, ViewReplays
    DEF ViewNext, Replays
<1>3. QED
  BY <1>1, <1>2, PTL DEF ViewSpec

\* No timer reads further than one frame past the recording.
THEOREM ViewTypeCorrect ==
  ASSUME ViewAssumption
  PROVE  ViewSpec => []ViewTypeOK
<1>1. ViewInv => ViewTypeOK
  BY DEF ViewInv
<1>2. QED
  BY <1>1, ViewInvariant, PTL

\* For any number of frames, files and replays, however careless the operator,
\* what is saved ends with the frames that were shown since it was recorded.
THEOREM RecordingIsComplete ==
  ASSUME ViewAssumption
  PROVE  ViewSpec => []SavesWhatWasShown
<1>1. ViewInv => SavesWhatWasShown
  BY EndIsSuffix
  DEF ViewInv, ViewTypeOK, RecordsWhatIsShown, SavesWhatWasShown
<1>2. QED
  BY <1>1, ViewInvariant, PTL

-----------------------------------------------------------------------------
(* The careful operator.                                                   *)

LEMMA PlaysOneAtATime ==
  ASSUME ViewAssumption, Patient, ViewInv, OneAfterTheOther, [ViewNext]_viewVars
  PROVE  OneAfterTheOther'
<1>1. Busy <=> playback
  <2>1. \A x : <<x>> # <<>>
    OBVIOUS
  <2>2. QED
    BY <2>1 DEF OneAfterTheOther, Busy
<1>2. CASE UNCHANGED <<playback, readers, replays>>
  BY <1>2 DEF OneAfterTheOther
<1>3. CASE ResetTelemetry \/ VisitAnotherPage
  BY <1>1, <1>3
  DEF ResetTelemetry, VisitAnotherPage, OneAfterTheOther, Busy, pageVars,
      reducer
<1>4. CASE RunLoaded
  <2>1. CASE usingLoaded
    BY <1>2, <1>4, <2>1 DEF RunLoaded
  <2>2. CASE ~usingLoaded
    <3>1. readers = <<>> /\ replays = <<>> /\ ~playback
      BY <1>1, <1>4, <2>2 DEF RunLoaded, Busy
    <3>2. /\ playback' = TRUE /\ replays' = <<>>
          /\ readers' = Append(<<>>, [page |-> page, file |-> "good"])
      BY <1>4, <2>2, <3>1 DEF RunLoaded
    <3>3. page \in 0 .. 1
      BY DEF ViewInv, ViewTypeOK
    <3>4. \A x : Append(<<>>, x) = <<x>>
      OBVIOUS
    <3>5. QED
      BY <3>2, <3>3, <3>4 DEF OneAfterTheOther
  <2>3. QED
    BY <2>1, <2>2
<1>5. CASE FileRead
  <2>1. readers # <<>>
    BY <1>5 DEF FileRead
  <2>2. PICK p \in 0 .. 1 : readers = <<[page |-> p, file |-> "good"]>>
    BY <2>1 DEF OneAfterTheOther
  <2>3. replays = <<>> /\ playback
    BY <2>1 DEF OneAfterTheOther
  <2>4. /\ Head(readers) = [page |-> p, file |-> "good"]
        /\ Tail(readers) = <<>>
    BY <2>2
  <2>5. /\ readers' = <<>> /\ playback' = playback
        /\ replays' = Append(<<>>, [page |-> p, i |-> 0])
    BY <1>5, <2>3, <2>4 DEF FileRead, reducer
  <2>6. [page |-> p, i |-> 0] \in Timers
    BY DEF Timers, ViewAssumption
  <2>7. \A x : Append(<<>>, x) = <<x>>
    OBVIOUS
  <2>8. QED
    BY <2>3, <2>5, <2>6, <2>7 DEF OneAfterTheOther
<1>6. ASSUME NEW r \in DOMAIN replays, Replay(r)
      PROVE  OneAfterTheOther'
  <2>1. replays # <<>>
    BY <1>6
  <2>2. PICK t \in Timers : replays = <<t>>
    BY <2>1 DEF OneAfterTheOther
  <2>3. readers = <<>> /\ playback
    BY <2>1 DEF OneAfterTheOther
  <2>4. r = 1 /\ replays[r] = t
    BY <1>6, <2>2
  <2>5. CASE t.i + 1 > FileLength
    <3>1. RemoveAt(replays, r) = <<>>
      BY <2>2, <2>4 DEF RemoveAt
    <3>2. QED
      BY <1>6, <2>3, <2>4, <2>5, <3>1 DEF Replay, OneAfterTheOther
  <2>6. CASE ~(t.i + 1 > FileLength)
    <3> DEFINE u == [t EXCEPT !.i = t.i + 1]
    <3>1. u \in Timers
      BY <2>6 DEF Timers, ViewAssumption
    <3>2. replays' = [replays EXCEPT ![r].i = t.i + 1]
          /\ UNCHANGED <<playback, readers>>
      BY <1>6, <2>4, <2>6 DEF Replay
    <3>3. replays' = <<u>>
      BY <2>2, <2>4, <3>2
    <3> HIDE DEF u
    <3>4. QED
      BY <2>3, <3>1, <3>2, <3>3 DEF OneAfterTheOther
  <2>7. QED
    BY <2>5, <2>6
<1>7. QED
  BY <1>2, <1>3, <1>4, <1>5, <1>6
  DEF ViewNext, Replays, ReceiveTelemetry, ToggleRecord, ChooseFile,
      viewVars, reducer, pageVars

\* Live telemetry is hidden exactly while a recording is read or replayed, for
\* a careful operator and files of any length.
THEOREM PlaybackHidesLive ==
  ASSUME ViewAssumption, Patient
  PROVE  ViewSpec => []PlaybackIsBusy
<1>1. ViewInit => OneAfterTheOther
  BY DEF ViewInit, OneAfterTheOther
<1>2. ViewInv /\ OneAfterTheOther /\ [ViewNext]_viewVars => OneAfterTheOther'
  BY PlaysOneAtATime
<1>3. OneAfterTheOther => PlaybackIsBusy
  <2>1. \A x : <<x>> # <<>>
    OBVIOUS
  <2>2. QED
    BY <2>1 DEF OneAfterTheOther, PlaybackIsBusy, Busy
<1>4. QED
  BY <1>1, <1>2, <1>3, ViewInvariant, PTL DEF ViewSpec

-----------------------------------------------------------------------------
(* The mission editor.                                                     *)

IsLocation(l) == l = Location(l.pos, l.alt)

\* The fields are those of the type, and a goal where a marker was dragged.
FieldsOfType(kind, fields, dragged) ==
  /\ kind \in GoalKinds => DOMAIN fields = {"goal"} /\ IsLocation(fields.goal)
  /\ kind = "off_axis" =>
       /\ DOMAIN fields = {"photographer_location", "subject_location"}
                            \union (IF dragged THEN {"goal"} ELSE {})
       /\ IsLocation(fields.photographer_location)
       /\ dragged => IsLocation(fields.goal)
  /\ kind = "survey" => DOMAIN fields = {"survey_polygon", "altitude"}
  /\ kind = "wait" => DOMAIN fields = {"time"}

IsEdited(c) ==
  /\ c = [id |-> c.id, kind |-> c.kind, fields |-> c.fields,
          dragged |-> c.dragged]
  /\ c.kind \in Kinds /\ c.dragged \in BOOLEAN /\ c.id \in Nat
  /\ FieldsOfType(c.kind, c.fields, c.dragged)

\* A sequence, of whatever its elements are.
IsList(s) == s \in Seq({s[i] : i \in DOMAIN s})

\* The commands of a plan, whose ids are below the next.
GoodCommands(list, next) ==
  /\ IsList(list) /\ Len(list) <= MaxCommands
  /\ \A i \in DOMAIN list : IsEdited(list[i]) /\ list[i].id < next
  /\ \A i, j \in DOMAIN list : list[i].id = list[j].id => i = j

EditorInv ==
  /\ nextId \in Nat
  /\ GoodCommands(commands, nextId)
  /\ commandAnimate \subseteq stops

LEMMA IsListOfSeq ==
  ASSUME NEW S, NEW s \in Seq(S)
  PROVE  IsList(s)
  BY DEF IsList

LEMMA KindsAre ==
  /\ GoalKinds = {"waypoint", "fly_through", "ugv_drop", "land_at_location"}
  /\ Kinds = {"waypoint", "fly_through", "ugv_drop", "land_at_location",
              "survey", "off_axis", "wait"}
  BY DEF GoalKinds, Kinds

-----------------------------------------------------------------------------
(* Sequences.                                                              *)

IsJoined(t, s, u) ==
  /\ Len(s) \in Nat /\ Len(u) \in Nat /\ Len(t) = Len(s) + Len(u)
  /\ DOMAIN t = 1 .. Len(s) + Len(u)
  /\ \A i \in 1 .. Len(s) : t[i] = s[i]
  /\ \A i \in 1 .. Len(u) : t[Len(s) + i] = u[i]

LEMMA Joined ==
  ASSUME NEW S, NEW s \in Seq(S), NEW u \in Seq(S)
  PROVE  s \o u \in Seq(S) /\ IsJoined(s \o u, s, u)
  BY DEF IsJoined

\* The sequence t is s without its element at i, or with x inserted there.
IsRemoved(t, s, i) ==
  /\ Len(t) = Len(s) - 1 /\ DOMAIN t = 1 .. Len(s) - 1
  /\ \A j \in 1 .. Len(s) - 1 :
       /\ j < i => t[j] = s[j]
       /\ j >= i => t[j] = s[j + 1]

IsInserted(t, s, i, x) ==
  /\ Len(t) = Len(s) + 1 /\ DOMAIN t = 1 .. Len(s) + 1
  /\ \A j \in 1 .. Len(s) + 1 :
       /\ j < i => t[j] = s[j]
       /\ j = i => t[j] = x
       /\ j > i => t[j] = s[j - 1]

LEMMA Shifted ==
  ASSUME NEW n \in Nat, NEW i \in 1 .. n, NEW j \in 1 .. n - 1, j >= i
  PROVE  j + 1 - i \in 1 .. n - i
  OBVIOUS

LEMMA Removed ==
  ASSUME NEW S, NEW s \in Seq(S), NEW i \in DOMAIN s
  PROVE  RemoveAt(s, i) \in Seq(S) /\ IsRemoved(RemoveAt(s, i), s, i)
<1> DEFINE a == SubSeq(s, 1, i - 1)
           b == SubSeq(s, i + 1, Len(s))
<1>1. /\ a \in Seq(S) /\ Len(a) = i - 1 /\ \A j \in 1 .. i - 1 : a[j] = s[j]
      /\ Len(s) \in Nat /\ i \in 1 .. Len(s)
  OBVIOUS
<1>2. /\ b \in Seq(S) /\ Len(b) = Len(s) - i
      /\ \A j \in 1 .. Len(s) - i : b[j] = s[j + i]
  OBVIOUS
<1> HIDE DEF a, b
<1> DEFINE t == a \o b
<1>3. t \in Seq(S) /\ IsJoined(t, a, b)
  BY <1>1, <1>2, Joined, Zenon
<1> HIDE DEF t
<1>4. Len(a) + Len(b) = Len(s) - 1
  BY <1>1, <1>2
<1>5. ASSUME NEW j \in 1 .. Len(s) - 1
      PROVE  /\ j < i => t[j] = s[j]
             /\ j >= i => t[j] = s[j + 1]
  <2>1. CASE j < i
    BY <1>1, <1>3, <1>4, <2>1 DEF IsJoined
  <2>2. CASE j >= i
    <3> DEFINE k == j + 1 - i
    <3>1. k \in 1 .. Len(s) - i
      BY <1>1, <2>2, Shifted
    <3>4. k + i = j + 1 /\ (i - 1) + k = j
      BY <1>1
    <3> HIDE DEF k
    <3>2. t[j] = b[k]
      BY <1>1, <1>2, <1>3, <3>1, <3>4 DEF IsJoined
    <3>3. QED
      BY <1>1, <1>2, <2>2, <3>1, <3>2, <3>4
  <2>3. QED
    BY <1>1, <2>1, <2>2
<1>6. t \in Seq(S) /\ Len(t) = Len(s) - 1 /\ DOMAIN t = 1 .. Len(s) - 1
  BY <1>3, <1>4 DEF IsJoined
<1>7. RemoveAt(s, i) = t
  BY DEF RemoveAt, t, a, b
<1>8. QED
  BY <1>5, <1>6, <1>7 DEF IsRemoved

LEMMA Inserted ==
  ASSUME NEW S, NEW s \in Seq(S), NEW i \in 1 .. Len(s) + 1, NEW x \in S
  PROVE  /\ InsertAt(s, i, x) \in Seq(S)
         /\ IsInserted(InsertAt(s, i, x), s, i, x)
<1> DEFINE a == SubSeq(s, 1, i - 1)
           b == SubSeq(s, i, Len(s))
           c == <<x>>
<1>1. /\ a \in Seq(S) /\ Len(a) = i - 1 /\ \A j \in 1 .. i - 1 : a[j] = s[j]
      /\ Len(s) \in Nat /\ i \in Nat
  OBVIOUS
<1>2. /\ b \in Seq(S) /\ Len(b) = Len(s) + 1 - i
      /\ \A j \in 1 .. Len(s) + 1 - i : b[j] = s[j + i - 1]
  OBVIOUS
<1>3. c \in Seq(S) /\ Len(c) = 1 /\ c[1] = x
  OBVIOUS
<1> HIDE DEF a, b, c
<1> DEFINE d == a \o c
           t == d \o b
<1>4. /\ d \in Seq(S) /\ Len(d) = i
      /\ \A j \in 1 .. i - 1 : d[j] = s[j]
      /\ d[i] = x
  <2>1. d \in Seq(S) /\ IsJoined(d, a, c)
    BY <1>1, <1>3, Joined, Zenon
  <2> HIDE DEF d
  <2>2. Len(a) + 1 = i /\ 1 \in 1 .. Len(c)
    BY <1>1, <1>3
  <2>3. d[i] = x
    BY <1>3, <2>1, <2>2 DEF IsJoined
  <2>4. QED
    BY <1>1, <1>3, <2>1, <2>3 DEF IsJoined
<1> HIDE DEF d
<1>5. t \in Seq(S) /\ IsJoined(t, d, b)
  BY <1>2, <1>4, Joined, Zenon
<1> HIDE DEF t
<1>6. i + Len(b) = Len(s) + 1
  BY <1>1, <1>2
<1>7. ASSUME NEW j \in 1 .. Len(s) + 1
      PROVE  /\ j < i => t[j] = s[j]
             /\ j = i => t[j] = x
             /\ j > i => t[j] = s[j - 1]
  <2>1. CASE j <= i
    BY <1>1, <1>4, <1>5, <2>1 DEF IsJoined
  <2>2. CASE j > i
    <3> DEFINE k == j - i
    <3>1. k \in 1 .. Len(s) + 1 - i /\ k + i - 1 = j - 1 /\ i + k = j
      <4>1. i \in Nat /\ j \in Nat /\ Len(s) \in Nat /\ j <= Len(s) + 1
        BY <1>7
      <4>2. QED
        BY <4>1, <2>2
    <3> HIDE DEF k
    <3>2. t[j] = b[k]
      BY <1>2, <1>4, <1>5, <3>1 DEF IsJoined
    <3>3. QED
      BY <1>1, <1>2, <2>2, <3>1, <3>2
  <2>3. QED
    BY <1>1, <2>1, <2>2
<1>8. InsertAt(s, i, x) = t
  BY DEF InsertAt, t, d, c, a, b
<1>9. t \in Seq(S) /\ Len(t) = Len(s) + 1 /\ DOMAIN t = 1 .. Len(s) + 1
  BY <1>4, <1>5, <1>6 DEF IsJoined
<1>10. QED
  BY <1>7, <1>8, <1>9 DEF IsInserted

\* The elements of t are some of those of s, each once.
IsPicked(t, s) ==
  \E f \in [DOMAIN t -> DOMAIN s] :
    /\ \A i, j \in DOMAIN t : f[i] = f[j] => i = j
    /\ \A i \in DOMAIN t : t[i] = s[f[i]]

LEMMA RemovedIsPicked ==
  ASSUME NEW S, NEW s \in Seq(S), NEW i \in DOMAIN s
  PROVE  /\ RemoveAt(s, i) \in Seq(S) /\ Len(RemoveAt(s, i)) = Len(s) - 1
         /\ IsPicked(RemoveAt(s, i), s)
<1> DEFINE t == RemoveAt(s, i)
           f == [k \in DOMAIN t |-> IF k < i THEN k ELSE k + 1]
<1>1. t \in Seq(S) /\ IsRemoved(t, s, i)
  BY Removed
<1>2. i \in Nat /\ Len(s) \in Nat /\ DOMAIN s = 1 .. Len(s)
  OBVIOUS
<1> HIDE DEF t
<1>3. \A k \in DOMAIN t : f[k] \in DOMAIN s /\ t[k] = s[f[k]]
  BY <1>1, <1>2 DEF IsRemoved
<1>4. \A k, l \in DOMAIN t : f[k] = f[l] => k = l
  BY <1>1, <1>2 DEF IsRemoved
<1>5. f \in [DOMAIN t -> DOMAIN s]
  BY <1>3
<1> HIDE DEF f
<1>6. IsPicked(t, s)
  BY <1>3, <1>4, <1>5 DEF IsPicked
<1>7. QED
  BY <1>1, <1>6 DEF t, IsRemoved

LEMMA MovedIsPicked ==
  ASSUME NEW S, NEW s \in Seq(S), NEW i \in DOMAIN s, NEW j \in DOMAIN s
  PROVE  LET t == InsertAt(RemoveAt(s, i), j, s[i])
         IN  t \in Seq(S) /\ Len(t) = Len(s) /\ IsPicked(t, s)
<1> DEFINE r == RemoveAt(s, i)
           t == InsertAt(r, j, s[i])
           f == [k \in DOMAIN t |->
                  IF k = j THEN i
                  ELSE IF k < j THEN (IF k < i THEN k ELSE k + 1)
                  ELSE (IF k - 1 < i THEN k - 1 ELSE k)]
<1>1. /\ i \in Nat /\ j \in Nat /\ Len(s) \in Nat
      /\ DOMAIN s = 1 .. Len(s) /\ s[i] \in S
  OBVIOUS
<1>2. r \in Seq(S) /\ IsRemoved(r, s, i)
  BY Removed
<1> HIDE DEF r
<1>3. j \in 1 .. Len(r) + 1 /\ Len(r) = Len(s) - 1
  BY <1>1, <1>2 DEF IsRemoved
<1>4. t \in Seq(S) /\ IsInserted(t, r, j, s[i])
  BY <1>1, <1>2, <1>3, Inserted, Zenon
<1> HIDE DEF t
<1>5. DOMAIN t = 1 .. Len(s) /\ Len(t) = Len(s)
  BY <1>1, <1>3, <1>4 DEF IsInserted
<1>6. ASSUME NEW k \in DOMAIN t
      PROVE  f[k] \in DOMAIN s /\ t[k] = s[f[k]]
  <2>1. CASE k = j
    BY <1>1, <1>3, <1>4, <1>5, <2>1 DEF IsInserted
  <2>2. CASE k < j
    <3>1. k \in DOMAIN r /\ t[k] = r[k]
      BY <1>1, <1>2, <1>3, <1>4, <1>5, <2>2 DEF IsInserted, IsRemoved
    <3>2. QED
      BY <1>1, <1>2, <1>5, <2>2, <3>1 DEF IsRemoved
  <2>3. CASE k > j
    <3>1. k - 1 \in DOMAIN r /\ t[k] = r[k - 1]
      BY <1>1, <1>2, <1>3, <1>4, <1>5, <2>3 DEF IsInserted, IsRemoved
    <3>2. QED
      BY <1>1, <1>2, <1>5, <2>3, <3>1 DEF IsRemoved
  <2>4. QED
    BY <1>1, <1>5, <2>1, <2>2, <2>3
<1>7. \A k, l \in DOMAIN t : f[k] = f[l] => k = l
  BY <1>1, <1>5
<1>8. f \in [DOMAIN t -> DOMAIN s]
  BY <1>6
<1> HIDE DEF f
<1>9. IsPicked(t, s)
  BY <1>6, <1>7, <1>8 DEF IsPicked
<1>10. QED
  BY <1>4, <1>5, <1>9 DEF t, r

\* Some of good commands are good commands.
LEMMA PickedAreGood ==
  ASSUME GoodCommands(commands, nextId), NEW S, NEW t \in Seq(S),
         IsPicked(t, commands), Len(t) <= Len(commands),
         EditorAssumption
  PROVE  GoodCommands(t, nextId)
<1>1. PICK f \in [DOMAIN t -> DOMAIN commands] :
        /\ \A i, j \in DOMAIN t : f[i] = f[j] => i = j
        /\ \A i \in DOMAIN t : t[i] = commands[f[i]]
  BY DEF IsPicked
<1>2. Len(commands) \in Nat /\ Len(t) \in Nat /\ MaxCommands \in Nat
  BY DEF EditorAssumption, GoodCommands, IsList
<1>3. Len(t) <= MaxCommands
  BY <1>2 DEF GoodCommands
<1>4. IsList(t)
  BY IsListOfSeq
<1>5. \A i \in DOMAIN t : IsEdited(t[i]) /\ t[i].id < nextId
  BY <1>1 DEF GoodCommands
<1>6. \A i, j \in DOMAIN t : t[i].id = t[j].id => i = j
  BY <1>1 DEF GoodCommands
<1>7. QED
  BY <1>3, <1>4, <1>5, <1>6 DEF GoodCommands

-----------------------------------------------------------------------------
(* The fields of commands.                                                 *)

\* The first of the three fields that are locations.
LEMMA FirstLocationField ==
  ASSUME NEW fields
  PROVE  /\ Has(fields, "goal")
              => HasLocation(fields) /\ LocationOf(fields) = fields.goal
         /\ ~Has(fields, "goal") /\ ~Has(fields, "ground_target") =>
              /\ HasLocation(fields) <=> Has(fields, "photographer_location")
              /\ HasLocation(fields)
                   => LocationOf(fields) = fields.photographer_location
<1> DEFINE I == {i \in 1 .. Len(locationFields) :
                   Has(fields, locationFields[i])}
<1>1. /\ Len(locationFields) = 3
      /\ locationFields[1] = "goal" /\ locationFields[2] = "ground_target"
      /\ locationFields[3] = "photographer_location"
  BY DEF locationFields
<1>2. LocationField(fields) = IF I # {} THEN Min(I) ELSE 0
  BY DEF LocationField, SelectInSeq
<1>3. 1 .. 3 = {1, 2, 3}
  OBVIOUS
<1>4. I = {i \in {1, 2, 3} : Has(fields, locationFields[i])}
  BY <1>1, <1>3
<1> HIDE DEF I
<1>5. CASE Has(fields, "goal")
  <2>1. 1 \in I /\ \A i \in I : 1 <= i
    BY <1>1, <1>4, <1>5
  <2>2. Min(I) = 1
    BY <1>4, <2>1 DEF Min
  <2>3. QED
    BY <1>1, <1>2, <1>5, <2>1, <2>2 DEF HasLocation, LocationOf
<1>6. CASE ~Has(fields, "goal") /\ ~Has(fields, "ground_target")
  <2>1. CASE Has(fields, "photographer_location")
    <3>1. I = {3}
      BY <1>1, <1>4, <1>6, <2>1
    <3>2. Min(I) = 3
      BY <3>1 DEF Min
    <3>3. QED
      BY <1>1, <1>2, <1>6, <2>1, <3>1, <3>2 DEF HasLocation, LocationOf
  <2>2. CASE ~Has(fields, "photographer_location")
    <3>1. I = {}
      BY <1>1, <1>4, <1>6, <2>2
    <3>2. QED
      BY <1>2, <1>6, <2>2, <3>1 DEF HasLocation
  <2>3. QED
    BY <2>1, <2>2
<1>7. QED
  BY <1>5, <1>6

\* Where the marker of a command is.
LEMMA MarkerIs ==
  ASSUME NEW kind \in Kinds, NEW dragged \in BOOLEAN, NEW fields,
         FieldsOfType(kind, fields, dragged)
  PROVE  /\ HasLocation(fields) <=> kind \in GoalKinds \union {"off_axis"}
         /\ kind \in GoalKinds => LocationOf(fields) = fields.goal
         /\ kind = "off_axis" =>
              LocationOf(fields) = IF dragged THEN fields.goal
                                   ELSE fields.photographer_location
         /\ HasLocation(fields) => IsLocation(LocationOf(fields))
<1>1. CASE kind \in GoalKinds
  BY <1>1, FirstLocationField, KindsAre DEF FieldsOfType, Has
<1>2. CASE kind = "off_axis"
  BY <1>2, FirstLocationField, KindsAre DEF FieldsOfType, Has
<1>3. CASE kind \in {"survey", "wait"}
  BY <1>3, FirstLocationField, KindsAre DEF FieldsOfType, Has
<1>4. QED
  BY <1>1, <1>2, <1>3, KindsAre

LEMMA LocationsAre ==
  ASSUME NEW pos, NEW alt
  PROVE  /\ IsLocation(Location(pos, alt))
         /\ Location(pos, alt).pos = pos /\ Location(pos, alt).alt = alt
  BY DEF IsLocation, Location

LEMMA Positions3D ==
  ASSUME NEW options, NEW field
  PROVE  IsLocation(Position3D(options, field))
  BY LocationsAre DEF Position3D

\* A command is made with the fields of its type.
LEMMA ObjectIsOfType ==
  ASSUME NEW kind \in Kinds, NEW options
  PROVE  FieldsOfType(kind, MissionObject(kind, options), FALSE)
<1>1. CASE kind \in GoalKinds
  <2>1. MissionObject(kind, options) = [goal |-> Position3D(options, "goal")]
    BY <1>1, KindsAre DEF MissionObject
  <2>2. QED
    BY <1>1, <2>1, Positions3D, KindsAre DEF FieldsOfType
<1>2. CASE kind = "off_axis"
  <2>1. MissionObject(kind, options) =
          [photographer_location |->
             Position3D(options, "photographer_location"),
           subject_location |-> Position(options, "subject_location")]
    BY <1>2, KindsAre DEF MissionObject
  <2>2. QED
    BY <1>2, <2>1, Positions3D, KindsAre DEF FieldsOfType
<1>3. CASE kind = "survey"
  <2>1. DOMAIN MissionObject(kind, options) = {"survey_polygon", "altitude"}
    BY <1>3, KindsAre DEF MissionObject
  <2>2. QED
    BY <1>3, <2>1, KindsAre DEF FieldsOfType
<1>4. CASE kind = "wait"
  <2>1. DOMAIN MissionObject(kind, options) = {"time"}
    BY <1>4, KindsAre DEF MissionObject
  <2>2. QED
    BY <1>4, <2>1, KindsAre DEF FieldsOfType
<1>5. QED
  BY <1>1, <1>2, <1>3, <1>4, KindsAre

LEMMA CommandIsEdited ==
  ASSUME NEW kind \in Kinds, NEW options, nextId \in Nat
  PROVE  /\ IsEdited(Command(kind, options))
         /\ Command(kind, options).id = nextId
<1>1. FieldsOfType(kind, MissionObject(kind, options), FALSE)
  BY ObjectIsOfType
<1> DEFINE fields == MissionObject(kind, options)
           c == Command(kind, options)
<1>2. c = [id |-> nextId, kind |-> kind, fields |-> fields,
           dragged |-> FALSE]
  BY DEF Command
<1> HIDE DEF fields, c
<1>3. /\ c.id = nextId /\ c.kind = kind /\ c.fields = fields
      /\ c.dragged = FALSE
  BY <1>2
<1>4. c = [id |-> c.id, kind |-> c.kind, fields |-> c.fields,
           dragged |-> c.dragged]
  BY <1>2, <1>3
<1>5. FieldsOfType(kind, fields, FALSE)
  BY <1>1 DEF fields
<1>6. IsEdited(c) /\ c.id = nextId
  BY <1>3, <1>4, <1>5 DEF IsEdited
<1>7. QED
  BY <1>6 DEF c

-----------------------------------------------------------------------------
(* The steps.                                                              *)

LEMMA AppendedIsGood ==
  ASSUME GoodCommands(commands, nextId), EditorAssumption, nextId \in Nat,
         NEW c, IsEdited(c), c.id = nextId,
         Len(commands) < MaxCommands
  PROVE  GoodCommands(Append(commands, c), nextId + 1)
<1> DEFINE t == Append(commands, c)
           S == {commands[i] : i \in DOMAIN commands} \union {c}
<1>1. /\ commands \in Seq(S) /\ c \in S /\ Len(commands) \in Nat
      /\ DOMAIN commands = 1 .. Len(commands)
  BY DEF GoodCommands, IsList
<1> HIDE DEF S
<1>2. /\ t \in Seq(S) /\ Len(t) = Len(commands) + 1
      /\ DOMAIN t = 1 .. Len(commands) + 1
      /\ t[Len(commands) + 1] = c
      /\ \A i \in DOMAIN commands : t[i] = commands[i]
  BY <1>1
<1> HIDE DEF t
<1>3. \A i \in DOMAIN t : i \in DOMAIN commands \/ i = Len(commands) + 1
  BY <1>1, <1>2
<1>4. \A i \in DOMAIN commands :
        /\ IsEdited(commands[i]) /\ commands[i].id < nextId
        /\ commands[i].id \in Nat
  BY DEF GoodCommands, IsEdited
<1>5. \A i \in DOMAIN t : IsEdited(t[i]) /\ t[i].id < nextId + 1
  BY <1>2, <1>3, <1>4
<1>6. ASSUME NEW i \in DOMAIN t, NEW j \in DOMAIN t, t[i].id = t[j].id
      PROVE  i = j
  <2>1. CASE i \in DOMAIN commands /\ j \in DOMAIN commands
    BY <1>2, <1>6, <2>1 DEF GoodCommands
  <2>2. CASE i \in DOMAIN commands /\ j = Len(commands) + 1
    BY <1>2, <1>4, <1>6, <2>2
  <2>3. CASE j \in DOMAIN commands /\ i = Len(commands) + 1
    BY <1>2, <1>4, <1>6, <2>3
  <2>4. QED
    BY <1>3, <2>1, <2>2, <2>3
<1>7. IsList(t)
  BY <1>2, IsListOfSeq
<1>8. MaxCommands \in Nat
  BY DEF EditorAssumption
<1>9. Len(t) <= MaxCommands
  BY <1>1, <1>2, <1>8
<1>10. GoodCommands(t, nextId + 1)
  BY <1>5, <1>6, <1>7, <1>9 DEF GoodCommands
<1>11. QED
  BY <1>10 DEF t

LEMMA ReplacedIsGood ==
  ASSUME GoodCommands(commands, nextId), EditorAssumption, nextId \in Nat,
         NEW i \in DOMAIN commands, NEW c, IsEdited(c),
         NEW next,
         \/ c.id = commands[i].id /\ next = nextId
         \/ c.id = nextId /\ next = nextId + 1
  PROVE  GoodCommands([commands EXCEPT ![i] = c], next)
<1> DEFINE t == [commands EXCEPT ![i] = c]
           S == {commands[k] : k \in DOMAIN commands} \union {c}
<1>1. /\ commands \in Seq(S) /\ c \in S /\ Len(commands) \in Nat
      /\ DOMAIN commands = 1 .. Len(commands)
  BY DEF GoodCommands, IsList
<1> HIDE DEF S
<1>2. /\ t \in Seq(S) /\ Len(t) = Len(commands) /\ DOMAIN t = DOMAIN commands
      /\ t[i] = c /\ \A k \in DOMAIN commands : k # i => t[k] = commands[k]
  BY <1>1
<1> HIDE DEF t
<1>4. \A k \in DOMAIN commands :
        /\ IsEdited(commands[k]) /\ commands[k].id < nextId
        /\ commands[k].id \in Nat
  BY DEF GoodCommands, IsEdited
<1>5. \A k \in DOMAIN t : IsEdited(t[k]) /\ t[k].id < next
  BY <1>2, <1>4
<1>6. \A k, l \in DOMAIN t : t[k].id = t[l].id => k = l
  <2>1. \A k, l \in DOMAIN commands :
          commands[k].id = commands[l].id => k = l
    BY DEF GoodCommands
  <2>2. QED
    BY <1>2, <1>4, <2>1
<1>7. IsList(t)
  BY <1>2, IsListOfSeq
<1>8. Len(t) <= MaxCommands
  BY <1>2 DEF GoodCommands
<1>9. GoodCommands(t, next)
  BY <1>5, <1>6, <1>7, <1>8 DEF GoodCommands
<1>10. QED
  BY <1>9 DEF t

\* A change of some of a command's fields.
LEMMA RefilledIsGood ==
  ASSUME GoodCommands(commands, nextId), EditorAssumption, nextId \in Nat,
         NEW i \in DOMAIN commands, NEW fields, NEW dragged \in BOOLEAN,
         FieldsOfType(commands[i].kind, fields, dragged),
         NEW c, c = [commands[i] EXCEPT !.fields = fields, !.dragged = dragged]
  PROVE  GoodCommands([commands EXCEPT ![i] = c], nextId)
<1>1. IsEdited(commands[i])
  BY DEF GoodCommands
<1>2. /\ c.id = commands[i].id /\ c.kind = commands[i].kind
      /\ c.fields = fields /\ c.dragged = dragged
      /\ c = [id |-> c.id, kind |-> c.kind, fields |-> c.fields,
              dragged |-> c.dragged]
  BY <1>1 DEF IsEdited
<1>3. IsEdited(c)
  BY <1>1, <1>2 DEF IsEdited
<1>4. QED
  BY <1>2, <1>3, ReplacedIsGood

LEMMA AddsKeepInv ==
  ASSUME EditorInv, EditorAssumption, NEW kind \in Kinds, NEW options,
         Add(kind, options)
  PROVE  EditorInv'
<1>1. /\ IsEdited(Command(kind, options))
      /\ Command(kind, options).id = nextId
  BY CommandIsEdited DEF EditorInv
<1>2. /\ commands' = Append(commands, Command(kind, options))
      /\ nextId' = nextId + 1 /\ Len(commands) < MaxCommands
      /\ UNCHANGED <<commandAnimate, stops>>
  BY DEF Add, showing
<1>3. GoodCommands(Append(commands, Command(kind, options)), nextId + 1)
  BY <1>1, <1>2, AppendedIsGood DEF EditorInv
<1>4. QED
  BY <1>2, <1>3 DEF EditorInv

LEMMA ListKeepsInv ==
  ASSUME EditorInv, EditorAssumption, NEW i \in DOMAIN commands,
         DeleteCommand(i) \/ \E j \in DOMAIN commands : ReorderCommand(i, j)
  PROVE  EditorInv'
<1> DEFINE S == {commands[k] : k \in DOMAIN commands}
<1>1. commands \in Seq(S) /\ Len(commands) \in Nat
  BY DEF EditorInv, GoodCommands, IsList
<1> HIDE DEF S
<1>2. nextId' = nextId /\ UNCHANGED <<commandAnimate, stops>>
  BY DEF DeleteCommand, ReorderCommand, showing
<1>3. /\ commands' \in Seq(S) /\ Len(commands') <= Len(commands)
      /\ IsPicked(commands', commands)
  <2>1. CASE DeleteCommand(i)
    BY <1>1, <2>1, RemovedIsPicked DEF DeleteCommand
  <2>2. ASSUME NEW j \in DOMAIN commands, ReorderCommand(i, j)
        PROVE  <1>3!:
    BY <1>1, <2>2, MovedIsPicked DEF ReorderCommand
  <2>3. QED
    BY <2>1, <2>2
<1>4. \A t : t \in Seq(S) /\ Len(t) <= Len(commands) /\ IsPicked(t, commands)
             => GoodCommands(t, nextId)
  BY <1>2, PickedAreGood DEF EditorInv
<1>5. QED
  BY <1>2, <1>3, <1>4 DEF EditorInv

\* A step that replaces one command.
LEMMA ReplacingKeepsInv ==
  ASSUME EditorInv, NEW i \in DOMAIN commands, NEW c, NEW next \in Nat,
         commands' = [commands EXCEPT ![i] = c],
         GoodCommands([commands EXCEPT ![i] = c], next),
         nextId' = next, UNCHANGED <<commandAnimate, stops>>
  PROVE  EditorInv'
  BY DEF EditorInv

LEMMA TypesKeepInv ==
  ASSUME EditorInv, EditorAssumption, NEW i \in DOMAIN commands,
         NEW kind \in Kinds, ChangeCommandType(i, kind)
  PROVE  EditorInv'
<1> DEFINE c == Command(kind, SetLocationFields(commands[i].fields))
<1>1. IsEdited(c) /\ c.id = nextId
  BY CommandIsEdited DEF EditorInv
<1>2. /\ commands' = [commands EXCEPT ![i] = c] /\ nextId' = nextId + 1
      /\ UNCHANGED <<commandAnimate, stops>>
  BY DEF ChangeCommandType, showing
<1> HIDE DEF c
<1>3. GoodCommands([commands EXCEPT ![i] = c], nextId + 1)
  BY <1>1, ReplacedIsGood DEF EditorInv
<1>4. QED
  BY <1>2, <1>3, ReplacingKeepsInv DEF EditorInv

\* A step that changes the fields of one.
LEMMA RefillingKeepsInv ==
  ASSUME EditorInv, EditorAssumption, NEW i \in DOMAIN commands,
         NEW fields, NEW dragged \in BOOLEAN,
         FieldsOfType(commands[i].kind, fields, dragged),
         commands' = [commands EXCEPT ![i] =
                        [commands[i] EXCEPT !.fields = fields,
                                            !.dragged = dragged]],
         nextId' = nextId, UNCHANGED <<commandAnimate, stops>>
  PROVE  EditorInv'
<1> DEFINE c == [commands[i] EXCEPT !.fields = fields, !.dragged = dragged]
<1> HIDE DEF c
<1>1. commands' = [commands EXCEPT ![i] = c]
  BY DEF c
<1>2. GoodCommands([commands EXCEPT ![i] = c], nextId)
  BY RefilledIsGood DEF EditorInv, c
<1>3. QED
  BY <1>1, <1>2, ReplacingKeepsInv DEF EditorInv

LEMMA RefillOnlyFields ==
  ASSUME EditorInv, EditorAssumption, NEW i \in DOMAIN commands, NEW fields,
         FieldsOfType(commands[i].kind, fields, commands[i].dragged),
         commands' = [commands EXCEPT ![i] =
                        [commands[i] EXCEPT !.fields = fields]],
         nextId' = nextId, UNCHANGED <<commandAnimate, stops>>
  PROVE  EditorInv'
<1> DEFINE c == commands[i]
           r == [c EXCEPT !.fields = fields]
<1>1. IsEdited(c) /\ c.dragged \in BOOLEAN
  BY DEF EditorInv, GoodCommands, IsEdited
<1>2. r = [c EXCEPT !.fields = fields, !.dragged = c.dragged]
  BY <1>1 DEF IsEdited
<1>3. commands' = [commands EXCEPT ![i] = r]
  OBVIOUS
<1> HIDE DEF r
<1>4. QED
  BY <1>1, <1>2, <1>3, RefillingKeepsInv

LEMMA AltitudesKeepInv ==
  ASSUME EditorInv, EditorAssumption, NEW i \in DOMAIN commands,
         NEW alt \in Altitudes, ChangeAltitude(i, alt)
  PROVE  EditorInv'
<1> DEFINE c == commands[i]
<1>1. /\ IsEdited(c) /\ c.kind \in Kinds /\ c.dragged \in BOOLEAN
      /\ FieldsOfType(c.kind, c.fields, c.dragged)
  BY DEF EditorInv, GoodCommands, IsEdited
<1>2. nextId' = nextId /\ UNCHANGED <<commandAnimate, stops>>
  BY DEF ChangeAltitude, showing
<1>3. CASE /\ c.kind \in GoalKinds
           /\ commands' = [commands EXCEPT ![i].fields.goal.alt = alt]
  <2> DEFINE fields == [c.fields EXCEPT !.goal.alt = alt]
  <2>1. FieldsOfType(c.kind, fields, c.dragged)
    BY <1>1, <1>3, KindsAre DEF FieldsOfType, IsLocation, Location
  <2>2. commands' = [commands EXCEPT ![i] = [c EXCEPT !.fields = fields]]
    BY <1>3
  <2> HIDE DEF fields
  <2>3. QED
    BY <1>1, <1>2, <2>1, <2>2, RefillOnlyFields
<1>4. CASE /\ c.kind = "off_axis"
           /\ commands' =
                [commands EXCEPT ![i].fields.photographer_location.alt = alt]
  <2> DEFINE fields == [c.fields EXCEPT !.photographer_location.alt = alt]
  <2>1. FieldsOfType(c.kind, fields, c.dragged)
    BY <1>1, <1>4, KindsAre DEF FieldsOfType, IsLocation, Location
  <2>2. commands' = [commands EXCEPT ![i] = [c EXCEPT !.fields = fields]]
    BY <1>4
  <2> HIDE DEF fields
  <2>3. QED
    BY <1>1, <1>2, <2>1, <2>2, RefillOnlyFields
<1>5. CASE /\ c.kind = "survey"
           /\ commands' = [commands EXCEPT ![i].fields.altitude = alt]
  <2> DEFINE fields == [c.fields EXCEPT !.altitude = alt]
  <2>1. FieldsOfType(c.kind, fields, c.dragged)
    BY <1>1, <1>5, KindsAre DEF FieldsOfType
  <2>2. commands' = [commands EXCEPT ![i] = [c EXCEPT !.fields = fields]]
    BY <1>5
  <2> HIDE DEF fields
  <2>3. QED
    BY <1>1, <1>2, <2>1, <2>2, RefillOnlyFields
<1>6. QED
  BY <1>3, <1>4, <1>5 DEF ChangeAltitude

LEMMA PolygonsKeepInv ==
  ASSUME EditorInv, EditorAssumption, NEW i \in DOMAIN commands,
         AddRepeatedField(i) \/ PopRepeatedField(i)
  PROVE  EditorInv'
<1> DEFINE c == commands[i]
<1>1. /\ IsEdited(c) /\ c.kind \in Kinds /\ c.dragged \in BOOLEAN
      /\ FieldsOfType(c.kind, c.fields, c.dragged)
  BY DEF EditorInv, GoodCommands, IsEdited
<1>2. nextId' = nextId /\ UNCHANGED <<commandAnimate, stops>>
  BY DEF AddRepeatedField, PopRepeatedField, showing
<1>3. /\ c.kind = "survey"
      /\ \E polygon :
           commands' = [commands EXCEPT ![i].fields.survey_polygon = polygon]
  BY DEF AddRepeatedField, PopRepeatedField
<1>4. PICK polygon :
        commands' = [commands EXCEPT ![i].fields.survey_polygon = polygon]
  BY <1>3
<1> DEFINE fields == [c.fields EXCEPT !.survey_polygon = polygon]
<1>5. FieldsOfType(c.kind, fields, c.dragged)
  BY <1>1, <1>3, KindsAre DEF FieldsOfType
<1>6. commands' = [commands EXCEPT ![i] = [c EXCEPT !.fields = fields]]
  BY <1>4
<1> HIDE DEF fields
<1>7. QED
  BY <1>1, <1>2, <1>5, <1>6, RefillOnlyFields

LEMMA DragsKeepInv ==
  ASSUME EditorInv, EditorAssumption, NEW i \in DOMAIN commands,
         NEW pos, CommandDragged(i, pos)
  PROVE  EditorInv'
<1> DEFINE c == commands[i]
           goal == Location(pos, IF Has(c.fields, "goal")
                                 THEN c.fields.goal.alt ELSE Undefined)
           fields == With(c.fields, [goal |-> goal])
<1>1. /\ IsEdited(c) /\ c.kind \in Kinds /\ c.dragged \in BOOLEAN
      /\ FieldsOfType(c.kind, c.fields, c.dragged)
  BY DEF EditorInv, GoodCommands, IsEdited
<1>2. /\ HasLocation(c.fields)
      /\ commands' = [commands EXCEPT ![i].fields = fields,
                                      ![i].dragged = TRUE]
      /\ nextId' = nextId /\ UNCHANGED <<commandAnimate, stops>>
  BY DEF CommandDragged, showing
<1>3. IsLocation(goal)
  BY LocationsAre
<1> HIDE DEF goal
<1>4. /\ DOMAIN fields = DOMAIN c.fields \union {"goal"}
      /\ fields.goal = goal
      /\ \A name \in DOMAIN c.fields : name # "goal"
           => fields[name] = c.fields[name]
  BY DEF With, Has
<1> HIDE DEF fields
<1>5. c.kind \in GoalKinds \union {"off_axis"}
  BY <1>1, <1>2, MarkerIs
<1>6. FieldsOfType(c.kind, fields, TRUE)
  <2>1. CASE c.kind \in GoalKinds
    BY <1>1, <1>3, <1>4, <2>1, KindsAre DEF FieldsOfType
  <2>2. CASE c.kind = "off_axis"
    BY <1>1, <1>3, <1>4, <2>2, KindsAre DEF FieldsOfType
  <2>3. QED
    BY <1>5, <2>1, <2>2
<1>7. commands' = [commands EXCEPT ![i] =
                     [c EXCEPT !.fields = fields, !.dragged = TRUE]]
  BY <1>2
<1>8. QED
  BY <1>2, <1>6, <1>7, RefillingKeepsInv

LEMMA EditorInvHolds ==
  ASSUME EditorAssumption
  PROVE  EditorSpec => []EditorInv
<1>1. EditorInit => EditorInv
  <2> SUFFICES ASSUME EditorInit PROVE EditorInv
    OBVIOUS
  <2>1. IsList(<<>>) /\ Len(<<>>) = 0 /\ DOMAIN <<>> = {} /\ MaxCommands \in Nat
    BY DEF IsList, EditorAssumption
  <2>2. GoodCommands(<<>>, nextId)
    BY <2>1 DEF GoodCommands
  <2>3. QED
    BY <2>2 DEF EditorInit, EditorInv
<1>2. EditorInv /\ [EditorNext]_editorVars => EditorInv'
  <2> SUFFICES ASSUME EditorInv, [EditorNext]_editorVars PROVE EditorInv'
    OBVIOUS
  <2>1. ASSUME NEW pos \in Positions,
               AddCommand(pos) \/ MapDblClick(pos) \/ AddInteropWaypoint(pos)
        PROVE  EditorInv'
    BY <2>1, AddsKeepInv, KindsAre
       DEF AddCommand, MapDblClick, AddInteropWaypoint
  <2>2. ASSUME NEW i \in DOMAIN commands,
               \/ DeleteCommand(i)
               \/ \E j \in DOMAIN commands : ReorderCommand(i, j)
        PROVE  EditorInv'
    BY <2>2, ListKeepsInv
  <2>3. ASSUME NEW i \in DOMAIN commands, NEW kind \in Kinds,
               ChangeCommandType(i, kind)
        PROVE  EditorInv'
    BY <2>3, TypesKeepInv
  <2>4. ASSUME NEW i \in DOMAIN commands, NEW alt \in Altitudes,
               ChangeAltitude(i, alt)
        PROVE  EditorInv'
    BY <2>4, AltitudesKeepInv
  <2>5. ASSUME NEW i \in DOMAIN commands, NEW pos \in Positions,
               CommandDragged(i, pos)
        PROVE  EditorInv'
    BY <2>5, DragsKeepInv
  <2>6. ASSUME NEW i \in DOMAIN commands,
               AddRepeatedField(i) \/ PopRepeatedField(i)
        PROVE  EditorInv'
    BY <2>6, PolygonsKeepInv
  <2>7. ASSUME UNCHANGED <<commands, nextId>>,
               commandAnimate' \subseteq stops'
        PROVE  EditorInv'
    BY <2>7 DEF EditorInv
  <2>8. ASSUME NEW i \in DOMAIN commands, CenterMapOnCommand(i)
        PROVE  EditorInv'
    BY <2>7, <2>8 DEF CenterMapOnCommand, editing, EditorInv
  <2>9. ASSUME NEW id \in stops, CommandStopAnimation(id) PROVE EditorInv'
    BY <2>7, <2>9 DEF CommandStopAnimation, editing, EditorInv
  <2>10. CASE FirstTelemetry \/ UNCHANGED editorVars
    BY <2>7, <2>10 DEF FirstTelemetry, editorVars, editing, showing, EditorInv
  <2>11. CASE ResetPlan
    <3>1. IsList(<<>>) /\ Len(<<>>) = 0 /\ DOMAIN <<>> = {}
          /\ MaxCommands \in Nat
      BY DEF IsList, EditorAssumption
    <3>2. GoodCommands(<<>>, nextId)
      BY <3>1 DEF GoodCommands
    <3>3. QED
      BY <2>11, <3>2 DEF ResetPlan, EditorInv
  <2>12. QED
    BY <2>1, <2>2, <2>3, <2>4, <2>5, <2>6, <2>8, <2>9, <2>10, <2>11
       DEF EditorNext
<1>3. QED
  BY <1>1, <1>2, PTL DEF EditorSpec

-----------------------------------------------------------------------------

\* Every command can be compiled, and no two have one id: for any positions,
\* altitudes and number of commands.
THEOREM EditorTypeCorrect ==
  ASSUME EditorAssumption
  PROVE  EditorSpec => []EditorTypeOK
<1>1. ASSUME NEW kind \in Kinds, NEW fields, NEW dragged \in BOOLEAN,
             FieldsOfType(kind, fields, dragged)
      PROVE  DOMAIN MissionObject(kind, Missing) \subseteq DOMAIN fields
  <2>1. FieldsOfType(kind, MissionObject(kind, Missing), FALSE)
    BY ObjectIsOfType
  <2>2. QED
    BY <1>1, <2>1, KindsAre DEF FieldsOfType
<1>2. EditorInv => EditorTypeOK
  BY <1>1 DEF EditorInv, GoodCommands, IsEdited, EditorTypeOK
<1>3. QED
  BY <1>2, EditorInvHolds, PTL

\* A marker stands where its command is compiled to, unless an off-axis
\* command's was dragged, through every change of type, altitude and order.
THEOREM MarkersStandWhereCompiled ==
  ASSUME EditorAssumption
  PROVE  EditorSpec => []MarkersAreCompiled
<1>1. ASSUME EditorInv, NEW i \in Markers,
             commands[i].kind = "off_axis" => ~commands[i].dragged
      PROVE  LocationOf(commands[i].fields) = Compiled(commands[i])
  <2>1. /\ commands[i].kind \in Kinds /\ commands[i].dragged \in BOOLEAN
        /\ FieldsOfType(commands[i].kind, commands[i].fields,
                        commands[i].dragged)
        /\ HasLocation(commands[i].fields)
    BY <1>1 DEF EditorInv, GoodCommands, IsEdited, Markers
  <2>2. QED
    BY <1>1, <2>1, MarkerIs, KindsAre DEF Compiled
<1>2. EditorInv => MarkersAreCompiled
  BY <1>1 DEF MarkersAreCompiled
<1>3. QED
  BY <1>2, EditorInvHolds, PTL

\* A change between two types that have a location keeps it.
THEOREM TypesKeepLocation ==
  ASSUME EditorAssumption
  PROVE  EditorSpec => LocationKeptBetweenLocations
<1>1. ASSUME EditorInv, NEW i \in Markers,
             NEW kind \in GoalKinds \union {"off_axis"},
             ChangeCommandType(i, kind),
             LocationOf(commands[i].fields).alt # Undefined
      PROVE  LocationOf(commands'[i].fields) = LocationOf(commands[i].fields)
  <2> DEFINE fields == commands[i].fields
             l == LocationOf(fields)
             options == SetLocationFields(fields)
             c == Command(kind, options)
  <2>1. /\ i \in DOMAIN commands /\ HasLocation(fields)
        /\ commands[i].kind \in Kinds /\ commands[i].dragged \in BOOLEAN
        /\ FieldsOfType(commands[i].kind, fields, commands[i].dragged)
    BY <1>1 DEF EditorInv, GoodCommands, IsEdited, Markers
  <2>2. IsLocation(l) /\ l.alt # Undefined
    BY <1>1, <2>1, MarkerIs
  <2>3. options = With(fields, [field \in ToSet(locationFields) |-> l])
    BY <2>1 DEF SetLocationFields
  <2>4. {"goal", "photographer_location"} \subseteq ToSet(locationFields)
    BY DEF ToSet, locationFields
  <2> HIDE DEF l
  <2>5. /\ Has(options, "goal") /\ options.goal = l
        /\ Has(options, "photographer_location")
        /\ options.photographer_location = l
    BY <2>3, <2>4 DEF With, Has
  <2> HIDE DEF options
  <2>6. Position3D(options, "goal") = l
        /\ Position3D(options, "photographer_location") = l
    BY <2>2, <2>5 DEF Position3D, Number, IsLocation
  <2>7. commands'[i] = c
    BY <1>1, <2>1 DEF ChangeCommandType, options
  <2>8. LocationOf(c.fields) = l
    <3>1. kind \in Kinds
      BY KindsAre
    <3>2. IsEdited(c) /\ c.kind = kind /\ c.dragged = FALSE
          /\ c.fields = MissionObject(kind, options)
      BY <1>1, <3>1, CommandIsEdited DEF Command, EditorInv
    <3> HIDE DEF c
    <3>3. /\ HasLocation(c.fields)
          /\ kind \in GoalKinds => LocationOf(c.fields) = c.fields.goal
          /\ kind = "off_axis"
               => LocationOf(c.fields) = c.fields.photographer_location
      BY <3>1, <3>2, MarkerIs DEF IsEdited
    <3>4. CASE kind \in GoalKinds
      BY <2>6, <3>2, <3>3, <3>4, KindsAre DEF MissionObject
    <3>5. CASE kind = "off_axis"
      BY <2>6, <3>2, <3>3, <3>5, KindsAre DEF MissionObject
    <3>6. QED
      BY <3>4, <3>5
  <2>9. QED
    BY <2>7, <2>8 DEF l
<1>2. EditorInv => KeepsLocation
  BY <1>1 DEF KeepsLocation
<1>3. QED
  BY <1>2, EditorInvHolds, PTL DEF LocationKeptBetweenLocations
=============================================================================
