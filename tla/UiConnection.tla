---------------------------- MODULE UiConnection ----------------------------
(***************************************************************************)
(* The UI's connection to a ground server: the communicator, a middleware  *)
(* of the store (src/ground/ui/src/communicator.js), the settings reducer  *)
(* and the Settings page that shows the connection and changes it.         *)
(*                                                                         *)
(* A socket keeps what is emitted while it is not connected and sends it   *)
(* when it connects (again).  A socket that is replaced is closed once     *)
(* what it had sent is through, or lost.                                   *)
(***************************************************************************)
EXTENDS Naturals, Sequences, SequencesExt, FiniteSets

CONSTANTS
  Servers,      \* the addresses the operator types or selects
  Default,      \* the address the UI starts with
  MaxOrders     \* bound on the orders transmitted

ConnectionAssumption == Default \in Servers /\ MaxOrders \in Nat

VARIABLES
  gndServerIp, connectedGndServerIp, gndServerConnected,  \* the settings
  socketIp, connected,   \* the communicator's socket
  sendBuffer,            \* what it keeps until it connects
  wire,                  \* what it sent and the server did not get yet
  closing,               \* the same of a replaced socket, with its address
  given,                 \* the orders transmitted so far
  shownFor,              \* the server that was shown when each was given, if
                         \* what was shown was the socket's (history)
  executed,              \* the orders each server got (history)
  resetSince             \* the state was reset after the last CONNECT (history)

settings == <<gndServerIp, connectedGndServerIp, gndServerConnected>>
socket   == <<socketIp, connected, sendBuffer, wire, closing>>
orders   == <<given, shownFor, executed, resetSince>>
vars     == <<settings, socket, orders>>

NoServer == "NONE"
NotClosing == [ip |-> NoServer, wire |-> <<>>]

Init ==
  /\ gndServerIp = Default /\ connectedGndServerIp = Default
  /\ gndServerConnected = FALSE
  /\ socketIp = Default /\ connected = FALSE
  /\ sendBuffer = <<>> /\ wire = <<>> /\ closing = NotClosing
  /\ given = 0 /\ shownFor = <<>> /\ resetSince = FALSE
  /\ executed = [s \in Servers |-> {}]

\* connectedGroundServer, the text of the Settings page.
Shown == IF gndServerConnected THEN connectedGndServerIp ELSE NoServer

-----------------------------------------------------------------------------
\* 'connect': the socket sends what it kept.
SocketConnects ==
  /\ ~connected
  /\ connected' = TRUE
  /\ gndServerConnected' = TRUE
  /\ wire' = sendBuffer /\ sendBuffer' = <<>>
  /\ UNCHANGED <<gndServerIp, connectedGndServerIp, socketIp, closing, orders>>

\* 'disconnect': what is under way is lost; the socket tries again.
SocketDisconnects ==
  /\ connected
  /\ connected' = FALSE
  /\ gndServerConnected' = FALSE
  /\ wire' = <<>>
  /\ UNCHANGED <<gndServerIp, connectedGndServerIp, socketIp, sendBuffer,
                 closing, orders>>

\* UPDATE_SETTINGS: the operator types or selects an address.
UpdateSettings(ip) ==
  /\ gndServerIp' = ip
  /\ UNCHANGED <<connectedGndServerIp, gndServerConnected, socket, orders>>

\* Mutant of ConnectToGndServer: the new socket uses the connected address,
\* which the reducer sets only after the middleware.
ConnectToOldServer ==
  /\ closing = NotClosing
  /\ connected' = FALSE /\ gndServerConnected' = FALSE
  /\ closing' = IF wire = <<>> THEN NotClosing
                ELSE [ip |-> socketIp, wire |-> wire]
  /\ socketIp' = connectedGndServerIp
  /\ sendBuffer' = <<>> /\ wire' = <<>>
  /\ connectedGndServerIp' = gndServerIp
  /\ resetSince' = FALSE
  /\ UNCHANGED <<gndServerIp, given, shownFor, executed>>

\* CONNECT_TO_GND_SERVER: the middleware replaces the socket, with what it
\* kept, and then the reducer sets the connected address.
ConnectToGndServer ==
  /\ closing = NotClosing
  /\ connected' = FALSE /\ gndServerConnected' = FALSE
  /\ closing' = IF wire = <<>> THEN NotClosing
                ELSE [ip |-> socketIp, wire |-> wire]
  /\ socketIp' = gndServerIp
  /\ sendBuffer' = <<>> /\ wire' = <<>>
  /\ connectedGndServerIp' = gndServerIp
  /\ resetSince' = FALSE
  /\ UNCHANGED <<gndServerIp, given, shownFor, executed>>

\* RESET_REDUX_STATE: the settings only, not the communicator.
ResetReduxState ==
  /\ gndServerIp' = Default /\ connectedGndServerIp' = Default
  /\ gndServerConnected' = FALSE
  /\ resetSince' = TRUE
  /\ UNCHANGED <<socket, given, shownFor, executed>>

\* TRANSMIT
Transmit ==
  /\ given < MaxOrders
  /\ given' = given + 1
  /\ shownFor' = Append(shownFor, IF resetSince THEN NoServer ELSE Shown)
  /\ IF connected
     THEN wire' = Append(wire, given') /\ UNCHANGED sendBuffer
     ELSE sendBuffer' = Append(sendBuffer, given') /\ UNCHANGED wire
  /\ UNCHANGED <<settings, socketIp, connected, closing, executed, resetSince>>

ServerReceives ==
  /\ wire # <<>>
  /\ wire' = Tail(wire)
  /\ executed' = [executed EXCEPT ![socketIp] = @ \union {Head(wire)}]
  /\ UNCHANGED <<settings, socketIp, connected, sendBuffer, closing, given,
                 shownFor, resetSince>>

\* The replaced socket: what it had sent arrives, all of it or a part.
OldSocketCloses ==
  /\ closing # NotClosing
  /\ \E n \in 0..Len(closing.wire) :
       executed' = [executed EXCEPT ![closing.ip] =
                      @ \union {closing.wire[i] : i \in 1..n}]
  /\ closing' = NotClosing
  /\ UNCHANGED <<settings, socketIp, connected, sendBuffer, wire, given,
                 shownFor, resetSince>>

Next ==
  \/ SocketConnects \/ SocketDisconnects
  \/ \E ip \in Servers : UpdateSettings(ip)
  \/ ConnectToGndServer
  \/ ResetReduxState
  \/ Transmit \/ ServerReceives \/ OldSocketCloses

Spec == Init /\ [][Next]_vars

-----------------------------------------------------------------------------
(* Every variable has its type; what a connected socket gets is sent, so   *)
(* that nothing is kept by one that is connected.                          *)
ConnectionTypeOK ==
  /\ {gndServerIp, connectedGndServerIp, socketIp} \subseteq Servers
  /\ {gndServerConnected, connected, resetSince} \subseteq BOOLEAN
  /\ given \in 0..MaxOrders /\ Len(shownFor) = given
  /\ connected => sendBuffer = <<>>
  /\ ~connected => wire = <<>>

(* The Settings page says "Connected to" the server that gets the orders,  *)
(* and that there is none exactly while there is none, until the state is  *)
(* reset; and from then on when the operator connects again.               *)
ShowsTheConnection ==
  ~resetSince => Shown = (IF connected THEN socketIp ELSE NoServer)

(* An order is never executed by another server than the one that was      *)
(* shown when it was given, through every change of the address.           *)
ExecutedWhereShown ==
  \A s \in Servers :
    \A order \in executed[s] : shownFor[order] \in {s, NoServer}

(* No order is executed by two servers, or again by the one that got it.   *)
ExecutedOnce ==
  /\ \A s, t \in Servers : s # t => executed[s] \cap executed[t] = {}
  /\ \A s \in Servers :
       ToSet(sendBuffer \o wire \o closing.wire) \cap executed[s] = {}

(* What was given without a connection does not stay behind for ever: it   *)
(* is sent at the next connection, however late, or dropped with the       *)
(* socket when the operator connects anew.                                 *)
KeptOrdersLeave == sendBuffer # <<>> ~> sendBuffer = <<>>
=============================================================================
