----------------------------- MODULE ArchiveApp ------------------------------
(***************************************************************************)
(* The archived ground station (archive/ground.py) and one browser of it   *)
(* (interface/src/App.jsx): who is connected, what the browser says of it, *)
(* and the mission it was given.                                           *)
(*                                                                         *)
(* The station talks to interop in three threads: the handler of the       *)
(* connect button, the handler of the drone's telemetry, and a loop that   *)
(* looks for changes and broadcasts them through a socket of its own.      *)
(* Handlers that do not wait for interop are one step.  The lists of       *)
(* missions and of stationary obstacles are treated alike; one is modelled.*)
(***************************************************************************)
EXTENDS Integers, Sequences

CONSTANTS
  Missions,     \* lists of missions that interop may have
  Empty,        \* the list that interop may also have, and a browser's first
  MaxMessages,  \* bound on the messages on their way to the browser
  MaxTimers,    \* bound on the resets of the button that are counted
  Apart         \* the connect handler and the loop do not overlap

Unknown == "no missions yet"
Asleep == "asleep"

ArchiveAssumption ==
  /\ Empty \notin Missions /\ Apart \in BOOLEAN
  /\ {Unknown, Asleep} \cap (Missions \cup {Empty}) = {}
  /\ MaxMessages \in Nat \ {0} /\ MaxTimers \in Nat \ {0}

VARIABLES
  interop,   \* the mission list of interop, and whether it answers
  station,   \* the globals: interop_client, missions, drone_sid (if it is set)
  refresh,   \* the loop: asleep, or the missions it had when it asked interop
  connect,   \* the connect button: nothing, requested, or asking interop
  broadcast, \* from the loop's socket to the station
  toUi,      \* from the station to the browser
  ui         \* the state of the App; timers that will reset the button's text

archiveVars == <<interop, station, refresh, connect, broadcast, toUi, ui>>
threads == <<refresh, connect, broadcast>>

ArchiveInit ==
  /\ interop \in [missions : Missions \cup {Empty}, up : BOOLEAN]
  /\ station = [client |-> FALSE, missions |-> Unknown, drone |-> FALSE]
  /\ refresh = Asleep /\ connect = "none"
  /\ broadcast = <<>> /\ toUi = <<>>
  /\ ui = [online |-> FALSE, droneState |-> "Offline", missions |-> Empty,
           text |-> "Connect", enabled |-> TRUE, timers |-> 0]

\* Messages.  An absent part of the data is Unknown.
Data(missions) == [type |-> "interop_data", missions |-> missions]
Message(type) == [type |-> type, missions |-> Unknown]
Disconnected == Message("interop_disconnected")

\* To a browser that is offline nothing is sent.
Emit(messages) ==
  toUi' = IF ui.online THEN toUi \o messages ELSE toUi

RoomFor(n) == Len(toUi) + n <= MaxMessages

-----------------------------------------------------------------------------
(* The station.                                                            *)

\* join_room of a browser: what it is told
InitialData ==
  <<[type |-> "initial_data", drone |-> station.drone,
     missions |-> IF station.client THEN station.missions ELSE Unknown]>>

\* join_room of the drone, and disconnect
DroneConnects ==
  /\ ~station.drone /\ RoomFor(1)
  /\ station' = [station EXCEPT !.drone = TRUE]
  /\ Emit(<<Message("drone_connected")>>)
  /\ UNCHANGED <<interop, threads, ui>>

DroneDisconnects ==
  /\ station.drone /\ RoomFor(1)
  /\ station' = [station EXCEPT !.drone = FALSE]
  /\ Emit(<<Message("drone_disconnected")>>)
  /\ UNCHANGED <<interop, threads, ui>>

\* connect_to_interop.  The client is there once it has logged in.
ConnectToInterop ==
  /\ connect = "requested" /\ RoomFor(1)
  /\ Apart => refresh = Asleep /\ broadcast = <<>>
  /\ IF interop.up
     THEN /\ station' = [station EXCEPT !.client = TRUE]
          /\ connect' = "asks" /\ UNCHANGED toUi
     ELSE /\ station' = [station EXCEPT !.client = FALSE]
          /\ connect' = "none" /\ Emit(<<Disconnected>>)
  /\ UNCHANGED <<interop, refresh, broadcast, ui>>

\* Without a client, which another thread took away, asking throws.
ConnectAnswered ==
  /\ connect = "asks" /\ connect' = "none" /\ RoomFor(1)
  /\ IF interop.up /\ station.client
     THEN /\ station' = [station EXCEPT !.missions = interop.missions]
          /\ Emit(<<Data(interop.missions)>>)
     ELSE /\ station' = [station EXCEPT !.client = FALSE]
          /\ Emit(<<Disconnected>>)
  /\ UNCHANGED <<interop, refresh, broadcast, ui>>

\* telemetry, which interop takes or not
Telemetry ==
  /\ station.drone /\ RoomFor(2)
  /\ IF station.client /\ ~interop.up
     THEN /\ station' = [station EXCEPT !.client = FALSE]
          /\ Emit(<<Message("on_telemetry"), Disconnected>>)
     ELSE UNCHANGED station /\ Emit(<<Message("on_telemetry")>>)
  /\ UNCHANGED <<interop, threads, ui>>

\* refresh_interop_data: twice a second, what has changed and is not empty
RefreshAsks ==
  /\ refresh = Asleep /\ station.client
  /\ Apart => connect # "asks"
  /\ refresh' = station.missions
  /\ UNCHANGED <<interop, station, connect, broadcast, toUi, ui>>

\* Mutant of Changed: the old missions are looked up after the new ones came.
ChangedAfterwards(old, new) ==
  IF new # Empty /\ new # new THEN new ELSE Unknown

Changed(old, new) == IF new # Empty /\ new # old THEN new ELSE Unknown

\* The old missions are null until interop has answered: their length throws.
\* One message of the loop is on its way at a time: it sleeps in between.
RefreshAnswered ==
  /\ refresh # Asleep /\ refresh' = Asleep
  /\ broadcast = <<>>
  /\ IF interop.up /\ station.client
     THEN IF refresh # Unknown \/ interop.missions = Empty
          THEN /\ station' = [station EXCEPT !.missions = interop.missions]
               /\ broadcast' =
                    <<Data(Changed(refresh, interop.missions))>>
          ELSE /\ station' = [station EXCEPT !.missions = interop.missions,
                                             !.client = FALSE]
               /\ broadcast' = <<Disconnected>>
     ELSE /\ station' = [station EXCEPT !.client = FALSE]
          /\ broadcast' = <<Disconnected>>
  /\ UNCHANGED <<interop, connect, toUi, ui>>

\* broadcast_interop_data and interop_disconnected
Broadcast ==
  /\ broadcast # <<>> /\ RoomFor(1)
  /\ Emit(<<Head(broadcast)>>) /\ broadcast' = Tail(broadcast)
  /\ UNCHANGED <<interop, station, refresh, connect, ui>>

InteropChanges ==
  /\ \E missions \in Missions \cup {Empty}, up \in BOOLEAN :
       interop' = [missions |-> missions, up |-> up]
  /\ UNCHANGED <<station, threads, toUi, ui>>

-----------------------------------------------------------------------------
(* The browser.                                                            *)

\* "connect".  A browser that joined before interop's first answer would be
\* given null for the lists, and throw: that window is left out.
Connects ==
  /\ ~ui.online /\ (station.client => station.missions # Unknown)
  /\ ui' = [ui EXCEPT !.online = TRUE, !.droneState = "Ground Online"]
  /\ toUi' = InitialData
  /\ UNCHANGED <<interop, station, threads>>

\* "disconnect"; what was on its way is lost.
Disconnects ==
  /\ ui.online /\ toUi' = <<>>
  /\ ui' = [ui EXCEPT !.online = FALSE, !.droneState = "Ground Offline"]
  /\ UNCHANGED <<interop, station, threads>>

\* interopButtonPressed, of Settings.jsx
PressInterop ==
  /\ ui.online /\ connect = "none"
  /\ ui' = [ui EXCEPT !.text = "Connecting", !.enabled = FALSE]
  /\ connect' = "requested"
  /\ UNCHANGED <<interop, station, refresh, broadcast, toUi>>

ReceivedInteropStatus(old, connected) ==
  IF connected
  THEN [old EXCEPT !.text = "Connected", !.enabled = FALSE]
  ELSE [old EXCEPT !.text = "Cannot", !.enabled = TRUE, !.missions = Empty,
                   !.timers = IF @ < MaxTimers THEN @ + 1 ELSE @]

\* The handlers of the socket's messages
Received(m) ==
  LET with == IF m.missions = Unknown THEN ui
              ELSE [ui EXCEPT !.missions = m.missions]
      joined == IF m.type = "initial_data" /\ m.drone
                THEN [with EXCEPT !.droneState = "Drone Connected"] ELSE with
  IN  CASE m.type = "initial_data" ->
             ReceivedInteropStatus(joined, m.missions # Unknown)
        [] m.type = "interop_data" -> ReceivedInteropStatus(with, TRUE)
        [] m.type = "interop_disconnected" -> ReceivedInteropStatus(ui, FALSE)
        [] m.type = "drone_connected" ->
             [ui EXCEPT !.droneState = "Drone Connected"]
        [] m.type = "drone_disconnected" ->
             [ui EXCEPT !.droneState = "Drone Disconnected"]
        [] m.type = "on_telemetry" ->
             [ui EXCEPT !.droneState = "In Air"]

Receive ==
  /\ toUi # <<>>
  /\ ui' = Received(Head(toUi)) /\ toUi' = Tail(toUi)
  /\ UNCHANGED <<interop, station, threads>>

\* One second after interop was found missing.
TimerFires ==
  /\ ui.timers > 0
  /\ ui' = [ui EXCEPT !.text = "Connect", !.timers = @ - 1]
  /\ UNCHANGED <<interop, station, threads, toUi>>

ArchiveNext ==
  \/ DroneConnects \/ DroneDisconnects \/ Telemetry \/ InteropChanges
  \/ ConnectToInterop \/ ConnectAnswered \/ RefreshAsks \/ RefreshAnswered
  \/ Broadcast \/ Connects \/ Disconnects \/ PressInterop \/ Receive
  \/ TimerFires

ArchiveSpec == ArchiveInit /\ [][ArchiveNext]_archiveVars

-----------------------------------------------------------------------------

\* Types and the bounds of the channels.
ArchiveTypeOK ==
  /\ station.missions \in Missions \cup {Empty, Unknown}
  /\ refresh \in Missions \cup {Empty, Unknown, Asleep}
  /\ connect \in {"none", "requested", "asks"}
  /\ Len(broadcast) <= 1 /\ Len(toUi) <= MaxMessages
  /\ ui.missions \in Missions \cup {Empty} /\ ui.timers \in 0 .. MaxTimers

\* When nothing is on its way, a browser that is online says that the drone is
\* connected exactly when it is, whatever happened while it was offline.
StateTellsTheDrone ==
  ui.online /\ toUi = <<>> =>
    (ui.droneState \in {"Drone Connected", "In Air"} <=> station.drone)

\* When nothing is on its way and the station has a client, the browser has
\* the station's missions, although only changes are sent; a list that has
\* become empty is never sent.
MissionsOfTheStation ==
  /\ ui.online /\ toUi = <<>> /\ broadcast = <<>> /\ station.client
  /\ refresh = Asleep /\ connect = "none"
  => ui.missions = station.missions \/ station.missions = Empty

\* While the station stays connected to interop and the browser to the station,
\* the button says so again and again: a late reset of its text is undone.
ConnectedIsShown ==
  <>[](interop.up /\ station.client /\ ui.online)
    => []<>(ui.text = "Connected" /\ ~ui.enabled)
=============================================================================
