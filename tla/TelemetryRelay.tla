--------------------------- MODULE TelemetryRelay ---------------------------
(***************************************************************************)
(* The ground server's telemetry and the button panel it keeps informed    *)
(* (src/ground/server/ground_server.js, src/fake_drone/fake_drone.js).     *)
(*                                                                         *)
(* The drone's frames arrive over two radios as two events with the same   *)
(* handler.  Until a drone connects, a recorded flight may stand in for    *)
(* it.  The panel is told of a change of the flight controller's state, of *)
(* its arming and of the readiness of the drop, and of nothing else: an    *)
(* event that is emitted while no panel is connected is lost.  What is     *)
(* emitted travels to the panel in order and is lost with the connection.  *)
(***************************************************************************)
EXTENDS Naturals, Sequences

CONSTANTS
  States,      \* the states of the flight controller
  FakeLength,  \* the number of recorded frames
  MaxWire      \* bound on the events under way to the panel

RelayAssumption == FakeLength \in Nat \ {0} /\ MaxWire \in Nat

Armings  == {"armed", "disarmed"}
Nothing  == "none"
Readings == [source : {"drone"}, state : States, armed : Armings]
Fakes    == [source : {"recording"}, state : {"recorded"}, armed : Armings]
NoReading == [source |-> "none", state |-> Nothing, armed |-> Nothing]

VARIABLES
  protobufLoaded,  \* protobufUtils is no longer null
  sensors,         \* telemetry.sensors
  flightControllerState, droneArmed, droppyReady,
  drone_connected, controls,  \* the flag, and whether ground_controls is there
  fakeIndex,       \* i of fake_drone.js
  panel,           \* whether the button panel is connected
  wire,            \* the events under way to it
  panelState, panelReady,     \* what it shows
  missed           \* the events it missed, or the server forgot it sent,
                   \* since it was last sent one of the kind (history)

server == <<protobufLoaded, sensors, flightControllerState, droneArmed,
            droppyReady, drone_connected>>
relayVars == <<server, controls, fakeIndex, panel, wire, panelState,
               panelReady, missed>>

RelayInit ==
  /\ protobufLoaded = FALSE
  /\ sensors = NoReading
  /\ flightControllerState = Nothing /\ droneArmed = Nothing
  /\ droppyReady = FALSE
  /\ drone_connected = FALSE /\ controls = FALSE
  /\ fakeIndex = 0
  /\ panel = FALSE /\ wire = <<>>
  /\ panelState = Nothing /\ panelReady = FALSE
  /\ missed = {}

\* What the panel should show of a reading.
Label(state, armed) == IF armed = "armed" THEN state ELSE "DISARMED"

\* button_panel_io.emit
EmitToPanel(event, data) ==
  IF panel
  THEN /\ Len(wire) < MaxWire
       /\ wire' = Append(wire, [event |-> event, data |-> data])
       /\ missed' = missed \ {event}
  ELSE wire' = wire /\ missed' = missed \union {event}

-----------------------------------------------------------------------------
ProtobufLoaded ==
  /\ ~protobufLoaded
  /\ protobufLoaded' = TRUE
  /\ UNCHANGED <<sensors, flightControllerState, droneArmed, droppyReady,
                 drone_connected, controls, fakeIndex, panel, wire,
                 panelState, panelReady, missed>>

ControlsConnects ==
  /\ ~controls
  /\ controls' = TRUE
  /\ drone_connected' = TRUE
  /\ UNCHANGED <<protobufLoaded, sensors, flightControllerState, droneArmed,
                 droppyReady, fakeIndex, panel, wire, panelState, panelReady,
                 missed>>

\* The flag outlives the connection.
ControlsDisconnects ==
  /\ controls
  /\ controls' = FALSE
  /\ UNCHANGED <<server, fakeIndex, panel, wire, panelState, panelReady,
                 missed>>

\* onSensors, of SENSORS and of SENSORS_RFD900: the readings of the two
\* radios need not come in the order the drone took them in.
OnSensors(reading) ==
  /\ controls /\ protobufLoaded
  /\ sensors' = reading
  /\ IF reading.state # flightControllerState \/ reading.armed # droneArmed
     THEN /\ flightControllerState' = reading.state
          /\ droneArmed' = reading.armed
          /\ EmitToPanel("DRONE_STATE", Label(reading.state, reading.armed))
     ELSE UNCHANGED <<flightControllerState, droneArmed, wire, missed>>
  /\ UNCHANGED <<protobufLoaded, droppyReady, drone_connected, controls,
                 fakeIndex, panel, panelState, panelReady>>

\* Mutant of OnOutput: the last readiness is not remembered.
OnOutputForgets(deploy) ==
  /\ controls /\ protobufLoaded
  /\ IF deploy # droppyReady
     THEN EmitToPanel("DROPPY_READY", deploy)
     ELSE UNCHANGED <<wire, missed>>
  /\ UNCHANGED <<server, controls, fakeIndex, panel, panelState, panelReady>>

OnOutput(deploy) ==
  /\ controls /\ protobufLoaded
  /\ droppyReady' = deploy
  /\ IF deploy # droppyReady
     THEN EmitToPanel("DROPPY_READY", deploy)
     ELSE UNCHANGED <<wire, missed>>
  /\ UNCHANGED <<protobufLoaded, sensors, flightControllerState, droneArmed,
                 drone_connected, controls, fakeIndex, panel, panelState,
                 panelReady>>

\* Mutant of FakeTelemetry: it reads one frame more than there are.
FakeTelemetryPastTheEnd ==
  /\ \E fake \in Fakes : sensors' = IF drone_connected THEN sensors ELSE fake
  /\ fakeIndex' = (fakeIndex + 1) % (FakeLength + 1)
  /\ UNCHANGED <<protobufLoaded, flightControllerState, droneArmed,
                 droppyReady, drone_connected, controls, panel, wire,
                 panelState, panelReady, missed>>

\* The fake drone sends its next frame.  Its frames take no part in what the
\* panel is told.
FakeTelemetry ==
  /\ \E fake \in Fakes : sensors' = IF drone_connected THEN sensors ELSE fake
  /\ fakeIndex' = (fakeIndex + 1) % FakeLength
  /\ UNCHANGED <<protobufLoaded, flightControllerState, droneArmed,
                 droppyReady, drone_connected, controls, panel, wire,
                 panelState, panelReady, missed>>

PanelConnects ==
  /\ ~panel
  /\ panel' = TRUE
  /\ UNCHANGED <<server, controls, fakeIndex, wire, panelState, panelReady,
                 missed>>

\* What was under way is lost.
PanelDisconnects ==
  /\ panel
  /\ panel' = FALSE
  /\ wire' = <<>>
  /\ missed' = missed \union {wire[i].event : i \in DOMAIN wire}
  /\ UNCHANGED <<server, controls, fakeIndex, panelState, panelReady>>

\* The panel's handlers of DRONE_STATE and DROPPY_READY.
PanelReceives ==
  /\ wire # <<>>
  /\ wire' = Tail(wire)
  /\ IF Head(wire).event = "DRONE_STATE"
     THEN panelState' = Head(wire).data /\ UNCHANGED panelReady
     ELSE panelReady' = Head(wire).data /\ UNCHANGED panelState
  /\ UNCHANGED <<server, controls, fakeIndex, panel, missed>>

\* The server ends and is started again.
RelayServerRestarts ==
  /\ protobufLoaded' = FALSE
  /\ sensors' = NoReading
  /\ flightControllerState' = Nothing /\ droneArmed' = Nothing
  /\ droppyReady' = FALSE
  /\ drone_connected' = FALSE /\ controls' = FALSE
  /\ panel' = FALSE /\ wire' = <<>>
  /\ missed' = {"DRONE_STATE", "DROPPY_READY"}
  /\ UNCHANGED <<fakeIndex, panelState, panelReady>>

RelayNext ==
  \/ ProtobufLoaded
  \/ ControlsConnects \/ ControlsDisconnects
  \/ \E reading \in Readings : OnSensors(reading)
  \/ \E deploy \in BOOLEAN : OnOutput(deploy)
  \/ FakeTelemetry
  \/ PanelConnects \/ PanelDisconnects \/ PanelReceives
  \/ RelayServerRestarts

RelaySpec == RelayInit /\ [][RelayNext]_relayVars

-----------------------------------------------------------------------------
(* Every variable has its type; in particular the recording is read inside *)
(* its bounds.                                                             *)
RelayTypeOK ==
  /\ protobufLoaded \in BOOLEAN /\ drone_connected \in BOOLEAN
  /\ controls \in BOOLEAN /\ panel \in BOOLEAN
  /\ droppyReady \in BOOLEAN /\ panelReady \in BOOLEAN
  /\ sensors \in Readings \union Fakes \union {NoReading}
  /\ flightControllerState \in States \union {Nothing}
  /\ droneArmed \in Armings \union {Nothing}
  /\ fakeIndex \in 0..(FakeLength - 1)
  /\ Len(wire) <= MaxWire
  /\ missed \subseteq {"DRONE_STATE", "DROPPY_READY"}

\* The last thing the panel was sent of a kind, or what it shows of it already,
\* is this.
EndsWith(event, shown, data) ==
  LET ofKind == {i \in DOMAIN wire : wire[i].event = event}
  IN  IF ofKind = {} THEN shown = data
      ELSE \E i \in ofKind :
             wire[i].data = data /\ \A j \in ofKind : j <= i

(* A panel that missed no event since it was last told of the drone ends   *)
(* with the state of the very frame that the operators' screens show: the  *)
(* copies the server compares with follow telemetry.sensors.               *)
PanelShowsTheDrone ==
  sensors \in Readings /\ "DRONE_STATE" \notin missed =>
    EndsWith("DRONE_STATE", panelState, Label(sensors.state, sensors.armed))

(* The light that allows the drop agrees with the drone's last output,     *)
(* unless the panel missed the change or the server restarted.             *)
PanelShowsReadiness ==
  "DROPPY_READY" \notin missed =>
    EndsWith("DROPPY_READY", panelReady, droppyReady)

(* A frame of the recording never takes the place of the drone's, however  *)
(* often the drone's connection comes and goes, until the server restarts. *)
KeepsTheDrone == sensors \in Readings => sensors' \notin Fakes
RecordingNeverHidesTheDrone == [][KeepsTheDrone]_relayVars
=============================================================================
