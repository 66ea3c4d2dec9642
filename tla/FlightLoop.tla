----------------------------- MODULE FlightLoop -----------------------------
(***************************************************************************)
(* The drone's flight loop: the FlightStateMachine that arms, takes off,   *)
(* flies the mission and lands, with the MissionStateMachine it runs while *)
(* in MISSION (src/controls/flight_loop/).                                 *)
(*                                                                         *)
(* One action is one callback of the flight loop's only ROS thread:        *)
(* RunIteration for a sensors message, DroneProgramReceived for a program. *)
(* Sensors are arbitrary: whatever the vehicle, the safety pilot's switch  *)
(* and the deployment do, in any order.  Only the state entered is ever    *)
(* reset and only the current state's timer is ever read, so one timer     *)
(* stands for the start_ and was_reset_ of all the states.                 *)
(***************************************************************************)
EXTENDS MissionStateMachine

CONSTANTS
  Altitudes, kMinTakeoffAltitude,     \* relative altitudes, the threshold
  Modes,                              \* autopilot modes
  kSpinupTime, kTakenOffWaitTime, kTriggerPeriod,
  Steps                               \* times between two sensors messages

LOITER   == "AUTO.LOITER"
OFFBOARD == "OFFBOARD"

Sensors == [run_uas_mission : BOOLEAN, armed : BOOLEAN,
            altitude : Altitudes, mode : Modes,
            place : Places, done_dropping : BOOLEAN]

ASSUME FlightAssumption ==
  /\ Altitudes \subseteq Int
  /\ kMinTakeoffAltitude \in Int
  /\ kSpinupTime \in 0 .. AgeCap - 1
  /\ kTakenOffWaitTime \in 0 .. AgeCap - 1
  /\ kTriggerPeriod \in Nat \ {0}
  /\ Steps \subseteq Nat \ {0}

VARIABLES
  state,                   \* FlightStateMachine's state_
  mission_commanded_land,  \* the mission told the drone to land
  timer,                   \* start_ and was_reset_ of the current state
  output                   \* the output message published last

vars == <<missionVars, state, mission_commanded_land, timer, output>>

States == {"STANDBY", "ARMING", "ARMED_WAIT_FOR_SPINUP", "TAKING_OFF",
           "TAKEN_OFF", "MISSION", "SAFETY_PILOT_CONTROL", "LANDING"}

-----------------------------------------------------------------------------

\* An output message is the set of its Boolean fields that are true.
Fields == {"trigger_arm", "trigger_hold", "trigger_takeoff",
           "trigger_offboard", "trigger_land",
           "send_setpoint", "deploy", "mission_commanded_land"}

\* GenerateDefaultOutput: command nothing.
DefaultOutput == {}

Init ==
  /\ MissionInit
  /\ state = "STANDBY"
  /\ mission_commanded_land = FALSE
  /\ timer = NotStarted
  /\ output = DefaultOutput

\* Mutant of Enter: the state entered is not reset.
EnterWithoutReset(new, out) ==
  /\ state' = new
  /\ output' = out
  /\ UNCHANGED timer

\* StateTransition to another state, which is reset, publishing out.
Enter(new, out) ==
  /\ state' = new
  /\ timer' = NotStarted
  /\ output' = out

\* The handler kept its state.
Remain(new_timer, out) ==
  /\ timer' = new_timer
  /\ output' = out
  /\ UNCHANGED state

\* The states that wait measure how long; the states that pulse a trigger use
\* the time only modulo kTriggerPeriod.
Pulsed(dt) == IF timer = NotStarted THEN 0 ELSE (timer + dt) % kTriggerPeriod
\* Mutants of Trigger: a signal that never comes, and one that never falls.
TriggerNever(phase)  == phase > kTriggerPeriod
TriggerAlways(phase) == phase >= 0

Trigger(phase) == 2 * phase > kTriggerPeriod

Above(s) == s.altitude > kMinTakeoffAltitude
Below(s) == s.altitude < kMinTakeoffAltitude

\* Mutant of RunMission: the commanded landing is forgotten.
RunMissionAfterLand(s) == s.run_uas_mission

\* Handle: no mission is run after the mission commanded a landing.
RunMission(s) == s.run_uas_mission /\ ~mission_commanded_land

-----------------------------------------------------------------------------
(* The state handlers, for sensors s received dt after the last message.   *)

Standby(s, dt) ==
  /\ state = "STANDBY"
  /\ \/ /\ ~RunMission(s)
        /\ Remain(timer, DefaultOutput)
     \/ /\ RunMission(s) /\ s.armed
        /\ Enter("ARMED_WAIT_FOR_SPINUP", DefaultOutput)
     \/ /\ RunMission(s) /\ ~s.armed
        /\ Enter("ARMING", DefaultOutput)
  /\ MissionIdle(dt)
  /\ UNCHANGED mission_commanded_land

\* Mutant of Arming: the run switch is not looked at.
ArmingWithoutRun(s, dt) ==
  /\ state = "ARMING"
  /\ IF s.armed
     THEN Enter("ARMED_WAIT_FOR_SPINUP", DefaultOutput)
     ELSE Remain(Pulsed(dt),
                 {"trigger_hold"}
                   \cup When(Trigger(Pulsed(dt)), "trigger_arm"))
  /\ MissionIdle(dt)
  /\ UNCHANGED mission_commanded_land

Arming(s, dt) ==
  /\ state = "ARMING"
  /\ \/ /\ ~RunMission(s)
        /\ Enter("STANDBY", DefaultOutput)
     \/ /\ RunMission(s) /\ s.armed /\ Above(s)
        /\ Enter("TAKEN_OFF", DefaultOutput)
     \/ /\ RunMission(s) /\ s.armed /\ ~Above(s)
        /\ Enter("ARMED_WAIT_FOR_SPINUP", DefaultOutput)
     \/ /\ RunMission(s) /\ ~s.armed
        /\ Remain(Pulsed(dt),
                  {"trigger_hold"}
                    \cup When(Trigger(Pulsed(dt)), "trigger_arm"))
  /\ MissionIdle(dt)
  /\ UNCHANGED mission_commanded_land

ArmedWaitForSpinup(s, dt) ==
  /\ state = "ARMED_WAIT_FOR_SPINUP"
  /\ \/ /\ ~RunMission(s)
        /\ Enter("LANDING", DefaultOutput)
     \/ /\ RunMission(s) /\ ~s.armed
        /\ Enter("ARMING", DefaultOutput)
     \/ /\ RunMission(s) /\ s.armed /\ Above(s)
        /\ Enter("TAKEN_OFF", DefaultOutput)
     \/ /\ RunMission(s) /\ s.armed /\ ~Above(s)
        /\ IF Started(timer, dt) > kSpinupTime
           THEN Enter("TAKING_OFF", DefaultOutput)
           ELSE Remain(Started(timer, dt), DefaultOutput)
  /\ MissionIdle(dt)
  /\ UNCHANGED mission_commanded_land

TakingOff(s, dt) ==
  /\ state = "TAKING_OFF"
  /\ \/ /\ ~RunMission(s)
        /\ Enter("LANDING", DefaultOutput)
     \/ /\ RunMission(s) /\ ~s.armed
        /\ Enter("ARMING", DefaultOutput)
     \/ /\ RunMission(s) /\ s.armed
        /\ IF s.mode = LOITER /\ Above(s)
           THEN Enter("TAKEN_OFF", DefaultOutput)
           ELSE Remain(timer, {"trigger_takeoff"})
  /\ MissionIdle(dt)
  /\ UNCHANGED mission_commanded_land

\* Mutant of TakenOff: a drone that sank goes on waiting.
TakenOffWithoutRelaunch(s, dt) ==
  /\ state = "TAKEN_OFF"
  /\ \/ /\ ~RunMission(s)
        /\ Enter("LANDING", DefaultOutput)
     \/ /\ RunMission(s) /\ ~s.armed
        /\ Enter("ARMING", DefaultOutput)
     \/ /\ RunMission(s) /\ s.armed
        /\ IF Started(timer, dt) > kTakenOffWaitTime
           THEN Enter("MISSION", DefaultOutput)
           ELSE Remain(Started(timer, dt), DefaultOutput)
  /\ MissionIdle(dt)
  /\ UNCHANGED mission_commanded_land

TakenOff(s, dt) ==
  /\ state = "TAKEN_OFF"
  /\ \/ /\ ~RunMission(s)
        /\ Enter("LANDING", DefaultOutput)
     \/ /\ RunMission(s) /\ ~s.armed
        /\ Enter("ARMING", DefaultOutput)
     \/ /\ RunMission(s) /\ s.armed /\ Below(s)
        /\ Enter("TAKING_OFF", DefaultOutput)
     \/ /\ RunMission(s) /\ s.armed /\ ~Below(s)
        /\ IF Started(timer, dt) > kTakenOffWaitTime
           THEN Enter("MISSION", DefaultOutput)
           ELSE Remain(Started(timer, dt), DefaultOutput)
  /\ MissionIdle(dt)
  /\ UNCHANGED mission_commanded_land

\* The only state that runs the mission state machine; the landing the
\* mission commands is remembered by StateTransition.
Mission(s, dt) ==
  /\ state = "MISSION"
  /\ \/ /\ ~RunMission(s)
        /\ Enter("SAFETY_PILOT_CONTROL", DefaultOutput)
        /\ MissionIdle(dt)
        /\ UNCHANGED mission_commanded_land
     \/ /\ RunMission(s)
        /\ HandleMission(s, dt)
        /\ LET m   == HandleMissionOutput(s)
               out == m \cup When(s.mode # OFFBOARD /\ Trigger(Pulsed(dt)),
                                 "trigger_offboard")
           IN  IF "mission_commanded_land" \in m
               THEN Enter("LANDING", out) /\ mission_commanded_land' = TRUE
               ELSE Remain(Pulsed(dt), out) /\ UNCHANGED mission_commanded_land

SafetyPilotControl(s, dt) ==
  /\ state = "SAFETY_PILOT_CONTROL"
  /\ IF RunMission(s) /\ ~Below(s)
     THEN Enter("MISSION", DefaultOutput)
     ELSE IF ~s.armed THEN Enter("STANDBY", DefaultOutput)
                      ELSE Remain(timer, DefaultOutput)
  /\ MissionIdle(dt)
  /\ UNCHANGED mission_commanded_land

\* Mutant of Landing: switching run on again calls the landing off.
LandingCalledOff(s, dt) ==
  /\ state = "LANDING"
  /\ IF RunMission(s)
     THEN Enter("ARMED_WAIT_FOR_SPINUP", DefaultOutput)
     ELSE IF ~s.armed THEN Enter("STANDBY", DefaultOutput)
                      ELSE Remain(timer, {"trigger_land"})
  /\ MissionIdle(dt)
  /\ UNCHANGED mission_commanded_land

Landing(s, dt) ==
  /\ state = "LANDING"
  /\ IF ~s.armed
     THEN Enter("STANDBY", DefaultOutput)
     ELSE Remain(timer, {"trigger_land"})
  /\ MissionIdle(dt)
  /\ UNCHANGED mission_commanded_land

\* FlightLoop::RunIteration, FlightStateMachine::Handle.
RunIteration(s, dt) ==
  \/ Standby(s, dt)
  \/ Arming(s, dt)
  \/ ArmedWaitForSpinup(s, dt)
  \/ TakingOff(s, dt)
  \/ TakenOff(s, dt)
  \/ Mission(s, dt)
  \/ SafetyPilotControl(s, dt)
  \/ Landing(s, dt)

\* FlightLoop::DroneProgramReceived, FlightStateMachine::LoadMission.
DroneProgramReceived(program) ==
  /\ LoadProgram(program)
  /\ mission_commanded_land' = FALSE
  /\ UNCHANGED <<state, timer, output>>

Next ==
  \/ \E s \in Sensors, dt \in Steps : RunIteration(s, dt)
  \/ \E program \in Programs : DroneProgramReceived(program)

Spec == Init /\ [][Next]_vars

-----------------------------------------------------------------------------

\* The flight loop keeps its types (the members of FlightLoop,
\* FlightStateMachine and MissionStateMachine).
TypeOK ==
  /\ MissionTypeOK
  /\ state \in States
  /\ mission_commanded_land \in BOOLEAN
  /\ timer \in Nat \cup {NotStarted}
  /\ output \subseteq Fields

\* A landing the mission commanded sticks: until another program is loaded
\* the loop lands and then stands by, whatever the run switch does, and the
\* mission state machine stays at the LAND command that asked for it.  Holds
\* although RunIteration rebuilds the goal from the switch every time
\* (flight_state_machine.cc, Handle and StateTransition).
CommandedLandSticks ==
  mission_commanded_land =>
    /\ state \in {"LANDING", "STANDBY"}
    /\ mission_state = "LAND"
    /\ ~new_mission_ready
    /\ drone_program[drone_program_index].type = "land"

\* The phases of a flight, as the flight loop's states implement them.
PhaseOf(st) ==
  CASE st = "STANDBY"              -> "ground"
    [] st = "MISSION"              -> "mission"
    [] st = "SAFETY_PILOT_CONTROL" -> "pilot"
    [] st = "LANDING"              -> "landing"
    [] OTHER                       -> "launch"

Phases == INSTANCE FlightPhases
            WITH phase <- PhaseOf(state), bound <- mission_commanded_land,
                 steering <- ("send_setpoint" \in output)

\* The flight loop implements the abstract phases: in particular the drone is
\* steered only in MISSION, a landing cannot be called off once begun, and no
\* launch follows a commanded landing before a new program is loaded.
ImplementsPhases == Phases!Spec

=============================================================================
