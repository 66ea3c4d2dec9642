------------------------------- MODULE Drone -------------------------------
(***************************************************************************)
(* The drone in flight: the flight loop (FlightLoop) and IO (PixhawkGate)  *)
(* as two ROS nodes that exchange sensors and outputs over topics, the     *)
(* autopilot they command and the safety pilot.                            *)
(*                                                                         *)
(* Both topics have queues of kRosMessageQueueSize = 1: a message that was *)
(* not consumed yet is replaced by the next one.  A topic is the set of    *)
(* the messages in its queue, so it has at most one element.               *)
(***************************************************************************)
EXTENDS FlightLoop, PixhawkGate

CONSTANTS
  Ground, Cruise, \* altitudes of a drone on the ground, after a takeoff
  Overruns,       \* whether IO may publish sensors before it acted on the
                  \* output for the last ones
  CallsFail,      \* whether a service call may fail
  Switch,         \* positions the safety pilot's switch is put in
  PilotFlies,     \* whether the safety pilot flies while it is off
  Strays,         \* whether the drone disarms itself and loses height
  Uploads,        \* whether a program may be uploaded after the first one
  DropReports     \* what the deployment may report as done_dropping

MANUAL  == "MANUAL"
TAKEOFF == "AUTO.TAKEOFF"
LAND    == "AUTO.LAND"

\* The outputs the flight loop publishes.
Outputs == [fields : SUBSET Fields, setpoint : Places]

ASSUME DroneAssumption ==
  /\ Ground \in Int /\ Cruise \in Int /\ Ground <= Cruise
  /\ Altitudes = Ground .. Cruise
  /\ {MANUAL, TAKEOFF, LAND, LOITER, OFFBOARD} \subseteq Modes
  /\ NoOutput \notin Outputs
  /\ {Overruns, CallsFail, PilotFlies, Strays, Uploads, Outages}
       \subseteq BOOLEAN
  /\ Switch \subseteq BOOLEAN
  /\ DropReports \subseteq BOOLEAN /\ DropReports # {}
  /\ Setpoints = Places

VARIABLES
  sensors_topic, output_topic,
  acted,                          \* IO acted on the last output it received
  mode, armed, altitude, place,   \* the autopilot and the drone it flies
  target                          \* the setpoint the autopilot got last

vehicleVars == <<mode, armed, altitude, place, target>>
topicVars   == <<sensors_topic, output_topic, acted>>
droneVars   == <<vars, gateVars, vehicleVars, topicVars>>

DroneInit ==
  /\ Init
  /\ GateInit
  /\ sensors_topic = {} /\ output_topic = {} /\ acted = TRUE
  /\ mode = MANUAL /\ armed = FALSE /\ altitude = Ground
  /\ place \in Places /\ target = place
  /\ goal = place /\ setpoint = place /\ translate_goal = place

-----------------------------------------------------------------------------
(* IO and the flight loop.                                                 *)

SensorsNow(done) ==
  [run_uas_mission |-> run_uas_mission, armed |-> armed,
   altitude |-> altitude, mode |-> mode, place |-> place,
   done_dropping |-> done]

\* An iteration of WriterThread begins; at most every kSensorsPublisherPeriod
\* it publishes the sensors it sampled.
WriterPublishes ==
  /\ Sample(TRUE, armed)
  /\ Overruns \/ (sensors_topic = {} /\ output_topic = {} /\ acted)
  /\ \E done \in DropReports : sensors_topic' = {SensorsNow(done)}
  /\ UNCHANGED <<vars, vehicleVars, output_topic, acted>>

WriterSamples ==
  /\ \E valid \in BOOLEAN : Sample(valid, armed)
  /\ UNCHANGED <<vars, vehicleVars, topicVars>>

WriterSends ==
  /\ Send
  /\ acted' = TRUE
  /\ UNCHANGED <<vars, vehicleVars, sensors_topic, output_topic>>

\* FlightLoop::RunIteration: takes the sensors and publishes an output.
LoopIterates ==
  /\ \E s \in sensors_topic, dt \in Steps : RunIteration(s, dt)
  /\ sensors_topic' = {}
  /\ output_topic' = {[fields |-> output', setpoint |-> setpoint']}
  /\ UNCHANGED <<gateVars, vehicleVars, acted>>

ProgramArrives ==
  /\ Uploads \/ drone_program = <<>>
  /\ \E program \in Programs : DroneProgramReceived(program)
  /\ UNCHANGED <<gateVars, vehicleVars, topicVars>>

OutputArrives ==
  /\ \E out \in output_topic : OutputReceived(out)
  /\ output_topic' = {}
  /\ acted' = FALSE
  /\ UNCHANGED <<vars, vehicleVars, sensors_topic>>

\* Radio messages carry the safety pilot's switch.
RadioArrives ==
  /\ \E run \in Switch : RcInReceived(run)
  /\ UNCHANGED <<vars, vehicleVars, topicVars>>

Silence ==
  /\ RcLost \/ OutputExpires
  /\ UNCHANGED <<vars, vehicleVars, topicVars>>

-----------------------------------------------------------------------------
(* The autopilot, external to the repository, as far as its modes are used *)
(* by the flight loop.                                                     *)

ModeFor == [trigger_takeoff |-> TAKEOFF, trigger_hold |-> LOITER,
            trigger_offboard |-> OFFBOARD, trigger_land |-> LAND]

\* The autopilot carries out the writer's request.
Obey(request) ==
  /\ mode' = IF request \in DOMAIN ModeFor THEN ModeFor[request] ELSE mode
  /\ armed' = (armed \/ request = "trigger_arm")
  /\ target' = IF request = "send_setpoint" THEN goal ELSE target

CallSucceeds ==
  /\ Answered
  /\ Obey(Head(requests))
  /\ UNCHANGED <<vars, topicVars, altitude, place>>

\* A service call fails, or PixhawkSetGlobalPositionGoal drops a setpoint
\* that comes too early after the last one.
CallFails ==
  /\ Answered
  /\ CallsFail \/ Head(requests) = "send_setpoint"
  /\ UNCHANGED <<vars, topicVars, vehicleVars>>

Climbs ==
  /\ armed /\ mode = TAKEOFF
  /\ IF altitude < Cruise
     THEN altitude' = altitude + 1 /\ UNCHANGED mode
     ELSE mode' = LOITER /\ UNCHANGED altitude
  /\ UNCHANGED <<armed, place, target>>

FliesToTarget ==
  /\ armed /\ mode = OFFBOARD
  /\ place' = target
  /\ UNCHANGED <<mode, armed, altitude, target>>

\* A drone that has landed is disarmed.
Descends ==
  /\ armed /\ mode = LAND
  /\ IF altitude > Ground
     THEN altitude' = altitude - 1 /\ UNCHANGED armed
     ELSE armed' = FALSE /\ UNCHANGED altitude
  /\ UNCHANGED <<mode, place, target>>

\* An armed drone that does not take off is disarmed after a while.
Idles ==
  /\ Strays
  /\ armed /\ altitude = Ground /\ mode # TAKEOFF
  /\ armed' = FALSE
  /\ UNCHANGED <<mode, altitude, place, target>>

\* Wind pushes a hovering drone down.
Sags ==
  /\ Strays
  /\ armed /\ altitude > Ground /\ mode = LOITER
  /\ altitude' = altitude - 1
  /\ UNCHANGED <<mode, armed, place, target>>

\* With the switch off, the safety pilot takes the drone and flies it.
Pilot ==
  /\ PilotFlies /\ ~run_uas_mission
  /\ mode' = MANUAL
  /\ \/ UNCHANGED <<armed, altitude>>
     \/ /\ mode = MANUAL /\ altitude = Ground
        /\ armed' = ~armed /\ UNCHANGED altitude
     \/ /\ mode = MANUAL /\ armed
        /\ altitude' \in {altitude - 1, altitude + 1} \cap Altitudes
        /\ UNCHANGED armed
  /\ UNCHANGED <<place, target>>

Vehicle ==
  /\ Climbs \/ FliesToTarget \/ Descends \/ Idles \/ Sags \/ Pilot
  /\ UNCHANGED <<vars, gateVars, topicVars>>

-----------------------------------------------------------------------------

DroneNext ==
  \/ WriterPublishes \/ WriterSamples \/ WriterSends
  \/ CallSucceeds \/ CallFails
  \/ LoopIterates \/ ProgramArrives
  \/ OutputArrives \/ RadioArrives \/ Silence
  \/ Vehicle

DroneSpec == DroneInit /\ [][DroneNext]_droneVars

\* Both nodes keep running, the writer's timer lets it publish, the ground
\* uploads a program and the pilot turns the switch on; a call that is made
\* again and again succeeds at last, and the autopilot does what its mode is
\* for.
DroneFairness ==
  /\ WF_droneVars(WriterSamples) /\ WF_droneVars(WriterSends)
  /\ SF_droneVars(WriterPublishes)
  /\ WF_droneVars(CallSucceeds \/ CallFails)
  /\ \A r \in Requests :
       SF_droneVars(CallSucceeds /\ Head(requests) = r)
  /\ WF_droneVars(LoopIterates) /\ WF_droneVars(OutputArrives)
  /\ WF_droneVars(ProgramArrives)
  /\ WF_droneVars(RadioArrives)
  /\ WF_droneVars(Climbs /\ Vehicle)
  /\ WF_droneVars(FliesToTarget /\ Vehicle)
  /\ WF_droneVars(Descends /\ Vehicle)

FairDroneSpec == DroneSpec /\ DroneFairness

-----------------------------------------------------------------------------

\* The drone keeps its types: the flight loop's, the gate's, topics that hold at
\* most one message (flight_loop.cc, io.cc), and what the autopilot answered.
DroneTypeOK ==
  /\ TypeOK
  /\ GateTypeOK
  /\ sensors_topic \subseteq Sensors
  /\ output_topic \subseteq Outputs
  /\ acted \in BOOLEAN
  /\ mode \in Modes
  /\ armed \in BOOLEAN
  /\ altitude \in Altitudes
  /\ {place, target} \subseteq Places

\* The comment on the gate: "Only listen to output if safety pilot override
\* is not active" (io.cc:197).  The writer thread tests a copy of the switch
\* that it took at the top of its iteration, before it drove the actuators
\* and before service calls that block.
OnlyListensWithoutOverride ==
  [][writer = "send" /\ requests' # <<>> => run_uas_mission]_droneVars

\* With the switch left on, a program that ends in a landing is flown to its
\* end: the drone stands by on the ground, disarmed, after the commanded
\* landing.
MissionCompletes ==
  <>(mission_commanded_land /\ state = "STANDBY" /\ ~armed)

\* Sensors become invalid, the radio is lost or an output goes stale.
Outage == Silence \/ (WriterSamples /\ ~sampled'.valid)

\* From some time on there are no more outages.
OutagesEnd == <>[][~Outage]_droneVars

\* With the switch left on, arming is retried until it succeeds: no failed
\* call, no pulse that was lost and no outage that has ended leaves the flight
\* loop in ARMING for good.
ArmingSucceeds == OutagesEnd => (state = "ARMING" ~> state # "ARMING")

\* Likewise the mission keeps asking for OFFBOARD until the autopilot follows
\* its setpoints, unless the mission ends first.
OffboardSucceeds ==
  OutagesEnd => (state = "MISSION" ~> (mode = OFFBOARD \/ state # "MISSION"))

=============================================================================
