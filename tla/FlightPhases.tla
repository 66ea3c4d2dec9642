---------------------------- MODULE FlightPhases ----------------------------
(***************************************************************************)
(* What the flight loop promises, without its states, timers and sensors:  *)
(* which phases of a flight follow each other, when the drone is steered   *)
(* by the mission, and that a landing commanded by the mission binds until *)
(* a new program is loaded.  FlightLoop implements this specification.     *)
(***************************************************************************)

VARIABLES
  phase,     \* "ground", "launch", "mission", "pilot" or "landing"
  bound,     \* a landing the mission commanded is in force
  steering   \* the last output steers the drone to a setpoint

phaseVars == <<phase, bound, steering>>

Init ==
  /\ phase = "ground"
  /\ bound = FALSE
  /\ steering = FALSE

\* Moving between phases never steers.
Move(from, to) ==
  /\ phase \in from
  /\ phase' = to
  /\ steering' = FALSE

\* A launch needs a mission that was not already ended by its own landing.
Launch == Move({"ground"}, "launch") /\ ~bound /\ UNCHANGED bound

\* A launch is given up on the ground, or by landing.
GiveUp ==
  \/ Move({"launch"}, "ground") /\ UNCHANGED bound
  \/ Move({"launch"}, "landing") /\ UNCHANGED bound

\* The drone may be steered only after a launch.
BeginMission == Move({"launch"}, "mission") /\ UNCHANGED bound

Steer == phase = "mission" /\ steering' = TRUE /\ UNCHANGED <<phase, bound>>

MissionLands ==
  /\ phase = "mission"
  /\ phase' = "landing"
  /\ bound' = TRUE
  /\ steering' = TRUE

\* The safety pilot takes the drone, gives it back, or lands it.
PilotTakes   == Move({"mission"}, "pilot") /\ UNCHANGED bound
PilotReturns == Move({"pilot"}, "mission") /\ UNCHANGED bound
PilotLands   == Move({"pilot"}, "ground") /\ UNCHANGED bound

\* A landing cannot be called off: it ends on the ground.
Landed == Move({"landing"}, "ground") /\ UNCHANGED bound

\* Any phase but the mission goes on without steering.
Continue ==
  phase # "mission" /\ steering' = FALSE /\ UNCHANGED <<phase, bound>>

NewProgram == bound' = FALSE /\ UNCHANGED <<phase, steering>>

Next ==
  \/ Launch \/ GiveUp \/ BeginMission \/ Steer \/ MissionLands
  \/ PilotTakes \/ PilotReturns \/ PilotLands \/ Landed
  \/ Continue \/ NewProgram

Spec == Init /\ [][Next]_phaseVars

=============================================================================
