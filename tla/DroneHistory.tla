---------------------------- MODULE DroneHistory ----------------------------
(***************************************************************************)
(* The drone in flight with history variables that count what IO sent to   *)
(* the autopilot.  No action of Drone reads them.                          *)
(***************************************************************************)
EXTENDS Drone, SequencesExt

VARIABLES
  attempts,   \* takeoffs the flight loop began that IO did not yet request,
              \* counted up to 2
  late,       \* requests sent since the safety pilot's switch went off
  landing     \* the landing that the mission commanded was requested

historyVars == <<attempts, late, landing>>

HistoryInit == DroneInit /\ attempts = 0 /\ late = 0 /\ landing = FALSE

\* The step sends a request of the writer's, be it carried out or not.
Sends == writer = "call" /\ requests' # requests

AttemptsAfter ==
  CASE state # "TAKING_OFF" /\ state' = "TAKING_OFF" -> attempts + 1
    [] Sends /\ Head(requests) = "trigger_takeoff"   -> attempts - 1
    [] OTHER                                         -> attempts

Record ==
  /\ attempts' = IF AttemptsAfter > 2 THEN 2 ELSE AttemptsAfter
  /\ late' = IF run_uas_mission' THEN 0 ELSE IF Sends THEN late + 1 ELSE late
  /\ landing' =
       (mission_commanded_land' /\
          (landing \/ (Sends /\ Head(requests) = "trigger_land")))

HistoryNext == DroneNext /\ Record

HistorySpec == HistoryInit /\ [][HistoryNext]_<<droneVars, historyVars>>

-----------------------------------------------------------------------------

\* "Send one constant trigger signal.  Sending multiple would cause the drone
\* to keep increasing in altitude by the takeoff height"
\* (flight_state_machine.cc:251): each time the flight loop begins to take
\* off, the autopilot is asked for at most one takeoff, although the output is
\* repeated all the time, goes stale, is lost, and the gate shuts and opens.
OneTakeoffPerAttempt == attempts >= 0

\* When the safety pilot takes over, at most the two requests that the writer
\* thread had in hand still reach the autopilot.
AtMostTwoLateRequests == late <= 2

\* Once the landing that the mission commanded was requested, IO asks the
\* autopilot for nothing but a landing before a new program arrives: not for
\* the OFFBOARD mode whose pulse may be on its way together with the landing,
\* and not for another flight, whatever the switch does after touchdown.
LandingIsNotUndone == landing => ToSet(requests) \subseteq {"trigger_land"}

=============================================================================
