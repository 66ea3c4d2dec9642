-------------------------- MODULE FlightLoopTiming --------------------------
(***************************************************************************)
(* The flight loop with history variables that measure, independently of   *)
(* the code's own timers, what the code's waits are for.  No action of     *)
(* FlightLoop reads them.                                                  *)
(***************************************************************************)
EXTENDS FlightLoop

VARIABLES
  last_dt,      \* time between the last two sensors messages
  run_now,      \* whether the last iteration was allowed to run a mission
  armed_for,    \* how long the drone has been seen armed without a break
  flown,        \* whether it was above takeoff altitude since it was armed
  steady_for,   \* how long run, armed and not below takeoff altitude
  command_age   \* time since the last command was loaded

timingVars == <<last_dt, run_now, armed_for, flown, steady_for, command_age>>

TimedInit ==
  /\ Init
  /\ last_dt \in Steps
  /\ run_now = FALSE
  /\ armed_for = NotStarted
  /\ flown = FALSE
  /\ steady_for = NotStarted
  /\ command_age = 0

\* What the history variables record of an iteration.
Observe(s, dt) ==
  /\ last_dt' = dt
  /\ run_now' = RunMission(s)
  /\ armed_for' = IF s.armed THEN Started(armed_for, dt) ELSE NotStarted
  /\ flown' = (s.armed /\ (flown \/ Above(s)))
  /\ steady_for' = IF RunMission(s) /\ s.armed /\ ~Below(s)
                   THEN Started(steady_for, dt) ELSE NotStarted
  /\ command_age' = IF drone_program_index' # drone_program_index THEN 0
                    ELSE Later(command_age, dt)

TimedNext ==
  \/ \E s \in Sensors, dt \in Steps : RunIteration(s, dt) /\ Observe(s, dt)
  \/ \E program \in Programs :
       DroneProgramReceived(program) /\ UNCHANGED timingVars

timedVars == <<vars, timingVars>>

TimedSpec == TimedInit /\ [][TimedNext]_timedVars

-----------------------------------------------------------------------------

HistoryTypeOK ==
  /\ last_dt \in Steps
  /\ run_now \in BOOLEAN
  /\ armed_for \in Ages \cup {NotStarted}
  /\ flown \in BOOLEAN
  /\ steady_for \in Ages \cup {NotStarted}
  /\ command_age \in Ages

\* A takeoff is only triggered when the propellers had all of kSpinupTime
\* since the drone was armed, or the drone has already flown since it was
\* armed: no path around ARMED_WAIT_FOR_SPINUP reaches TAKING_OFF on the
\* ground (flight_state_machine.cc:215).
TakeoffAfterSpinup ==
  "trigger_takeoff" \in output => armed_for > kSpinupTime \/ flown

\* The mission is flown autonomously only after the drone hovered for
\* kTakenOffWaitTime, all that time armed, not below takeoff altitude and with
\* the run switch on; the one other way in is the safety pilot giving control
\* back (flight_state_machine.cc:290).
MissionAfterHover ==
  [][state' = "MISSION" /\ state \notin {"MISSION", "SAFETY_PILOT_CONTROL"}
       => steady_for' > kTakenOffWaitTime]_timedVars

\* When the run switch is off, or a commanded landing is in force, the loop
\* asks the vehicle for nothing but a landing, from the very iteration that
\* sees it (flight_state_machine.cc, the first test of every handler).
OnlyLandsWithoutRun ==
  ~run_now => output \subseteq {"trigger_land"}

\* A sleep command ends, giving way to the next command, only when its
\* sleep_period has gone by since it was loaded.  ("Check whether we have
\* slept for the desired amount of time", mission_state_machine.cc:262.)
SleepEnds ==
  /\ mission_state = "SLEEP" /\ ~new_mission_ready /\ ~new_mission_ready'
  /\ \/ mission_state' # "SLEEP"
     \/ drone_program_index' # drone_program_index
SleepsFullPeriod ==
  [][SleepEnds => Later(command_age, last_dt') > sleep_period]_timedVars

\* The programs in which no sleep command follows another one directly: for
\* these, and only for these, the full period is slept.  A sleep that follows
\* a sleep does not change the state, so StateTransition does not reset the
\* timer (mission_state_machine.cc:133) and the two periods overlap.
SleepsApart ==
  \A program \in Programs : \A i \in 1 .. Len(program) - 1 :
    program[i].type = "sleep" => program[i + 1].type # "sleep"

=============================================================================
