---------------------------- MODULE DroneProofs ----------------------------
(***************************************************************************)
(* Theorems about the drone in flight.  First the flight loop, for every   *)
(* set of sensor values, programs, message spacings and wait times: what   *)
(* the operations of the mission state machine that it calls preserve, its *)
(* safety, and what its waits are for (FlightLoopTiming).  Then the flight *)
(* loop, the writer thread and the autopilot together, for every set of    *)
(* places, programs, message spacings and altitudes, and whatever may go   *)
(* wrong in a run.  Last the deployment, for every input, every waiting    *)
(* time and every limit of the hotwire, and a drop of the UGV, for every   *)
(* interleaving of the callback's stores with the writer thread's loads.   *)
(***************************************************************************)
EXTENDS DroneHistory, FlightLoopTiming, UgvDrop, SequenceTheorems, TLAPS

-----------------------------------------------------------------------------
(* The mission state machine's operations.                                 *)

Timers == Ages \cup {NotStarted}

\* A command's state, and the parameter its type comes with.
LEMMA CommandFields ==
  ASSUME NEW c \in Commands
  PROVE  /\ c.type \in {"translate", "sleep", "drop", "land", "other"}
         /\ c.type = "translate" => c.goal \in Places
         /\ c.type = "sleep" => c.time \in SleepPeriods
  BY DEF Commands

LEMMA StateOfType ==
  ASSUME NEW c \in Commands
  PROVE  StateOf(c) \in MissionStates
  BY CommandFields DEF StateOf, MissionStates

\* The timers stay ages: starting, aging and resetting them.
LEMMA TimerTypes ==
  ASSUME MissionAssumption, NEW t \in Timers, NEW dt \in Nat
  PROVE  /\ Later(t, dt) \in Timers
         /\ t # NotStarted => Later(t, dt) \in Ages
         /\ Started(t, dt) \in Ages
  BY DEF MissionAssumption, Timers, Ages, NotStarted, Later, Started

\* Loading the next command, or keeping the one in progress, keeps the types
\* of what it writes.
LEMMA LoadTypes ==
  ASSUME MissionTypeOK, NEW old \in MissionStates, NEW t \in Timers,
         LoadNextCommand(old, t) \/ KeepCommand(old, t)
  PROVE  /\ mission_state' \in MissionStates
         /\ drone_program_index' \in 0 .. Len(drone_program)
         /\ translate_goal' \in Places
         /\ sleep_period' \in SleepPeriods \cup {0}
         /\ sleep_timer' \in Timers
<1>1. CASE KeepCommand(old, t)
  BY <1>1 DEF KeepCommand, MissionTypeOK
<1>2. CASE LoadNextCommand(old, t) /\ drone_program_index < Len(drone_program)
  <2> DEFINE c == drone_program[drone_program_index + 1]
  <2>1. c \in Commands /\ drone_program_index + 1 \in 0 .. Len(drone_program)
    BY <1>2 DEF MissionTypeOK
  <2>2. /\ StateOf(c) \in MissionStates
        /\ c.type = "translate" => c.goal \in Places
        /\ c.type = "sleep" => c.time \in SleepPeriods
    BY <2>1, CommandFields, StateOfType
  <2>3. QED
    BY <1>2, <2>1, <2>2 DEF LoadNextCommand, MissionTypeOK, Timers
<1>3. CASE LoadNextCommand(old, t) /\ ~(drone_program_index < Len(drone_program))
  BY <1>3 DEF LoadNextCommand, MissionTypeOK, MissionStates
<1>4. QED
  BY <1>1, <1>2, <1>3

\* Each call of Handle is a load or a keep, from a state that is current.
LEMMA HandleIsLoadOrKeep ==
  ASSUME MissionAssumption, MissionTypeOK,
         NEW s, s.place \in Places, NEW dt \in Nat, HandleMission(s, dt)
  PROVE  /\ \E t \in Timers : LoadNextCommand(Current, t)
                                \/ KeepCommand(Current, t)
         /\ Current \in MissionStates
         /\ setpoint' \in Places
<1> USE DEF MissionTypeOK
<1>1. Current \in MissionStates /\ Held(s) \in Places
  BY DEF Current, Held, MissionStates
<1>2. /\ Later(sleep_timer, dt) \in Timers
      /\ Started(sleep_timer, dt) \in Timers
  BY TimerTypes DEF Timers
<1>3. CASE GetNextCommand(s, dt)
  BY <1>1, <1>2, <1>3 DEF GetNextCommand
<1>4. CASE Translate(s, dt)
  BY <1>1, <1>2, <1>4 DEF Translate
<1>5. CASE UgvDrop(s, dt)
  BY <1>1, <1>2, <1>5 DEF UgvDrop
<1>6. CASE Land(s, dt)
  BY <1>1, <1>2, <1>6 DEF Land
<1>7. CASE Sleep(s, dt)
  BY <1>1, <1>2, <1>7 DEF Sleep
<1>8. QED
  BY <1>3, <1>4, <1>5, <1>6, <1>7 DEF HandleMission

LEMMA HandleTypes ==
  ASSUME MissionAssumption, MissionTypeOK,
         NEW s, s.place \in Places, NEW dt \in Nat, HandleMission(s, dt)
  PROVE  MissionTypeOK'
<1>1. PICK t \in Timers : LoadNextCommand(Current, t) \/ KeepCommand(Current, t)
  BY HandleIsLoadOrKeep
<1>2. Current \in MissionStates /\ setpoint' \in Places
  BY HandleIsLoadOrKeep
<1>3. /\ mission_state' \in MissionStates
      /\ drone_program_index' \in 0 .. Len(drone_program)
      /\ translate_goal' \in Places
      /\ sleep_period' \in SleepPeriods \cup {0}
      /\ sleep_timer' \in Timers
  BY <1>1, <1>2, LoadTypes
<1>4. /\ drone_program' = drone_program
      /\ setpoint_initialized' = TRUE
      /\ new_mission_ready' = FALSE
  BY DEF HandleMission
<1>5. QED
  BY <1>2, <1>3, <1>4 DEF MissionTypeOK, Timers

LEMMA IdleTypes ==
  ASSUME MissionAssumption, MissionTypeOK, NEW dt \in Nat, MissionIdle(dt)
  PROVE  MissionTypeOK'
<1>1. Later(sleep_timer, dt) \in Timers
  BY TimerTypes DEF MissionTypeOK, Timers
<1>2. QED
  BY <1>1 DEF MissionIdle, MissionTypeOK, Timers

LEMMA LoadProgramTypes ==
  ASSUME MissionAssumption, MissionTypeOK,
         NEW program \in Programs, LoadProgram(program)
  PROVE  MissionTypeOK'
<1>1. program \in Seq(Commands)
  BY DEF MissionAssumption
<1>2. 0 \in 0 .. Len(program)
  BY <1>1
<1>3. QED
  BY <1>1, <1>2 DEF LoadProgram, MissionTypeOK

-----------------------------------------------------------------------------

\* Loading a command makes it the one that is executed; keeping a command
\* that is current keeps it so.
LEMMA LoadExecutes ==
  ASSUME MissionTypeOK, ExecutesLoadedCommand,
         NEW t \in Timers,
         LoadNextCommand(Current, t) \/ KeepCommand(Current, t),
         drone_program' = drone_program, ~new_mission_ready'
  PROVE  ExecutesLoadedCommand'
<1>1. CASE KeepCommand(Current, t)
  BY <1>1 DEF KeepCommand, ExecutesLoadedCommand, Current
<1>2. CASE LoadNextCommand(Current, t)
             /\ drone_program_index < Len(drone_program)
  <2> DEFINE c == drone_program[drone_program_index + 1]
  <2>1. /\ drone_program_index' = drone_program_index + 1
        /\ mission_state' = StateOf(c)
        /\ c.type = "translate" => translate_goal' = c.goal
        /\ c.type = "sleep" => sleep_period' = c.time
    BY <1>2 DEF LoadNextCommand
  <2>2. drone_program_index' > 0
    BY <2>1 DEF MissionTypeOK
  <2>3. drone_program'[drone_program_index'] = c
    BY <2>1
  <2>4. QED
    BY <2>1, <2>2, <2>3 DEF ExecutesLoadedCommand, StateOf
<1>3. CASE LoadNextCommand(Current, t)
             /\ ~(drone_program_index < Len(drone_program))
  BY <1>3 DEF LoadNextCommand, ExecutesLoadedCommand
<1>4. QED
  BY <1>1, <1>2, <1>3

LEMMA HandleExecutes ==
  ASSUME MissionAssumption, MissionTypeOK, ExecutesLoadedCommand,
         NEW s, s.place \in Places, NEW dt \in Nat, HandleMission(s, dt)
  PROVE  ExecutesLoadedCommand'
<1>1. PICK t \in Timers : LoadNextCommand(Current, t) \/ KeepCommand(Current, t)
  BY HandleIsLoadOrKeep
<1>2. drone_program' = drone_program /\ ~new_mission_ready'
  BY DEF HandleMission
<1>3. QED
  BY <1>1, <1>2, LoadExecutes

-----------------------------------------------------------------------------
(* The flight loop.                                                        *)

Assumptions == MissionAssumption /\ FlightAssumption

LEMMA AssumptionsHold == Assumptions
  BY MissionAssumption, FlightAssumption DEF Assumptions

\* The handlers, named so that a proof about a message can be split by them.
LEMMA IterationCases ==
  ASSUME NEW s, NEW dt, RunIteration(s, dt)
  PROVE  \/ state # "MISSION" /\ MissionIdle(dt)
              /\ UNCHANGED mission_commanded_land
         \/ state = "MISSION" /\ Mission(s, dt)
  BY DEF RunIteration, Standby, Arming, ArmedWaitForSpinup, TakingOff,
         TakenOff, SafetyPilotControl, Landing, Mission

LEMMA PulsedType ==
  ASSUME Assumptions, timer \in Nat \cup {NotStarted}, NEW dt \in Nat
  PROVE  Pulsed(dt) \in Nat
<1>1. CASE timer = NotStarted
  BY <1>1 DEF Pulsed
<1>2. CASE timer # NotStarted
  <2>1. timer + dt \in Nat /\ kTriggerPeriod \in Nat /\ kTriggerPeriod > 0
    BY <1>2 DEF Assumptions, FlightAssumption
  <2>2. (timer + dt) % kTriggerPeriod \in Nat
    BY <2>1
  <2>3. QED
    BY <1>2, <2>2 DEF Pulsed
<1>3. QED
  BY <1>1, <1>2

\* In the waiting states the timer is capped, but only from the value it has.
LEMMA StartedNat ==
  ASSUME Assumptions, NEW t \in Nat \cup {NotStarted}, NEW dt \in Nat
  PROVE  Started(t, dt) \in Nat
  BY DEF Assumptions, MissionAssumption, Started, Later, NotStarted

-----------------------------------------------------------------------------
(* Type correctness.                                                       *)

LEMMA InitTypes == Init => TypeOK
<1> SUFFICES ASSUME Init PROVE TypeOK
  OBVIOUS
<1>1. MissionTypeOK
  <2>1. <<>> \in Seq(Commands) /\ 0 \in 0 .. Len(<<>>)
    OBVIOUS
  <2>2. QED
    BY <2>1 DEF Init, MissionInit, MissionTypeOK, MissionStates
<1>2. output \subseteq Fields
  BY DEF Init, DefaultOutput
<1>3. QED
  BY <1>1, <1>2 DEF Init, TypeOK, States

LEMMA FlightTypes ==
  ASSUME Assumptions, TypeOK,
         NEW s \in Sensors, NEW dt \in Steps, RunIteration(s, dt)
  PROVE  /\ state' \in States
         /\ mission_commanded_land' \in BOOLEAN
         /\ timer' \in Nat \cup {NotStarted}
         /\ output' \subseteq Fields
<1>1. dt \in Nat
  BY DEF Assumptions, FlightAssumption
<1>2. Pulsed(dt) \in Nat /\ Started(timer, dt) \in Nat
  BY <1>1, PulsedType, StartedNat DEF TypeOK
<1> USE <1>2 DEF TypeOK, Enter, Remain, States, DefaultOutput, Fields, When
<1>3. CASE Standby(s, dt)
  BY <1>3 DEF Standby
<1>4. CASE Arming(s, dt)
  BY <1>4 DEF Arming
<1>5. CASE ArmedWaitForSpinup(s, dt)
  BY <1>5 DEF ArmedWaitForSpinup
<1>6. CASE TakingOff(s, dt)
  BY <1>6 DEF TakingOff
<1>7. CASE TakenOff(s, dt)
  BY <1>7 DEF TakenOff
<1>8. CASE Mission(s, dt)
  BY <1>8 DEF Mission, HandleMissionOutput
<1>9. CASE SafetyPilotControl(s, dt)
  BY <1>9 DEF SafetyPilotControl
<1>10. CASE Landing(s, dt)
  BY <1>10 DEF Landing
<1>11. QED
  BY <1>3, <1>4, <1>5, <1>6, <1>7, <1>8, <1>9, <1>10 DEF RunIteration

LEMMA IterationTypes ==
  ASSUME Assumptions, TypeOK,
         NEW s \in Sensors, NEW dt \in Steps, RunIteration(s, dt)
  PROVE  TypeOK'
<1>1. dt \in Nat /\ s.place \in Places
  BY DEF Assumptions, FlightAssumption, Sensors
<1>2. MissionTypeOK'
  <2>1. HandleMission(s, dt) \/ MissionIdle(dt)
    BY IterationCases DEF Mission
  <2>2. QED
    BY <1>1, <2>1, HandleTypes, IdleTypes DEF TypeOK, Assumptions
<1>3. QED
  BY <1>2, FlightTypes DEF TypeOK

LEMMA StepTypes == TypeOK /\ [Next]_vars => TypeOK'
<1> SUFFICES ASSUME TypeOK, [Next]_vars PROVE TypeOK'
  OBVIOUS
<1>1. ASSUME NEW s \in Sensors, NEW dt \in Steps, RunIteration(s, dt)
      PROVE  TypeOK'
  BY <1>1, AssumptionsHold, IterationTypes
<1>2. ASSUME NEW program \in Programs, DroneProgramReceived(program)
      PROVE  TypeOK'
  BY <1>2, AssumptionsHold, LoadProgramTypes
  DEF DroneProgramReceived, TypeOK, Assumptions
<1>3. CASE UNCHANGED vars
  BY <1>3 DEF vars, missionVars, TypeOK, MissionTypeOK
<1>4. QED
  BY <1>1, <1>2, <1>3 DEF Next

\* Every variable of the flight loop and of its mission state machine keeps
\* its type; in particular the machine never indexes past its program.
THEOREM TypeCorrect == Spec => []TypeOK
<1>1. Init => TypeOK
  BY InitTypes
<1>2. TypeOK /\ [Next]_vars => TypeOK'
  BY StepTypes
<1>3. QED
  BY <1>1, <1>2, PTL DEF Spec

-----------------------------------------------------------------------------
(* The command in progress is the one loaded last, and a commanded landing *)
(* sticks.                                                                 *)

LEMMA StepExecutes ==
  TypeOK /\ ExecutesLoadedCommand /\ [Next]_vars => ExecutesLoadedCommand'
<1> SUFFICES ASSUME TypeOK, ExecutesLoadedCommand, [Next]_vars
             PROVE  ExecutesLoadedCommand'
  OBVIOUS
<1>1. ASSUME NEW s \in Sensors, NEW dt \in Steps, RunIteration(s, dt)
      PROVE  ExecutesLoadedCommand'
  <2>1. dt \in Nat /\ s.place \in Places
    BY AssumptionsHold DEF Assumptions, FlightAssumption, Sensors
  <2>2. CASE HandleMission(s, dt)
    BY <2>1, <2>2, AssumptionsHold, HandleExecutes DEF TypeOK, Assumptions
  <2>3. CASE MissionIdle(dt)
    BY <2>3 DEF MissionIdle, ExecutesLoadedCommand
  <2>4. QED
    BY <1>1, <2>2, <2>3, IterationCases DEF Mission
<1>2. ASSUME NEW program \in Programs, DroneProgramReceived(program)
      PROVE  ExecutesLoadedCommand'
  BY <1>2 DEF DroneProgramReceived, LoadProgram, ExecutesLoadedCommand
<1>3. CASE UNCHANGED vars
  BY <1>3 DEF vars, missionVars, ExecutesLoadedCommand
<1>4. QED
  BY <1>1, <1>2, <1>3 DEF Next

\* Whatever program replaced whichever other one and when, the state the
\* mission state machine is in is that of the command it loaded last from the
\* program it holds, with that command's goal or period.
THEOREM CommandInProgress == Spec => []ExecutesLoadedCommand
<1>1. Init => ExecutesLoadedCommand
  BY DEF Init, MissionInit, ExecutesLoadedCommand
<1>2. TypeOK /\ ExecutesLoadedCommand /\ [Next]_vars => ExecutesLoadedCommand'
  BY StepExecutes
<1>3. QED
  BY <1>1, <1>2, TypeCorrect, PTL DEF Spec

LEMMA StepSticks ==
  TypeOK /\ ExecutesLoadedCommand /\ CommandedLandSticks /\ [Next]_vars
    => CommandedLandSticks'
<1> SUFFICES ASSUME TypeOK, ExecutesLoadedCommand, CommandedLandSticks,
                    [Next]_vars
             PROVE  CommandedLandSticks'
  OBVIOUS
<1>1. ASSUME NEW s \in Sensors, NEW dt \in Steps, RunIteration(s, dt)
      PROVE  CommandedLandSticks'
  \* Once the landing is in force, RunMission is false: only LANDING and
  \* STANDBY are visited, and the mission state machine is left alone.
  <2>1. CASE mission_commanded_land
    <3>1. /\ state' \in {"LANDING", "STANDBY"}
          /\ MissionIdle(dt)
          /\ ~RunMission(s)
      BY <1>1, <2>1
      DEF CommandedLandSticks, RunMission, RunIteration, Standby, Arming,
          ArmedWaitForSpinup, TakingOff, TakenOff, Mission,
          SafetyPilotControl, Landing, Enter, Remain
    <3>2. QED
      BY <2>1, <3>1 DEF CommandedLandSticks, MissionIdle
  \* It comes into force in MISSION only, from the LAND handler.
  <2>2. CASE ~mission_commanded_land /\ mission_commanded_land'
    <3>1. /\ HandleMission(s, dt)
          /\ "mission_commanded_land" \in HandleMissionOutput(s)
          /\ state' = "LANDING"
      BY <1>1, <2>2, IterationCases DEF Mission, Enter, Remain
    <3>2. mission_state = "LAND" /\ ~new_mission_ready /\ Current = "LAND"
      BY <3>1 DEF HandleMissionOutput, When, Current
    <3>3. /\ mission_state' = "LAND" /\ ~new_mission_ready'
          /\ UNCHANGED <<drone_program, drone_program_index>>
      BY <3>1, <3>2
      DEF HandleMission, GetNextCommand, Translate, UgvDrop, Land, Sleep,
          KeepCommand
    <3>4. drone_program[drone_program_index].type = "land"
      <4> DEFINE c == drone_program[drone_program_index]
      <4>1. drone_program_index > 0 /\ StateOf(c) = "LAND"
        BY <3>2 DEF ExecutesLoadedCommand
      <4>2. c \in Commands
        BY <4>1 DEF TypeOK, MissionTypeOK
      <4>3. QED
        BY <4>1, <4>2, CommandFields DEF StateOf
    <3>5. QED
      BY <3>1, <3>3, <3>4 DEF CommandedLandSticks
  <2>3. QED
    BY <2>1, <2>2 DEF CommandedLandSticks
<1>2. ASSUME NEW program \in Programs, DroneProgramReceived(program)
      PROVE  CommandedLandSticks'
  BY <1>2 DEF DroneProgramReceived, CommandedLandSticks
<1>3. CASE UNCHANGED vars
  BY <1>3 DEF vars, missionVars, CommandedLandSticks
<1>4. QED
  BY <1>1, <1>2, <1>3 DEF Next

\* After the mission commanded a landing the drone never launches or flies on
\* by itself before another program is loaded, and the command that ended the
\* mission is a LAND command of the program the machine holds.
THEOREM LandingSticks == Spec => []CommandedLandSticks
<1>1. Init => CommandedLandSticks
  BY DEF Init, CommandedLandSticks
<1>2. TypeOK /\ ExecutesLoadedCommand /\ CommandedLandSticks /\ [Next]_vars
        => CommandedLandSticks'
  BY StepSticks
<1>3. QED
  BY <1>1, <1>2, TypeCorrect, CommandInProgress, PTL DEF Spec

-----------------------------------------------------------------------------
(* The flight loop implements the abstract phases.                         *)

LEMMA IterationImplements ==
  ASSUME TypeOK, NEW s \in Sensors, NEW dt \in Steps, RunIteration(s, dt)
  PROVE  Phases!Next
<1> USE DEF TypeOK, States, Enter, Remain, DefaultOutput, PhaseOf, When,
            RunMission
<1> DEFINE steering == "send_setpoint" \in output
<1>1. CASE Standby(s, dt)
  BY <1>1
  DEF Standby, Phases!Next, Phases!Launch, Phases!Continue, Phases!Move
<1>2. CASE Arming(s, dt)
  BY <1>2
  DEF Arming, Phases!Next, Phases!GiveUp, Phases!Continue, Phases!Move
<1>3. CASE ArmedWaitForSpinup(s, dt)
  BY <1>3
  DEF ArmedWaitForSpinup, Phases!Next, Phases!GiveUp, Phases!Continue,
      Phases!Move
<1>4. CASE TakingOff(s, dt)
  BY <1>4
  DEF TakingOff, Phases!Next, Phases!GiveUp, Phases!Continue, Phases!Move
<1>5. CASE TakenOff(s, dt)
  BY <1>5
  DEF TakenOff, Phases!Next, Phases!GiveUp, Phases!BeginMission,
      Phases!Continue, Phases!Move
<1>6. CASE Mission(s, dt) /\ ~RunMission(s)
  BY <1>6 DEF Mission, Phases!Next, Phases!PilotTakes, Phases!Move
<1>7. CASE Mission(s, dt) /\ RunMission(s)
  BY <1>7
  DEF Mission, HandleMissionOutput, Phases!Next, Phases!Steer,
      Phases!MissionLands
<1>8. CASE SafetyPilotControl(s, dt)
  BY <1>8
  DEF SafetyPilotControl, Phases!Next, Phases!PilotReturns,
      Phases!PilotLands, Phases!Continue, Phases!Move
<1>9. CASE Landing(s, dt)
  BY <1>9
  DEF Landing, Phases!Next, Phases!Landed, Phases!Continue, Phases!Move
<1>10. QED
  BY <1>1, <1>2, <1>3, <1>4, <1>5, <1>6, <1>7, <1>8, <1>9 DEF RunIteration

\* Every behaviour of the flight loop is one of the abstract phases: it is
\* steered only in its mission, a landing once begun ends on the ground, and
\* no launch follows a commanded landing before a new program is loaded.
THEOREM FlightLoopImplementsPhases == Spec => ImplementsPhases
<1>1. Init => Phases!Init
  BY DEF Init, Phases!Init, PhaseOf, DefaultOutput
<1>2. TypeOK /\ [Next]_vars => [Phases!Next]_(Phases!phaseVars)
  <2> SUFFICES ASSUME TypeOK, [Next]_vars
               PROVE  [Phases!Next]_(Phases!phaseVars)
    OBVIOUS
  <2>1. ASSUME NEW s \in Sensors, NEW dt \in Steps, RunIteration(s, dt)
        PROVE  Phases!Next
    BY <2>1, IterationImplements
  <2>2. ASSUME NEW program \in Programs, DroneProgramReceived(program)
        PROVE  Phases!Next
    BY <2>2 DEF DroneProgramReceived, Phases!Next, Phases!NewProgram, PhaseOf
  <2>3. CASE UNCHANGED vars
    BY <2>3 DEF vars, Phases!phaseVars, PhaseOf
  <2>4. QED
    BY <2>1, <2>2, <2>3 DEF Next
<1>3. QED
  BY <1>1, <1>2, TypeCorrect, PTL DEF Spec, ImplementsPhases, Phases!Spec

-----------------------------------------------------------------------------
(* The waits of the flight loop.                                           *)

\* What ties the loop's own timer to the time measured from outside.  A timer
\* that runs in ARMED_WAIT_FOR_SPINUP was started after the drone was armed;
\* past that state the wait is over or the drone was seen in the air; and a
\* timer that runs in TAKEN_OFF was started after the drone was steady.
WaitsAreCovered ==
  /\ state = "ARMED_WAIT_FOR_SPINUP" =>
       (timer # NotStarted => armed_for >= timer)
  /\ state = "TAKING_OFF" => armed_for > kSpinupTime \/ flown
  /\ state = "TAKEN_OFF" =>
       flown /\ (timer # NotStarted => steady_for >= timer)

TimedInv ==
  /\ TypeOK
  /\ HistoryTypeOK
  /\ WaitsAreCovered
  /\ TakeoffAfterSpinup
  /\ OnlyLandsWithoutRun

-----------------------------------------------------------------------------

\* A timer that keeps running never shows less time than it did, nor loses a
\* lead over another one that ages by the same amount.
LEMMA LaterMonotone ==
  ASSUME Assumptions, NEW dt \in Nat,
         NEW a \in Ages, NEW b \in Nat
  PROVE  /\ Later(a, dt) >= a
         /\ Later(a, dt) \in Ages
         /\ a >= b => Later(a, dt) >= Later(b, dt)
  BY DEF Assumptions, MissionAssumption, Later, Ages, NotStarted

LEMMA StartedKeepsLead ==
  ASSUME Assumptions, NEW dt \in Nat,
         NEW a \in Timers, NEW b \in Nat \cup {NotStarted},
         b # NotStarted => a >= b
  PROVE  /\ Started(a, dt) >= Started(b, dt)
         /\ Started(a, dt) >= a
<1>1. Started(a, dt) \in Ages
  BY TimerTypes DEF Assumptions
<1>2. CASE b = NotStarted
  BY <1>1, <1>2, LaterMonotone DEF Started, Timers, NotStarted, Ages
<1>3. CASE b # NotStarted
  <2>1. a # NotStarted /\ a \in Ages /\ b \in Nat /\ b # -1
    BY <1>3 DEF Timers, NotStarted, Ages
  <2>2. Later(a, dt) >= Later(b, dt) /\ Later(a, dt) >= a
    BY <1>3, <2>1, LaterMonotone
  <2>3. QED
    BY <1>3, <2>1, <2>2 DEF Started
<1>4. QED
  BY <1>2, <1>3

LEMMA ZeroIsAge == Assumptions => 0 \in Ages
  BY DEF Assumptions, MissionAssumption, Ages

LEMMA ObserveTypes ==
  ASSUME Assumptions, HistoryTypeOK,
         NEW s \in Sensors, NEW dt \in Steps, Observe(s, dt)
  PROVE  HistoryTypeOK'
<1>1. dt \in Nat /\ s.armed \in BOOLEAN /\ s.run_uas_mission \in BOOLEAN
  BY DEF Assumptions, FlightAssumption, Sensors
<1>2. /\ Started(armed_for, dt) \in Ages
      /\ Started(steady_for, dt) \in Ages
  BY <1>1, TimerTypes DEF HistoryTypeOK, Timers, Assumptions
<1>3. Later(command_age, dt) \in Ages /\ 0 \in Ages
  <2>1. command_age \in Timers /\ command_age # NotStarted
    BY DEF HistoryTypeOK, Timers, Ages, NotStarted
  <2>2. Later(command_age, dt) \in Ages
    BY <1>1, <2>1, TimerTypes DEF Assumptions
  <2>3. QED
    BY <2>2, ZeroIsAge
<1>4. run_now' \in BOOLEAN /\ flown' \in BOOLEAN /\ last_dt' \in Steps
  BY <1>1 DEF Observe, RunMission, HistoryTypeOK
<1>5. /\ armed_for' \in Ages \cup {NotStarted}
      /\ steady_for' \in Ages \cup {NotStarted}
      /\ command_age' \in Ages
  BY <1>2, <1>3 DEF Observe
<1>6. QED
  BY <1>4, <1>5 DEF HistoryTypeOK

\* The waits stay covered, whichever handler the message runs.
LEMMA IterationCovers ==
  ASSUME Assumptions, TimedInv, NEW s \in Sensors, NEW dt \in Steps,
         RunIteration(s, dt), Observe(s, dt)
  PROVE  WaitsAreCovered' /\ TakeoffAfterSpinup'
<1>1. dt \in Nat /\ s.altitude \in Int /\ kMinTakeoffAltitude \in Int
  BY DEF Assumptions, FlightAssumption, Sensors
<1>2. /\ timer \in Nat \cup {NotStarted}
      /\ armed_for \in Timers /\ steady_for \in Timers
  BY DEF TimedInv, TypeOK, HistoryTypeOK, Timers
<1>3. /\ timer = NotStarted \/ armed_for >= timer
         => Started(armed_for, dt) >= Started(timer, dt)
      /\ timer = NotStarted \/ steady_for >= timer
         => Started(steady_for, dt) >= Started(timer, dt)
      /\ Started(armed_for, dt) >= armed_for
  BY <1>1, <1>2, StartedKeepsLead
<1>4. /\ Started(timer, dt) \in Nat
      /\ Started(armed_for, dt) \in Ages /\ Started(steady_for, dt) \in Ages
  BY <1>1, <1>2, StartedNat, TimerTypes DEF Assumptions
<1>5. kSpinupTime \in Nat /\ AgeCap \in Nat
  BY DEF Assumptions, FlightAssumption, MissionAssumption
<1>6. state = "TAKING_OFF" /\ s.armed => armed_for' > kSpinupTime \/ flown'
  <2> SUFFICES ASSUME state = "TAKING_OFF", s.armed, ~flown'
               PROVE  armed_for' > kSpinupTime
    OBVIOUS
  <2>1. armed_for > kSpinupTime
    BY DEF TimedInv, WaitsAreCovered, Observe
  <2>2. armed_for' = Started(armed_for, dt)
    BY DEF Observe
  <2>3. armed_for \in Int /\ Started(armed_for, dt) \in Int
    BY <1>2, <1>4 DEF Timers, Ages, NotStarted
  <2>4. QED
    BY <1>3, <1>5, <2>1, <2>2, <2>3
<1>7. s.armed /\ (Above(s) \/ flown) => flown'
  BY DEF Observe
<1> USE DEF Enter, Remain, DefaultOutput, When
<1>8. CASE Standby(s, dt)
  BY <1>8 DEF Standby, WaitsAreCovered, TakeoffAfterSpinup, NotStarted
<1>9. CASE Arming(s, dt)
  BY <1>7, <1>9 DEF Arming, WaitsAreCovered, TakeoffAfterSpinup, NotStarted
<1>10. CASE ArmedWaitForSpinup(s, dt)
  <2>1. s.armed => armed_for' >= Started(timer, dt)
    BY <1>3, <1>10
    DEF ArmedWaitForSpinup, TimedInv, WaitsAreCovered, Observe
  <2>2. armed_for' \in Int
    BY <1>4 DEF Observe, Ages, NotStarted
  <2>3. QED
    BY <1>4, <1>5, <1>7, <1>10, <2>1, <2>2
    DEF ArmedWaitForSpinup, WaitsAreCovered, TakeoffAfterSpinup, NotStarted
<1>11. CASE TakingOff(s, dt)
  BY <1>6, <1>7, <1>11
  DEF TakingOff, WaitsAreCovered, TakeoffAfterSpinup, NotStarted
<1>12. CASE TakenOff(s, dt)
  <2>1. RunMission(s) /\ s.armed /\ ~Below(s) =>
          steady_for' >= Started(timer, dt)
    BY <1>3, <1>12 DEF TakenOff, TimedInv, WaitsAreCovered, Observe
  <2>2. s.armed => flown'
    BY <1>7, <1>12 DEF TakenOff, TimedInv, WaitsAreCovered
  <2>3. QED
    BY <1>12, <2>1, <2>2
    DEF TakenOff, WaitsAreCovered, TakeoffAfterSpinup, NotStarted
<1>13. CASE Mission(s, dt)
  BY <1>13
  DEF Mission, HandleMissionOutput, WaitsAreCovered, TakeoffAfterSpinup
<1>14. CASE SafetyPilotControl(s, dt)
  BY <1>14 DEF SafetyPilotControl, WaitsAreCovered, TakeoffAfterSpinup
<1>15. CASE Landing(s, dt)
  BY <1>15 DEF Landing, WaitsAreCovered, TakeoffAfterSpinup
<1>16. QED
  BY <1>8, <1>9, <1>10, <1>11, <1>12, <1>13, <1>14, <1>15 DEF RunIteration

LEMMA IterationOnlyLands ==
  ASSUME NEW s, NEW dt, RunIteration(s, dt), Observe(s, dt)
  PROVE  OnlyLandsWithoutRun'
  BY DEF OnlyLandsWithoutRun, Observe, RunIteration, Standby, Arming,
         ArmedWaitForSpinup, TakingOff, TakenOff, Mission,
         SafetyPilotControl, Landing, Enter, Remain, DefaultOutput

\* The timed invariant is inductive.
LEMMA TimedInvariant == TimedSpec => []TimedInv
<1>1. TimedInit => TimedInv
  <2> SUFFICES ASSUME TimedInit PROVE TimedInv
    OBVIOUS
  <2>1. TypeOK
    BY InitTypes DEF TimedInit
  <2>2. HistoryTypeOK
    BY AssumptionsHold, ZeroIsAge DEF TimedInit, HistoryTypeOK
  <2>3. QED
    BY <2>1, <2>2
    DEF TimedInit, Init, TimedInv, WaitsAreCovered, TakeoffAfterSpinup,
        OnlyLandsWithoutRun, DefaultOutput
<1>2. TimedInv /\ [TimedNext]_timedVars => TimedInv'
  <2> SUFFICES ASSUME TimedInv, [TimedNext]_timedVars PROVE TimedInv'
    OBVIOUS
  <2>1. ASSUME NEW s \in Sensors, NEW dt \in Steps,
               RunIteration(s, dt), Observe(s, dt)
        PROVE  TimedInv'
    BY <2>1, AssumptionsHold, IterationTypes, ObserveTypes, IterationCovers,
       IterationOnlyLands
    DEF TimedInv
  <2>2. ASSUME NEW program \in Programs, DroneProgramReceived(program),
               UNCHANGED timingVars
        PROVE  TimedInv'
    <3>1. TypeOK'
      BY <2>2, StepTypes DEF TimedInv, Next
    <3>2. QED
      BY <2>2, <3>1
      DEF DroneProgramReceived, timingVars, TimedInv, HistoryTypeOK,
          WaitsAreCovered, TakeoffAfterSpinup, OnlyLandsWithoutRun
  <2>3. CASE UNCHANGED timedVars
    BY <2>3
    DEF timedVars, vars, missionVars, timingVars, TimedInv, TypeOK,
        MissionTypeOK, HistoryTypeOK, WaitsAreCovered, TakeoffAfterSpinup,
        OnlyLandsWithoutRun
  <2>4. QED
    BY <2>1, <2>2, <2>3 DEF TimedNext
<1>3. QED
  BY <1>1, <1>2, PTL DEF TimedSpec

-----------------------------------------------------------------------------

\* No takeoff is triggered on the ground before the propellers spun for all of
\* kSpinupTime since the drone was armed.
THEOREM SpinupBeforeTakeoff == TimedSpec => []TakeoffAfterSpinup
<1>1. TimedInv => TakeoffAfterSpinup
  BY DEF TimedInv
<1>2. QED
  BY <1>1, TimedInvariant, PTL

\* While the run switch is off, or a commanded landing is in force, the loop
\* never asks for anything but a landing.
THEOREM SwitchedOffOnlyLands == TimedSpec => []OnlyLandsWithoutRun
<1>1. TimedInv => OnlyLandsWithoutRun
  BY DEF TimedInv
<1>2. QED
  BY <1>1, TimedInvariant, PTL

\* Unless the safety pilot hands it over in the air, the drone begins its
\* mission only after it hovered, armed and with the switch on, for more than
\* kTakenOffWaitTime.
THEOREM HoverBeforeMission == TimedSpec => MissionAfterHover
<1> DEFINE Hovered ==
      state' = "MISSION" /\ state \notin {"MISSION", "SAFETY_PILOT_CONTROL"}
        => steady_for' > kTakenOffWaitTime
<1>1. TimedInv /\ [TimedNext]_timedVars => [Hovered]_timedVars
  <2> SUFFICES ASSUME TimedInv, TimedNext,
                      state' = "MISSION",
                      state \notin {"MISSION", "SAFETY_PILOT_CONTROL"}
               PROVE  steady_for' > kTakenOffWaitTime
    OBVIOUS
  <2>1. PICK s \in Sensors, dt \in Steps :
          RunIteration(s, dt) /\ Observe(s, dt)
    BY DEF TimedNext, DroneProgramReceived
  <2>2. /\ TakenOff(s, dt) /\ state = "TAKEN_OFF"
        /\ RunMission(s) /\ s.armed /\ ~Below(s)
        /\ Started(timer, dt) > kTakenOffWaitTime
    BY <2>1
    DEF RunIteration, Standby, Arming, ArmedWaitForSpinup, TakingOff,
        TakenOff, Mission, SafetyPilotControl, Landing, Enter, Remain
  <2>3. dt \in Nat /\ timer \in Nat \cup {NotStarted} /\ steady_for \in Timers
    BY AssumptionsHold
    DEF Assumptions, FlightAssumption, TimedInv, TypeOK, HistoryTypeOK, Timers
  <2>4. Started(steady_for, dt) >= Started(timer, dt)
    BY <2>2, <2>3, AssumptionsHold, StartedKeepsLead
    DEF TimedInv, WaitsAreCovered
  <2>5. steady_for' = Started(steady_for, dt)
    BY <2>1, <2>2 DEF Observe
  <2>6. /\ Started(steady_for, dt) \in Int /\ Started(timer, dt) \in Int
        /\ kTakenOffWaitTime \in Int
    <3>1. Started(steady_for, dt) \in Ages
      BY <2>3, AssumptionsHold, TimerTypes DEF Assumptions
    <3>2. Started(timer, dt) \in Nat
      BY <2>3, AssumptionsHold, StartedNat
    <3>3. kTakenOffWaitTime \in Int
      BY AssumptionsHold
      DEF Assumptions, FlightAssumption, MissionAssumption
    <3>4. QED
      BY <3>1, <3>2, <3>3 DEF Ages
  <2>7. QED
    BY <2>2, <2>4, <2>5, <2>6
<1>2. QED
  BY <1>1, TimedInvariant, PTL DEF TimedSpec, MissionAfterHover

-----------------------------------------------------------------------------
(* Sleep commands.                                                         *)

\* The sleep timer in use was started after the command was loaded.
SleepIsCovered ==
  ~new_mission_ready /\ mission_state = "SLEEP" /\ sleep_timer # NotStarted
    => command_age >= sleep_timer

SleepInv ==
  /\ TypeOK
  /\ command_age \in Ages
  /\ ExecutesLoadedCommand
  /\ drone_program \in Programs \cup {<<>>}
  /\ SleepIsCovered

LEMMA SleepIterationCovered ==
  ASSUME Assumptions, SleepsApart, SleepInv,
         NEW s \in Sensors, NEW dt \in Steps,
         RunIteration(s, dt), Observe(s, dt)
  PROVE  SleepIsCovered'
<1>1. /\ dt \in Nat /\ s.place \in Places
      /\ sleep_timer \in Ages \cup {NotStarted}
      /\ sleep_period \in Nat
  BY DEF Assumptions, FlightAssumption, MissionAssumption, Sensors, SleepInv,
         TypeOK, MissionTypeOK
<1>2. /\ sleep_timer # NotStarted /\ command_age >= sleep_timer =>
           Later(command_age, dt) >= Later(sleep_timer, dt)
      /\ sleep_timer = NotStarted => Later(sleep_timer, dt) = NotStarted
      /\ Later(command_age, dt) \in Ages
  BY <1>1, LaterMonotone DEF SleepInv, Later, Ages
<1>3. CASE MissionIdle(dt)
  <2>1. command_age' = Later(command_age, dt)
    BY <1>3 DEF Observe, MissionIdle
  <2>2. QED
    BY <1>2, <1>3, <2>1 DEF MissionIdle, SleepInv, SleepIsCovered
\* A command that is loaded as a sleep command is preceded by another one.
<1>4. ASSUME HandleMission(s, dt), NEW t, LoadNextCommand(Current, t)
      PROVE  SleepIsCovered'
  <2> SUFFICES ASSUME mission_state' = "SLEEP"
               PROVE  sleep_timer' = NotStarted
    BY DEF SleepIsCovered
  <2> DEFINE c == drone_program[drone_program_index + 1]
  <2>1. /\ drone_program_index < Len(drone_program)
        /\ StateOf(c) = "SLEEP"
        /\ sleep_timer' = IF c.type = "sleep" /\ Current # "SLEEP"
                          THEN NotStarted ELSE t
    BY <1>4 DEF LoadNextCommand
  <2>2. c \in Commands /\ drone_program \in Seq(Commands)
        /\ drone_program_index \in Nat
    BY <2>1 DEF SleepInv, TypeOK, MissionTypeOK
  <2>3. c.type = "sleep"
    BY <2>1, <2>2, CommandFields DEF StateOf
  <2>4. ASSUME Current = "SLEEP" PROVE FALSE
    <3> DEFINE d == drone_program[drone_program_index]
    <3>1. drone_program_index > 0 /\ StateOf(d) = "SLEEP"
      BY <2>4 DEF Current, SleepInv, ExecutesLoadedCommand
    <3>2. d \in Commands
      BY <2>1, <2>2, <3>1
    <3>3. d.type = "sleep"
      BY <3>1, <3>2, CommandFields DEF StateOf
    <3>4. drone_program \in Programs
      BY <2>1, <2>2 DEF SleepInv
    <3>5. drone_program_index \in 1 .. Len(drone_program) - 1
      BY <2>1, <2>2, <3>1
    <3>6. QED
      BY <2>3, <3>3, <3>4, <3>5 DEF SleepsApart
  <2>5. QED
    BY <2>1, <2>3, <2>4
\* Keeping a sleep starts its timer or lets it go on.
<1>5. ASSUME HandleMission(s, dt), NEW t, KeepCommand(Current, t),
             Current = "SLEEP" => t = Started(sleep_timer, dt)
      PROVE  SleepIsCovered'
  <2> SUFFICES ASSUME mission_state' = "SLEEP"
               PROVE  command_age' >= sleep_timer'
    BY DEF SleepIsCovered
  <2>1. /\ Current = "SLEEP" /\ mission_state = "SLEEP" /\ ~new_mission_ready
        /\ sleep_timer' = Started(sleep_timer, dt)
        /\ command_age' = Later(command_age, dt)
    BY <1>5 DEF KeepCommand, Current, Observe
  <2>2. QED
    BY <1>2, <2>1 DEF SleepInv, SleepIsCovered, Started, Ages
<1>6. HandleMission(s, dt) =>
        \/ \E t : LoadNextCommand(Current, t)
        \/ \E t : /\ KeepCommand(Current, t)
                  /\ Current = "SLEEP" => t = Started(sleep_timer, dt)
  BY DEF HandleMission, GetNextCommand, Translate, UgvDrop, Land, Sleep
<1>7. QED
  BY <1>3, <1>4, <1>5, <1>6, IterationCases DEF Mission

LEMMA SleepInvariant ==
  ASSUME SleepsApart
  PROVE  TimedSpec => []SleepInv
<1>1. TimedInit => SleepInv
  BY InitTypes, AssumptionsHold, ZeroIsAge
  DEF TimedInit, Init, MissionInit, SleepInv, SleepIsCovered,
      ExecutesLoadedCommand
<1>2. SleepInv /\ [TimedNext]_timedVars => SleepInv'
  <2> SUFFICES ASSUME SleepInv, [TimedNext]_timedVars PROVE SleepInv'
    OBVIOUS
  <2>1. [Next]_vars
    BY DEF TimedNext, timedVars, Next
  <2>2. TypeOK' /\ ExecutesLoadedCommand'
    BY <2>1, StepTypes, StepExecutes DEF SleepInv
  <2>3. ASSUME NEW s \in Sensors, NEW dt \in Steps,
               RunIteration(s, dt), Observe(s, dt)
        PROVE  SleepInv'
    <3>1. SleepIsCovered'
      BY <2>3, AssumptionsHold, SleepIterationCovered
    <3>2. drone_program' = drone_program
      BY <2>3, IterationCases DEF Mission, HandleMission, MissionIdle
    <3>3. command_age' \in Ages
      <4>1. dt \in Nat
        BY AssumptionsHold DEF Assumptions, FlightAssumption
      <4>2. Later(command_age, dt) \in Ages
        BY <4>1, AssumptionsHold, LaterMonotone DEF SleepInv, Ages
      <4>3. QED
        BY <2>3, <4>2, AssumptionsHold, ZeroIsAge DEF Observe
    <3>4. QED
      BY <2>2, <3>1, <3>2, <3>3 DEF SleepInv
  <2>4. ASSUME NEW program \in Programs, DroneProgramReceived(program),
               UNCHANGED timingVars
        PROVE  SleepInv'
    BY <2>2, <2>4
    DEF DroneProgramReceived, LoadProgram, timingVars, SleepInv,
        SleepIsCovered
  <2>5. CASE UNCHANGED timedVars
    BY <2>2, <2>5
    DEF timedVars, vars, missionVars, timingVars, SleepInv, SleepIsCovered
  <2>6. QED
    BY <2>3, <2>4, <2>5 DEF TimedNext
<1>3. QED
  BY <1>1, <1>2, PTL DEF TimedSpec

\* When no sleep command follows another one directly, every sleep command
\* lasts for its full period, whatever pauses the safety pilot makes and
\* whatever program replaces whichever other one.
THEOREM SleepsLast ==
  ASSUME SleepsApart
  PROVE  TimedSpec => SleepsFullPeriod
<1> DEFINE Lasts == SleepEnds => Later(command_age, last_dt') > sleep_period
<1>1. SleepInv /\ [TimedNext]_timedVars => [Lasts]_timedVars
  <2> SUFFICES ASSUME SleepInv, TimedNext, SleepEnds
               PROVE  Later(command_age, last_dt') > sleep_period
    OBVIOUS
  <2>1. PICK s \in Sensors, dt \in Steps :
          RunIteration(s, dt) /\ Observe(s, dt)
    BY DEF TimedNext, DroneProgramReceived, LoadProgram, SleepEnds
  <2>2. Current = "SLEEP" /\ HandleMission(s, dt)
    BY <2>1, IterationCases DEF SleepEnds, Current, Mission, MissionIdle
  <2>3. Started(sleep_timer, dt) > sleep_period
    BY <2>2
    DEF HandleMission, GetNextCommand, Translate, UgvDrop, Land, Sleep,
        KeepCommand, SleepEnds
  <2>4. /\ dt \in Nat /\ last_dt' = dt
        /\ sleep_timer \in Ages \cup {NotStarted} /\ sleep_period \in Nat
    BY <2>1, AssumptionsHold
    DEF Assumptions, FlightAssumption, MissionAssumption, SleepInv, TypeOK,
        MissionTypeOK, Observe
  <2>5. sleep_timer # NotStarted /\ sleep_timer \in Nat
    BY <2>3, <2>4 DEF Started, Ages
  <2>6. command_age >= sleep_timer
    BY <2>5 DEF SleepEnds, SleepInv, SleepIsCovered
  <2>7. /\ Later(command_age, dt) >= Later(sleep_timer, dt)
        /\ Later(command_age, dt) \in Ages
    BY <2>4, <2>5, <2>6, AssumptionsHold, LaterMonotone DEF SleepInv
  <2>8. Later(sleep_timer, dt) \in Ages
    BY <2>4, <2>5, AssumptionsHold, TimerTypes DEF Assumptions, Timers
  <2>9. QED
    BY <2>3, <2>4, <2>5, <2>7, <2>8 DEF Started, Ages
<1>2. QED
  BY <1>1, SleepInvariant, PTL DEF TimedSpec, SleepsFullPeriod


DroneAssumptions == Assumptions /\ DroneAssumption

LEMMA DroneAssumptionsHold == DroneAssumptions
  BY AssumptionsHold, DroneAssumption DEF DroneAssumptions

-----------------------------------------------------------------------------
(* The fields of an output, by the state that publishes it.                *)

OneShape(fields) ==
  \/ fields \subseteq {"trigger_hold", "trigger_arm"}
  \/ fields \subseteq {"trigger_takeoff"}
  \/ fields \subseteq {"trigger_land"}
  \/ fields \subseteq {"send_setpoint", "trigger_offboard", "deploy",
                       "mission_commanded_land"}

-----------------------------------------------------------------------------
(* Sequences of requests.                                                  *)

NoRepeat(s) == \A i, j \in DOMAIN s : s[i] = s[j] => i = j

LEMMA Concatenation ==
  ASSUME NEW S, NEW s \in Seq(S), NEW t \in Seq(S)
  PROVE  /\ s \o t \in Seq(S)
         /\ ToSet(s \o t) = ToSet(s) \cup ToSet(t)
         /\ Len(s \o t) = Len(s) + Len(t)
         /\ NoRepeat(s) /\ NoRepeat(t) /\ ToSet(s) \cap ToSet(t) = {}
              => NoRepeat(s \o t)
<1> DEFINE u == s \o t
<1>1. /\ u \in Seq(S) /\ Len(u) = Len(s) + Len(t)
      /\ Len(s) \in Nat /\ Len(t) \in Nat
      /\ DOMAIN s = 1 .. Len(s) /\ DOMAIN t = 1 .. Len(t)
      /\ DOMAIN u = 1 .. Len(u)
  OBVIOUS
<1>2. \A i \in DOMAIN s : i \in DOMAIN u /\ u[i] = s[i]
  BY <1>1
<1>3. \A i \in DOMAIN t : i + Len(s) \in DOMAIN u /\ u[i + Len(s)] = t[i]
  BY <1>1
<1>4. \A i \in DOMAIN u : \/ i \in DOMAIN s
                          \/ i - Len(s) \in DOMAIN t /\ i \notin DOMAIN s
  BY <1>1
<1>5. \A i \in DOMAIN u \ DOMAIN s : u[i] = t[i - Len(s)]
  BY <1>1
<1>6. ToSet(u) = ToSet(s) \cup ToSet(t)
  <2>1. ToSet(u) \subseteq ToSet(s) \cup ToSet(t)
    BY <1>2, <1>4, <1>5 DEF ToSet
  <2>2. ToSet(s) \subseteq ToSet(u)
    BY <1>2 DEF ToSet
  <2>3. ToSet(t) \subseteq ToSet(u)
    BY <1>3 DEF ToSet
  <2>4. QED
    BY <2>1, <2>2, <2>3
<1>7. ASSUME NoRepeat(s), NoRepeat(t), ToSet(s) \cap ToSet(t) = {}
      PROVE  NoRepeat(u)
  <2> SUFFICES ASSUME NEW i \in DOMAIN u, NEW j \in DOMAIN u, u[i] = u[j]
               PROVE  i = j
    BY DEF NoRepeat
  <2>1. CASE i \in DOMAIN s /\ j \in DOMAIN s
    BY <1>2, <1>7, <2>1 DEF NoRepeat
  <2>2. CASE i \notin DOMAIN s /\ j \notin DOMAIN s
    <3>1. t[i - Len(s)] = t[j - Len(s)]
      BY <1>5, <2>2
    <3>2. i - Len(s) = j - Len(s)
      BY <1>4, <1>7, <2>2, <3>1 DEF NoRepeat
    <3>3. QED
      BY <1>1, <3>2
  <2>3. CASE i \in DOMAIN s /\ j \notin DOMAIN s
    <3>1. u[i] \in ToSet(s) /\ u[j] \in ToSet(t)
      BY <1>2, <1>4, <1>5, <2>3 DEF ToSet
    <3>2. QED
      BY <1>7, <3>1
  <2>4. CASE i \notin DOMAIN s /\ j \in DOMAIN s
    <3>1. u[j] \in ToSet(s) /\ u[i] \in ToSet(t)
      BY <1>2, <1>4, <1>5, <2>4 DEF ToSet
    <3>2. QED
      BY <1>7, <3>1
  <2>5. QED
    BY <2>1, <2>2, <2>3, <2>4
<1>8. QED
  BY <1>1, <1>6, <1>7

\* A request that was answered leaves the others as they were.
LEMMA Tails ==
  ASSUME NEW S, NEW s \in Seq(S), s # <<>>
  PROVE  /\ Tail(s) \in Seq(S) /\ Head(s) \in ToSet(s)
         /\ Len(Tail(s)) = Len(s) - 1
         /\ ToSet(Tail(s)) \subseteq ToSet(s)
         /\ NoRepeat(s) => /\ NoRepeat(Tail(s))
                           /\ Head(s) \notin ToSet(Tail(s))
<1> DEFINE t == Tail(s)
<1>1. /\ Len(s) \in Nat \ {0} /\ DOMAIN s = 1 .. Len(s)
      /\ t \in Seq(S) /\ Len(t) = Len(s) - 1 /\ DOMAIN t = 1 .. Len(t)
      /\ Head(s) = s[1]
  OBVIOUS
<1>2. \A i \in DOMAIN t : i + 1 \in DOMAIN s /\ t[i] = s[i + 1]
  BY <1>1
<1>3. Head(s) \in ToSet(s)
  BY <1>1 DEF ToSet
<1>4. ToSet(t) \subseteq ToSet(s)
  BY <1>2 DEF ToSet
<1>5. ASSUME NoRepeat(s)
      PROVE  NoRepeat(t) /\ Head(s) \notin ToSet(t)
  <2>1. \A i, j \in DOMAIN t : t[i] = t[j] => i + 1 = j + 1
    BY <1>2, <1>5 DEF NoRepeat
  <2>2. NoRepeat(t)
    BY <1>1, <2>1 DEF NoRepeat
  <2>3. ASSUME NEW i \in DOMAIN t, t[i] = Head(s)
        PROVE  FALSE
    <3>1. 1 \in DOMAIN s /\ s[i + 1] = s[1] /\ i + 1 \in DOMAIN s
      BY <1>1, <1>2, <2>3
    <3>2. i + 1 = 1
      BY <1>5, <3>1 DEF NoRepeat
    <3>3. QED
      BY <1>1, <3>2
  <2>4. QED
    BY <2>2, <2>3 DEF ToSet
<1>6. QED
  BY <1>1, <1>3, <1>4, <1>5

LEMMA SingleRequests ==
  ASSUME NEW r
  PROVE  /\ <<r>> \in Seq({r}) /\ Len(<<r>>) = 1 /\ ToSet(<<r>>) = {r}
         /\ NoRepeat(<<r>>)
         /\ <<>> \in Seq({r}) /\ Len(<<>>) = 0 /\ ToSet(<<>>) = {}
         /\ NoRepeat(<<>>)
  BY DEF ToSet, NoRepeat

-----------------------------------------------------------------------------
(* What the writer sends for an output.                                    *)

\* Chain(s, A, n): s consists of the n requests in A, each once.
Chain(s, A, n) ==
  /\ s \in Seq(Requests) /\ NoRepeat(s)
  /\ ToSet(s) = A
  /\ Len(s) = n /\ n \in Nat

LEMMA Chained ==
  ASSUME NEW s, NEW A, NEW m, Chain(s, A, m),
         NEW t, NEW B, NEW n, Chain(t, B, n), A \cap B = {}
  PROVE  Chain(s \o t, A \cup B, m + n)
<1>1. /\ s \in Seq(Requests) /\ NoRepeat(s) /\ ToSet(s) = A
      /\ t \in Seq(Requests) /\ NoRepeat(t) /\ ToSet(t) = B
      /\ Len(s) = m /\ m \in Nat /\ Len(t) = n /\ n \in Nat
  BY DEF Chain
<1>2. /\ s \o t \in Seq(Requests)
      /\ ToSet(s \o t) = ToSet(s) \cup ToSet(t)
      /\ Len(s \o t) = Len(s) + Len(t)
      /\ NoRepeat(s) /\ NoRepeat(t) /\ ToSet(s) \cap ToSet(t) = {}
           => NoRepeat(s \o t)
  BY <1>1, Concatenation
<1> DEFINE u == s \o t
<1> HIDE DEF u
<1>3. Chain(u, A \cup B, m + n)
  <2>1. /\ u \in Seq(Requests) /\ ToSet(u) = A \cup B /\ Len(u) = m + n
        /\ NoRepeat(u)
    BY <1>1, <1>2, Zenon DEF u
  <2>2. m + n \in Nat
    BY <1>1
  <2>3. QED
    BY <2>1, <2>2 DEF Chain
<1>4. QED
  BY <1>3 DEF u

One(r, S) == IF r \in S THEN 1 ELSE 0

LEMMA ChainOfOne ==
  ASSUME NEW r \in Requests, NEW S
  PROVE  Chain(IF r \in S THEN <<r>> ELSE <<>>, {r} \cap S, One(r, S))
<1>1. <<r>> \in Seq(Requests) /\ <<>> \in Seq(Requests)
  OBVIOUS
<1>2. Chain(<<r>>, {r}, 1) /\ Chain(<<>>, {}, 0)
  BY <1>1, SingleRequests DEF Chain
<1>3. QED
  BY <1>2 DEF One

\* The requests for fields: each at most once, and two at most for an output
\* of the flight loop's.
LEMMA RisingIs ==
  ASSUME NEW fields
  PROVE  /\ Rising(fields) \in Seq(Requests)
         /\ ToSet(Rising(fields))
              = (fields \cap Requests) \ (last_mode_signals \cap Triggers)
         /\ NoRepeat(Rising(fields))
         /\ Len(Rising(fields)) \in Nat
         /\ OneShape(fields) => Len(Rising(fields)) <= 2
<1> DEFINE new == fields \ last_mode_signals
           p(trigger) == Posedge(trigger, fields)
           A(trigger) == {trigger} \cap new
           n(trigger) == One(trigger, new)
           s6 == IF "send_setpoint" \in fields
                 THEN <<"send_setpoint">> ELSE <<>>
           A6 == {"send_setpoint"} \cap fields
           n6 == One("send_setpoint", fields)
<1>1. \A r \in Triggers : Chain(p(r), A(r), n(r))
  BY ChainOfOne DEF Posedge, Requests
<1>2. Chain(s6, A6, n6)
  BY ChainOfOne DEF Requests
<1>3. /\ A("trigger_takeoff") \cap A("trigger_hold") = {}
      /\ (A("trigger_takeoff") \cup A("trigger_hold"))
            \cap A("trigger_offboard") = {}
      /\ (A("trigger_takeoff") \cup A("trigger_hold")
            \cup A("trigger_offboard")) \cap A("trigger_land") = {}
      /\ (A("trigger_takeoff") \cup A("trigger_hold")
            \cup A("trigger_offboard") \cup A("trigger_land"))
            \cap A("trigger_arm") = {}
      /\ (A("trigger_takeoff") \cup A("trigger_hold")
            \cup A("trigger_offboard") \cup A("trigger_land")
            \cup A("trigger_arm")) \cap A6 = {}
  OBVIOUS
<1>4. /\ Chain(p("trigger_takeoff"), A("trigger_takeoff"),
               n("trigger_takeoff"))
      /\ Chain(p("trigger_hold"), A("trigger_hold"), n("trigger_hold"))
      /\ Chain(p("trigger_offboard"), A("trigger_offboard"),
               n("trigger_offboard"))
      /\ Chain(p("trigger_land"), A("trigger_land"), n("trigger_land"))
      /\ Chain(p("trigger_arm"), A("trigger_arm"), n("trigger_arm"))
  BY <1>1 DEF Triggers
<1> HIDE DEF p, A, n, s6, A6, n6
<1>5. Chain(p("trigger_takeoff") \o p("trigger_hold"),
            A("trigger_takeoff") \cup A("trigger_hold"),
            n("trigger_takeoff") + n("trigger_hold"))
  BY <1>3, <1>4, Chained, Zenon
<1>6. Chain(p("trigger_takeoff") \o p("trigger_hold") \o p("trigger_offboard"),
            A("trigger_takeoff") \cup A("trigger_hold")
              \cup A("trigger_offboard"),
            n("trigger_takeoff") + n("trigger_hold") + n("trigger_offboard"))
  BY <1>3, <1>4, <1>5, Chained, Zenon
<1>7. Chain(p("trigger_takeoff") \o p("trigger_hold") \o p("trigger_offboard")
              \o p("trigger_land"),
            A("trigger_takeoff") \cup A("trigger_hold")
              \cup A("trigger_offboard") \cup A("trigger_land"),
            n("trigger_takeoff") + n("trigger_hold") + n("trigger_offboard")
              + n("trigger_land"))
  BY <1>3, <1>4, <1>6, Chained, Zenon
<1>8. Chain(p("trigger_takeoff") \o p("trigger_hold") \o p("trigger_offboard")
              \o p("trigger_land") \o p("trigger_arm"),
            A("trigger_takeoff") \cup A("trigger_hold")
              \cup A("trigger_offboard") \cup A("trigger_land")
              \cup A("trigger_arm"),
            n("trigger_takeoff") + n("trigger_hold") + n("trigger_offboard")
              + n("trigger_land") + n("trigger_arm"))
  BY <1>3, <1>4, <1>7, Chained, Zenon
<1>9. Chain(p("trigger_takeoff") \o p("trigger_hold") \o p("trigger_offboard")
              \o p("trigger_land") \o p("trigger_arm") \o s6,
            A("trigger_takeoff") \cup A("trigger_hold")
              \cup A("trigger_offboard") \cup A("trigger_land")
              \cup A("trigger_arm") \cup A6,
            n("trigger_takeoff") + n("trigger_hold") + n("trigger_offboard")
              + n("trigger_land") + n("trigger_arm") + n6)
  BY <1>2, <1>3, <1>8, Chained, Zenon
<1> DEFINE u == p("trigger_takeoff") \o p("trigger_hold")
                  \o p("trigger_offboard") \o p("trigger_land")
                  \o p("trigger_arm") \o s6
<1>10. u = Rising(fields)
  BY DEF Rising, p, s6
<1> HIDE DEF u
<1>11. /\ u \in Seq(Requests) /\ NoRepeat(u) /\ Len(u) \in Nat
       /\ ToSet(u) = A("trigger_takeoff") \cup A("trigger_hold")
                       \cup A("trigger_offboard") \cup A("trigger_land")
                       \cup A("trigger_arm") \cup A6
       /\ Len(u) = n("trigger_takeoff") + n("trigger_hold")
                     + n("trigger_offboard") + n("trigger_land")
                     + n("trigger_arm") + n6
  BY <1>9, Zenon DEF u, Chain
<1>12. ToSet(u) = (fields \cap Requests) \ (last_mode_signals \cap Triggers)
  BY <1>11 DEF A, A6, Requests, Triggers
<1>13. ASSUME OneShape(fields)
       PROVE  Len(u) <= 2
  <2> USE DEF n, n6, One
  <2>1. CASE fields \subseteq {"trigger_hold", "trigger_arm"}
    BY <1>11, <2>1
  <2>2. CASE fields \subseteq {"trigger_takeoff"}
    BY <1>11, <2>2
  <2>3. CASE fields \subseteq {"trigger_land"}
    BY <1>11, <2>3
  <2>4. CASE fields \subseteq {"send_setpoint", "trigger_offboard", "deploy",
                               "mission_commanded_land"}
    BY <1>11, <2>4
  <2>5. QED
    BY <1>13, <2>1, <2>2, <2>3, <2>4 DEF OneShape
<1>14. QED
  BY <1>10, <1>11, <1>12, <1>13

-----------------------------------------------------------------------------
(* Type correctness.                                                       *)

\* The output that IO holds is one the flight loop published.
HoldsAnOutput == gate_output # NoOutput => gate_output \in Outputs

\* The writer calls as long as there is something to send.
CallsWhileRequests == writer = "call" <=> requests # <<>>

TypeInv == DroneTypeOK /\ HoldsAnOutput /\ CallsWhileRequests

LEMMA DroneInitTypes == DroneInit => TypeInv
<1> SUFFICES ASSUME DroneInit PROVE TypeInv
  OBVIOUS
<1>1. DroneAssumptions
  BY DroneAssumptionsHold
<1>2. TypeOK
  BY InitTypes DEF DroneInit
<1>3. GateTypeOK
  <2>1. GateInit /\ <<>> \in Seq(Requests)
    BY DEF DroneInit
  <2>2. sampled \in [valid : BOOLEAN, run : BOOLEAN, armed : BOOLEAN]
    BY <2>1 DEF GateInit, NoSample
  <2>3. QED
    BY <2>1, <2>2 DEF GateInit, GateTypeOK
<1>4. altitude \in Altitudes /\ mode \in Modes
  BY <1>1 DEF DroneAssumptions, DroneAssumption, DroneInit
<1>5. QED
  BY <1>2, <1>3, <1>4
  DEF TypeInv, DroneTypeOK, HoldsAnOutput, CallsWhileRequests, DroneInit,
      GateInit

\* The gate keeps its types in every action of IO's.
GateInv == GateTypeOK /\ HoldsAnOutput /\ CallsWhileRequests

LEMMA ProceedTypes ==
  ASSUME GateInv, NEW rest \in Seq(Requests), Proceed(rest)
  PROVE  /\ requests' \in Seq(Requests)
         /\ writer' \in {"sample", "send", "call"}
         /\ sampled' \in [valid : BOOLEAN, run : BOOLEAN, armed : BOOLEAN]
         /\ CallsWhileRequests'
  BY DEF Proceed, GateInv, GateTypeOK, NoSample, CallsWhileRequests

LEMMA SampleTypes ==
  ASSUME GateInv, NEW valid, NEW now \in BOOLEAN, Sample(valid, now)
  PROVE  GateInv'
  BY DEF Sample, GateInv, GateTypeOK, NoSample, HoldsAnOutput,
         CallsWhileRequests

LEMMA SendTypes ==
  ASSUME DroneAssumptions, GateInv, Send
  PROVE  GateInv'
<1>1. CASE GateOpen /\ Proceed(Rising(gate_output.fields))
  <2>1. Rising(gate_output.fields) \in Seq(Requests)
    BY RisingIs
  <2>2. gate_output # NoOutput
    BY <1>1 DEF GateOpen, GateInv, GateTypeOK
  <2>3. goal' \in Setpoints /\ last_mode_signals' \subseteq Triggers
    BY <1>1, <2>2 DEF Send, GateInv, GateTypeOK
  <2>4. QED
    BY <1>1, <2>1, <2>3, ProceedTypes
    DEF Send, GateInv, GateTypeOK, HoldsAnOutput
<1>2. CASE ~GateOpen /\ Proceed(<<>>) /\ UNCHANGED <<last_mode_signals, goal>>
  <2>1. <<>> \in Seq(Requests)
    OBVIOUS
  <2>2. QED
    BY <1>2, <2>1, ProceedTypes
    DEF Send, GateInv, GateTypeOK, HoldsAnOutput
<1>3. QED
  BY <1>1, <1>2 DEF Send

LEMMA AnsweredTypes ==
  ASSUME GateInv, Answered
  PROVE  GateInv' /\ Head(requests) \in Requests /\ requests # <<>>
<1>1. requests \in Seq(Requests) /\ requests # <<>>
  BY DEF Answered, GateInv, GateTypeOK, CallsWhileRequests
<1>2. Tail(requests) \in Seq(Requests) /\ Head(requests) \in Requests
  BY <1>1
<1>3. QED
  BY <1>1, <1>2, ProceedTypes
  DEF Answered, GateInv, GateTypeOK, HoldsAnOutput

LEMMA CallbackTypes ==
  ASSUME DroneAssumptions, GateInv,
         \/ \E run \in BOOLEAN : RcInReceived(run)
         \/ \E out \in Outputs : OutputReceived(out)
         \/ RcLost \/ OutputExpires
  PROVE  GateInv'
<1> USE DEF GateInv, GateTypeOK, HoldsAnOutput, CallsWhileRequests
<1>1. ASSUME NEW run \in BOOLEAN, RcInReceived(run)
      PROVE  GateInv'
  BY <1>1 DEF RcInReceived
<1>2. ASSUME NEW out \in Outputs, OutputReceived(out)
      PROVE  GateInv'
  <2>1. out # NoOutput /\ out.setpoint \in Setpoints
    BY DEF DroneAssumptions, DroneAssumption, Outputs
  <2>2. QED
    BY <1>2, <2>1 DEF OutputReceived
<1>3. CASE RcLost
  BY <1>3 DEF RcLost
<1>4. CASE OutputExpires
  BY <1>4 DEF OutputExpires
<1>5. QED
  BY <1>1, <1>2, <1>3, <1>4

LEMMA VehicleTypes ==
  ASSUME DroneAssumptions, DroneTypeOK, Vehicle
  PROVE  /\ mode' \in Modes /\ armed' \in BOOLEAN
         /\ altitude' \in Altitudes /\ {place', target'} \subseteq Places
<1> USE DEF DroneAssumptions, DroneAssumption, DroneTypeOK
<1>1. CASE Climbs
  BY <1>1 DEF Climbs
<1>2. CASE FliesToTarget
  BY <1>2 DEF FliesToTarget
<1>3. CASE Descends
  <2>1. altitude \in Ground .. Cruise /\ Ground \in Int /\ Cruise \in Int
    OBVIOUS
  <2>2. altitude > Ground => altitude - 1 \in Ground .. Cruise
    BY <2>1
  <2>3. QED
    BY <1>3, <2>2 DEF Descends
<1>4. CASE Idles
  BY <1>4 DEF Idles
<1>5. CASE Sags
  BY <1>5 DEF Sags
<1>6. CASE Pilot
  BY <1>6 DEF Pilot
<1>7. QED
  BY <1>1, <1>2, <1>3, <1>4, <1>5, <1>6 DEF Vehicle

LEMMA ObeyTypes ==
  ASSUME DroneAssumptions, DroneTypeOK, NEW request \in Requests, Obey(request)
  PROVE  mode' \in Modes /\ armed' \in BOOLEAN /\ target' \in Places
<1>1. mode' \in Modes
  BY DEF Obey, ModeFor, DroneAssumptions, DroneAssumption, DroneTypeOK
<1>2. QED
  BY <1>1
  DEF Obey, DroneAssumptions, DroneAssumption, DroneTypeOK, GateTypeOK

-----------------------------------------------------------------------------
(* Every step of the drone is a step of the flight loop's or leaves it     *)
(* alone.                                                                  *)

LEMMA DroneStepIsLoopStep ==
  ASSUME TypeInv, [DroneNext]_droneVars
  PROVE  [Next]_vars
<1>1. CASE LoopIterates
  BY <1>1 DEF LoopIterates, TypeInv, DroneTypeOK, Next
<1>2. CASE ProgramArrives
  BY <1>2 DEF ProgramArrives, Next
<1>3. CASE UNCHANGED vars
  BY <1>3
<1>4. QED
  BY <1>1, <1>2, <1>3
  DEF DroneNext, WriterPublishes, WriterSamples, WriterSends, CallSucceeds,
      CallFails, OutputArrives, RadioArrives, Silence, Vehicle, droneVars

LEMMA DroneStepTypes ==
  ASSUME TypeInv, [DroneNext]_droneVars
  PROVE  TypeInv'
<1>1. DroneAssumptions
  BY DroneAssumptionsHold
<1>2. TypeOK'
  BY DroneStepIsLoopStep, StepTypes DEF TypeInv, DroneTypeOK
<1>3. GateInv
  BY DEF TypeInv, GateInv, DroneTypeOK
<1> DEFINE Rest == /\ sensors_topic \subseteq Sensors
                   /\ output_topic \subseteq Outputs
                   /\ acted \in BOOLEAN
                   /\ mode \in Modes /\ armed \in BOOLEAN
                   /\ altitude \in Altitudes
                   /\ {place, target} \subseteq Places
<1>4. Rest
  BY DEF TypeInv, DroneTypeOK
<1>5. SUFFICES GateInv' /\ Rest'
  BY <1>2 DEF TypeInv, GateInv, DroneTypeOK
<1>6. CASE WriterPublishes
  <2>1. GateInv'
    BY <1>3, <1>4, <1>6, SampleTypes DEF WriterPublishes
  <2>2. \A done \in DropReports : SensorsNow(done) \in Sensors
    BY <1>1, <1>3, <1>4
    DEF SensorsNow, Sensors, GateInv, GateTypeOK, DroneAssumptions,
        DroneAssumption
  <2>3. QED
    BY <1>4, <1>6, <2>1, <2>2
    DEF WriterPublishes, vehicleVars
<1>7. CASE WriterSamples
  BY <1>3, <1>4, <1>7, SampleTypes
  DEF WriterSamples, vehicleVars, topicVars
<1>8. CASE WriterSends
  BY <1>1, <1>3, <1>4, <1>8, SendTypes DEF WriterSends, vehicleVars
<1>9. CASE CallSucceeds
  <2>1. GateInv' /\ Head(requests) \in Requests
    BY <1>3, <1>9, AnsweredTypes DEF CallSucceeds
  <2>2. mode' \in Modes /\ armed' \in BOOLEAN /\ target' \in Places
    BY <1>1, <1>9, <2>1, ObeyTypes DEF CallSucceeds, TypeInv
  <2>3. QED
    BY <1>4, <1>9, <2>1, <2>2 DEF CallSucceeds, topicVars
<1>10. CASE CallFails
  BY <1>3, <1>4, <1>10, AnsweredTypes DEF CallFails, topicVars, vehicleVars
<1>11. CASE LoopIterates
  <2>1. [fields |-> output', setpoint |-> setpoint'] \in Outputs
    BY <1>2 DEF Outputs, TypeOK, MissionTypeOK
  <2>2. GateInv'
    BY <1>3, <1>11
    DEF LoopIterates, gateVars, GateInv, GateTypeOK, HoldsAnOutput,
        CallsWhileRequests
  <2>3. QED
    BY <1>4, <1>11, <2>1, <2>2 DEF LoopIterates, vehicleVars
<1>12. CASE ProgramArrives
  BY <1>3, <1>4, <1>12
  DEF ProgramArrives, gateVars, vehicleVars, topicVars, GateInv, GateTypeOK,
      HoldsAnOutput, CallsWhileRequests
<1>13. CASE OutputArrives
  <2>1. GateInv'
    BY <1>1, <1>3, <1>4, <1>13, CallbackTypes DEF OutputArrives
  <2>2. QED
    BY <1>4, <1>13, <2>1 DEF OutputArrives, vehicleVars
<1>14. CASE RadioArrives
  <2>1. GateInv'
    BY <1>1, <1>3, <1>14, CallbackTypes
    DEF RadioArrives, DroneAssumptions, DroneAssumption
  <2>2. QED
    BY <1>4, <1>14, <2>1 DEF RadioArrives, vehicleVars, topicVars
<1>15. CASE Silence
  BY <1>1, <1>3, <1>4, <1>15, CallbackTypes
  DEF Silence, vehicleVars, topicVars
<1>16. CASE Vehicle
  <2>1. GateInv'
    BY <1>3, <1>16
    DEF Vehicle, gateVars, GateInv, GateTypeOK, HoldsAnOutput,
        CallsWhileRequests
  <2>2. QED
    BY <1>1, <1>4, <1>16, <2>1, VehicleTypes DEF Vehicle, topicVars, TypeInv
<1>17. CASE UNCHANGED droneVars
  BY <1>3, <1>4, <1>17
  DEF droneVars, gateVars, vehicleVars, topicVars, GateInv, GateTypeOK,
      HoldsAnOutput, CallsWhileRequests
<1>18. QED
  BY <1>6, <1>7, <1>8, <1>9, <1>10, <1>11, <1>12, <1>13, <1>14, <1>15, <1>16,
     <1>17
  DEF DroneNext

\* Both nodes, the messages between them, the gate's copies and edge detectors
\* and the vehicle keep their types, in whatever order callbacks, service
\* calls and outages come.
THEOREM DroneTypeCorrect == DroneSpec => []DroneTypeOK
<1>1. DroneInit => TypeInv
  BY DroneInitTypes
<1>2. TypeInv /\ [DroneNext]_droneVars => TypeInv'
  BY DroneStepTypes
<1>3. TypeInv => DroneTypeOK
  BY DEF TypeInv
<1>4. QED
  BY <1>1, <1>2, <1>3, PTL DEF DroneSpec

LEMMA DroneKeepsTypeInv == DroneSpec => []TypeInv
<1>1. DroneInit => TypeInv
  BY DroneInitTypes
<1>2. TypeInv /\ [DroneNext]_droneVars => TypeInv'
  BY DroneStepTypes
<1>3. QED
  BY <1>1, <1>2, PTL DEF DroneSpec

\* The flight loop of the composition is FlightLoop's: whatever IO, the
\* autopilot and the safety pilot do, it sees sensors that FlightLoop allows.
\* All that is proved of Spec holds of the drone in flight.
THEOREM DroneRunsFlightLoop == DroneSpec => Spec
<1>1. DroneInit => Init
  BY DEF DroneInit
<1>2. TypeInv /\ [DroneNext]_droneVars => [Next]_vars
  BY DroneStepIsLoopStep
<1>3. QED
  BY <1>1, <1>2, DroneKeepsTypeInv, PTL DEF DroneSpec, Spec

-----------------------------------------------------------------------------
(* The outputs on their way from the flight loop to the writer.            *)

\* The fields of the output that IO received last.
Heard == IF gate_output = NoOutput THEN {} ELSE gate_output.fields

\* The topic holds the newest output; with an empty topic IO has it.
NewestLast ==
  /\ \A m \in output_topic : m.fields = output
  /\ output_topic = {} /\ gate_output # NoOutput => Heard = output

\* A takeoff and a landing are requested by their states only.
RequestedByState ==
  /\ "trigger_takeoff" \in output => state = "TAKING_OFF"
  /\ "trigger_land" \in output => state = "LANDING"

OutputInv ==
  /\ OneShape(output) /\ OneShape(Heard)
  /\ NewestLast
  /\ RequestedByState
  /\ NoRepeat(requests)

\* What one iteration of the flight loop publishes.
LEMMA IterationOutputs ==
  ASSUME NEW s, NEW dt, RunIteration(s, dt)
  PROVE  /\ OneShape(output')
         /\ "trigger_takeoff" \in output'
              <=> state = "TAKING_OFF" /\ state' = "TAKING_OFF"
         /\ "trigger_land" \in output' => state' = "LANDING"
         /\ state = "LANDING" => /\ output' \subseteq {"trigger_land"}
                                 /\ state' \in {"LANDING", "STANDBY"}
<1> USE DEF Enter, Remain, DefaultOutput, When, OneShape
<1>1. CASE Standby(s, dt)
  BY <1>1 DEF Standby
<1>2. CASE Arming(s, dt)
  BY <1>2 DEF Arming
<1>3. CASE ArmedWaitForSpinup(s, dt)
  BY <1>3 DEF ArmedWaitForSpinup
<1>4. CASE TakingOff(s, dt)
  BY <1>4 DEF TakingOff
<1>5. CASE TakenOff(s, dt)
  BY <1>5 DEF TakenOff
<1>6. CASE Mission(s, dt)
  <2>1. output' \subseteq {"send_setpoint", "trigger_offboard", "deploy",
                           "mission_commanded_land"}
    BY <1>6 DEF Mission, HandleMissionOutput
  <2>2. state = "MISSION"
    BY <1>6 DEF Mission
  <2>3. QED
    BY <2>1, <2>2
<1>7. CASE SafetyPilotControl(s, dt)
  BY <1>7 DEF SafetyPilotControl
<1>8. CASE Landing(s, dt)
  BY <1>8 DEF Landing
<1>9. QED
  BY <1>1, <1>2, <1>3, <1>4, <1>5, <1>6, <1>7, <1>8 DEF RunIteration

LEMMA OutputStep ==
  ASSUME TypeInv, OutputInv, [DroneNext]_droneVars
  PROVE  OutputInv'
<1> USE DEF OutputInv, NewestLast, RequestedByState, Heard
<1>1. requests \in Seq(Requests)
  BY DEF TypeInv, DroneTypeOK, GateTypeOK
<1>2. CASE WriterPublishes
  BY <1>2 DEF WriterPublishes, Sample, vars
<1>3. CASE WriterSamples
  BY <1>3 DEF WriterSamples, Sample, vars, topicVars
<1>4. CASE WriterSends
  <2>1. NoRepeat(requests')
    <3>1. requests' = <<>> \/ \E f : requests' = Rising(f)
      BY <1>4 DEF WriterSends, Send, Proceed
    <3>2. QED
      BY <3>1, RisingIs, SingleRequests
  <2>2. QED
    BY <1>4, <2>1 DEF WriterSends, Send, vars
<1>5. CASE CallSucceeds \/ CallFails
  <2>1. requests # <<>> /\ requests' = Tail(requests)
    BY <1>5
    DEF CallSucceeds, CallFails, Answered, Proceed, TypeInv,
        CallsWhileRequests
  <2>2. NoRepeat(requests')
    BY <1>1, <2>1, Tails
  <2>3. QED
    BY <1>5, <2>2 DEF CallSucceeds, CallFails, Answered, vars, topicVars
<1>6. CASE LoopIterates
  <2>1. PICK s \in sensors_topic, dt \in Steps : RunIteration(s, dt)
    BY <1>6 DEF LoopIterates
  <2>2. /\ OneShape(output')
        /\ "trigger_takeoff" \in output' => state' = "TAKING_OFF"
        /\ "trigger_land" \in output' => state' = "LANDING"
    BY <2>1, IterationOutputs
  <2>3. /\ output_topic' = {[fields |-> output', setpoint |-> setpoint']}
        /\ UNCHANGED <<gate_output, requests>>
    BY <1>6 DEF LoopIterates, gateVars
  <2>4. OneShape(Heard') /\ NoRepeat(requests')
    BY <2>3 DEF OneShape
  <2>5. NewestLast'
    <3> DEFINE new == [fields |-> output', setpoint |-> setpoint']
    <3>1. new.fields = output'
      OBVIOUS
    <3> HIDE DEF new
    <3>2. output_topic' = {new}
      BY <2>3 DEF new
    <3>3. QED
      BY <3>1, <3>2
  <2>6. QED
    BY <2>2, <2>4, <2>5
<1>7. CASE ProgramArrives
  BY <1>7 DEF ProgramArrives, DroneProgramReceived, gateVars, topicVars
<1>8. CASE OutputArrives
  <2>1. PICK out \in output_topic : OutputReceived(out)
    BY <1>8 DEF OutputArrives
  <2>2. out.fields = output
    BY <2>1
  <2>3. Heard' = output \/ gate_output' = NoOutput
    BY <2>1, <2>2 DEF OutputReceived
  <2>4. OneShape(Heard')
    BY <2>3 DEF OneShape
  <2>5. QED
    BY <1>8, <2>1, <2>2, <2>4 DEF OutputArrives, OutputReceived, vars
<1>9. CASE RadioArrives
  BY <1>9 DEF RadioArrives, RcInReceived, vars, topicVars
<1>10. CASE Silence
  BY <1>10 DEF Silence, RcLost, OutputExpires, vars, topicVars
<1>11. CASE Vehicle
  BY <1>11 DEF Vehicle, gateVars, vars, topicVars
<1>12. CASE UNCHANGED droneVars
  BY <1>12 DEF droneVars, gateVars, vars, topicVars
<1>13. QED
  BY <1>2, <1>3, <1>4, <1>5, <1>6, <1>7, <1>8, <1>9, <1>10, <1>11, <1>12
  DEF DroneNext

LEMMA OutputInit == DroneInit => OutputInv
  BY DEF DroneInit, Init, GateInit, DefaultOutput, OutputInv, OneShape,
         NewestLast, RequestedByState, Heard, NoRepeat

LEMMA DroneKeepsOutputInv == DroneSpec => []OutputInv
<1>1. TypeInv /\ OutputInv /\ [DroneNext]_droneVars => OutputInv'
  BY OutputStep
<1>2. QED
  BY <1>1, OutputInit, DroneKeepsTypeInv, PTL DEF DroneSpec

-----------------------------------------------------------------------------
(* The history: what was sent, and when.                                   *)

hVars == <<droneVars, historyVars>>

LEMMA HistoryOfDrone == HistorySpec => DroneSpec
<1>1. HistoryInit => DroneInit
  BY DEF HistoryInit
<1>2. [HistoryNext]_hVars => [DroneNext]_droneVars
  BY DEF HistoryNext, hVars
<1>3. QED
  BY <1>1, <1>2, PTL DEF HistorySpec, DroneSpec, hVars

\* The steps by what they do to the requests.
LEMMA SendsAre ==
  ASSUME TypeInv, DroneNext
  PROVE  \/ /\ Sends /\ (CallSucceeds \/ CallFails)
            /\ Answered /\ writer = "call" /\ requests # <<>>
            /\ requests' = Tail(requests)
            /\ UNCHANGED <<vars, topicVars>>
         \/ ~Sends /\ WriterSends /\ writer = "send"
         \/ ~Sends /\ requests' = requests
              /\ ~WriterSends /\ ~CallSucceeds /\ ~CallFails
<1>1. requests \in Seq(Requests)
  BY DEF TypeInv, DroneTypeOK, GateTypeOK
<1>2. CASE CallSucceeds \/ CallFails
  <2>1. /\ requests # <<>> /\ requests' = Tail(requests) /\ writer = "call"
        /\ Answered /\ UNCHANGED <<vars, topicVars>>
    BY <1>2
    DEF CallSucceeds, CallFails, Answered, Proceed, TypeInv,
        CallsWhileRequests
  <2>2. Len(requests') # Len(requests)
    BY <1>1, <2>1
  <2>3. QED
    BY <1>2, <2>1, <2>2 DEF Sends
<1>3. CASE WriterSends
  BY <1>3 DEF WriterSends, Send, Sends
<1>4. CASE ~WriterSends /\ ~CallSucceeds /\ ~CallFails
  <2>1. requests' = requests
    BY <1>4
    DEF DroneNext, WriterPublishes, WriterSamples, Sample, LoopIterates,
        ProgramArrives, OutputArrives, OutputReceived, RadioArrives,
        RcInReceived, Silence, RcLost, OutputExpires, Vehicle, gateVars
  <2>2. QED
    BY <1>4, <2>1 DEF Sends
<1>5. QED
  BY <1>2, <1>3, <1>4

-----------------------------------------------------------------------------
(* The requests that come after the safety pilot's switch went off.        *)

\* What was sent late and what the writer still has in hand; a copy of the
\* switch that says on was taken when it was on, so nothing was late then.
LateInv ==
  /\ late \in Nat
  /\ late + Len(requests) <= 2
  /\ run_uas_mission => late = 0
  /\ writer = "send" /\ sampled.run => late = 0

LEMMA LateStep ==
  ASSUME TypeInv, OutputInv, LateInv, [HistoryNext]_hVars
  PROVE  LateInv'
<1>1. requests \in Seq(Requests) /\ Len(requests) \in Nat
  BY DEF TypeInv, DroneTypeOK, GateTypeOK
<1>2. CASE UNCHANGED hVars
  BY <1>2 DEF hVars, historyVars, droneVars, gateVars, LateInv
<1>3. CASE HistoryNext /\ (CallSucceeds \/ CallFails) /\ Sends
  <2>1. /\ requests' = Tail(requests) /\ requests # <<>>
        /\ writer' # "send"
        /\ late' = IF run_uas_mission' THEN 0 ELSE late + 1
    BY <1>3, SendsAre
    DEF HistoryNext, Record, CallSucceeds, CallFails, Answered, Proceed
  <2>2. Len(requests') = Len(requests) - 1 /\ Len(requests') \in Nat
    BY <1>1, <2>1
  <2>3. QED
    BY <1>1, <2>1, <2>2 DEF LateInv
<1>4. CASE HistoryNext /\ WriterSends /\ ~Sends
  <2>1. /\ writer = "send" /\ writer' # "send"
        /\ late' = IF run_uas_mission' THEN 0 ELSE late
    BY <1>4 DEF HistoryNext, Record, WriterSends, Send, Proceed
  <2>2. CASE GateOpen /\ requests' = Rising(gate_output.fields)
    <3>1. late = 0
      BY <2>1, <2>2 DEF GateOpen, LateInv
    <3>2. OneShape(gate_output.fields)
      BY <2>2 DEF GateOpen, TypeInv, DroneTypeOK, GateTypeOK, OutputInv, Heard
    <3>3. Len(requests') <= 2 /\ Len(requests') \in Nat
      BY <2>2, <3>2, RisingIs
    <3>4. QED
      BY <2>1, <3>1, <3>3 DEF LateInv
  <2>3. CASE requests' = <<>>
    <3>1. Len(requests') = 0
      BY <2>3
    <3>2. QED
      BY <1>1, <2>1, <3>1 DEF LateInv
  <2>4. QED
    BY <1>4, <2>2, <2>3 DEF WriterSends, Send, Proceed
<1>5. CASE HistoryNext /\ ~Sends /\ requests' = requests
             /\ ~WriterSends /\ ~CallSucceeds /\ ~CallFails
  <2>1. late' = IF run_uas_mission' THEN 0 ELSE late
    BY <1>5 DEF HistoryNext, Record
  <2>2. writer' = "send" /\ sampled'.run => late' = 0
    <3>1. CASE WriterPublishes \/ WriterSamples
      BY <2>1, <3>1 DEF WriterPublishes, WriterSamples, Sample, NoSample,
                       LateInv
    <3>2. CASE ~WriterPublishes /\ ~WriterSamples
      <4>1. UNCHANGED <<writer, sampled>>
        BY <1>5, <3>2
        DEF HistoryNext, DroneNext, LoopIterates, ProgramArrives,
            OutputArrives, OutputReceived, RadioArrives, RcInReceived,
            Silence, RcLost, OutputExpires, Vehicle, gateVars
      <4>2. QED
        BY <2>1, <4>1 DEF LateInv
    <3>3. QED
      BY <3>1, <3>2
  <2>3. QED
    BY <1>1, <1>5, <2>1, <2>2 DEF LateInv
<1>6. QED
  BY <1>2, <1>3, <1>4, <1>5, SendsAre DEF HistoryNext

\* Whenever the safety pilot's switch goes off, and whatever else happens, at
\* most the two requests of the iteration that the writer thread is in still
\* reach the autopilot: the copy of the switch is taken anew before the next
\* one, and no output of the flight loop's asks for more than two things.
THEOREM FewLateRequests == HistorySpec => []AtMostTwoLateRequests
<1>1. HistoryInit => LateInv
  BY DEF HistoryInit, DroneInit, GateInit, NoSample, LateInv
<1>2. TypeInv /\ OutputInv /\ LateInv /\ [HistoryNext]_hVars => LateInv'
  BY LateStep
<1>3. TypeInv /\ LateInv => AtMostTwoLateRequests
  <2>1. TypeInv => Len(requests) \in Nat
    BY DEF TypeInv, DroneTypeOK, GateTypeOK
  <2>2. QED
    BY <2>1 DEF LateInv, AtMostTwoLateRequests
<1>4. QED
  BY <1>1, <1>2, <1>3, HistoryOfDrone, DroneKeepsTypeInv, DroneKeepsOutputInv,
     PTL
  DEF HistorySpec, hVars

-----------------------------------------------------------------------------
(* The takeoffs that are asked for.                                        *)

Count(p) == IF p THEN 1 ELSE 0

\* The takeoffs that the writer would still request if the flight loop kept
\* its state: the one in hand, and one for every rise of the trigger on its way
\* from the flight loop's state over its outputs to the edge detector.
TakeoffsDue ==
  Count("trigger_takeoff" \in ToSet(requests))
    + Count("trigger_takeoff" \in Heard \ last_mode_signals)
    + Count("trigger_takeoff" \in output \ Heard)
    + Count(state = "TAKING_OFF" /\ "trigger_takeoff" \notin output)

TakeoffInv ==
  /\ attempts \in 0 .. 2
  /\ TakeoffsDue <= attempts
  /\ "trigger_takeoff" \in ToSet(requests)
       => "trigger_takeoff" \in last_mode_signals

LEMMA TakeoffLoopStep ==
  ASSUME TypeInv, OutputInv, TakeoffInv, LoopIterates, Record, ~Sends
  PROVE  TakeoffInv'
<1>1. PICK s \in sensors_topic, dt \in Steps : RunIteration(s, dt)
  BY DEF LoopIterates
<1>2. "trigger_takeoff" \in output'
        <=> state = "TAKING_OFF" /\ state' = "TAKING_OFF"
  BY <1>1, IterationOutputs
<1>3. UNCHANGED <<requests, gate_output, last_mode_signals>>
  BY DEF LoopIterates, gateVars
<1>4. Heard' = Heard
  BY <1>3 DEF Heard
<1>5. "trigger_takeoff" \in output => state = "TAKING_OFF"
  BY DEF OutputInv, RequestedByState
<1> USE DEF TakeoffInv, TakeoffsDue, Count, Record, AttemptsAfter
<1>6. CASE state # "TAKING_OFF" /\ state' = "TAKING_OFF"
  <2>1. attempts' = IF attempts + 1 > 2 THEN 2 ELSE attempts + 1
    BY <1>6
  <2>2. "trigger_takeoff" \notin output /\ "trigger_takeoff" \notin output'
    BY <1>2, <1>5, <1>6
  <2>3. QED
    BY <1>3, <1>4, <1>6, <2>1, <2>2
<1>7. CASE ~(state # "TAKING_OFF" /\ state' = "TAKING_OFF")
  <2>1. attempts' = attempts
    BY <1>7
  <2>2. ToSet(requests') = ToSet(requests)
    BY <1>3
  <2>3. CASE state' # "TAKING_OFF"
    <3>1. "trigger_takeoff" \notin output'
      BY <1>2, <2>3
    <3>2. QED
      BY <1>3, <1>4, <2>1, <2>2, <2>3, <3>1
  <2>4. CASE state' = "TAKING_OFF"
    <3>1. "trigger_takeoff" \in output'
      BY <1>2, <1>7, <2>4
    <3>2. QED
      BY <1>3, <1>4, <1>7, <2>1, <2>2, <2>4, <3>1
  <2>5. QED
    BY <2>3, <2>4
<1>8. QED
  BY <1>6, <1>7

LEMMA TakeoffStep ==
  ASSUME TypeInv, OutputInv, TakeoffInv, [HistoryNext]_hVars
  PROVE  TakeoffInv'
<1>1. requests \in Seq(Requests)
  BY DEF TypeInv, DroneTypeOK, GateTypeOK
<1> USE DEF TakeoffInv, TakeoffsDue, Count
<1>2. CASE UNCHANGED hVars
  BY <1>2 DEF hVars, historyVars, droneVars, vars, gateVars, Heard
<1>3. CASE HistoryNext /\ Sends /\ Answered /\ requests # <<>>
             /\ requests' = Tail(requests) /\ UNCHANGED <<vars, topicVars>>
  <2>1. /\ ToSet(requests') \subseteq ToSet(requests)
        /\ Head(requests) \in ToSet(requests)
        /\ Head(requests) \notin ToSet(requests')
    BY <1>1, <1>3, Tails DEF OutputInv
  <2>2. UNCHANGED <<state, output, gate_output, last_mode_signals>>
    BY <1>3 DEF vars, Answered
  <2>3. Heard' = Heard
    BY <2>2 DEF Heard
  <2>4. CASE Head(requests) = "trigger_takeoff"
    <3>1. AttemptsAfter = attempts - 1
      BY <1>3, <2>2, <2>4 DEF AttemptsAfter
    <3>2. attempts' = attempts - 1
      BY <1>3, <3>1 DEF HistoryNext, Record
    <3>3. QED
      BY <2>1, <2>2, <2>3, <2>4, <3>2
  <2>5. CASE Head(requests) # "trigger_takeoff"
    <3>1. AttemptsAfter = attempts
      BY <2>2, <2>5 DEF AttemptsAfter
    <3>2. attempts' = attempts
      BY <1>3, <3>1 DEF HistoryNext, Record
    <3>3. QED
      BY <2>1, <2>2, <2>3, <3>2
  <2>6. QED
    BY <2>4, <2>5
<1>4. CASE HistoryNext /\ ~Sends /\ WriterSends /\ writer = "send"
  <2>1. UNCHANGED <<state, output, gate_output>>
    BY <1>4 DEF WriterSends, Send, vars
  <2>2. attempts' = attempts
    BY <1>4, <2>1 DEF HistoryNext, Record, AttemptsAfter
  <2>3. Heard' = Heard
    BY <2>1 DEF Heard
  <2>4. ToSet(requests) = {}
    BY <1>4 DEF TypeInv, CallsWhileRequests, ToSet
  <2>5. CASE /\ GateOpen /\ requests' = Rising(gate_output.fields)
             /\ last_mode_signals' = gate_output.fields \cap Triggers
    <3>1. gate_output.fields = Heard
      BY <2>5 DEF GateOpen, TypeInv, DroneTypeOK, GateTypeOK, Heard
    <3>2. ToSet(requests')
            = (Heard \cap Requests) \ (last_mode_signals \cap Triggers)
      BY <2>5, <3>1, RisingIs
    <3>3. /\ "trigger_takeoff" \in ToSet(requests')
               <=> "trigger_takeoff" \in Heard \ last_mode_signals
          /\ "trigger_takeoff" \in last_mode_signals'
               <=> "trigger_takeoff" \in Heard
      BY <2>5, <3>1, <3>2 DEF Requests, Triggers
    <3>4. QED
      BY <2>1, <2>2, <2>3, <2>4, <3>3
  <2>6. CASE requests' = <<>> /\ UNCHANGED last_mode_signals
    <3>1. ToSet(requests') = {}
      BY <2>6, SingleRequests
    <3>2. QED
      BY <2>1, <2>2, <2>3, <2>4, <2>6, <3>1
  <2>7. QED
    BY <1>4, <2>5, <2>6 DEF WriterSends, Send, Proceed
<1>5. CASE HistoryNext /\ ~Sends /\ requests' = requests
             /\ ~WriterSends /\ ~CallSucceeds /\ ~CallFails
  <2>1. CASE LoopIterates
    BY <1>5, <2>1, TakeoffLoopStep DEF HistoryNext
  <2>2. CASE OutputArrives
    <3>1. PICK out \in output_topic : OutputReceived(out)
      BY <2>2 DEF OutputArrives
    <3>2. out.fields = output /\ out # NoOutput
      BY <3>1, DroneAssumptionsHold
      DEF OutputInv, NewestLast, TypeInv, DroneTypeOK, DroneAssumptions,
          DroneAssumption
    <3>3. Heard' = output
      BY <3>1, <3>2 DEF OutputReceived, Heard
    <3>4. UNCHANGED <<state, output, last_mode_signals>>
      BY <2>2, <3>1 DEF OutputArrives, OutputReceived, vars
    <3>5. attempts' = attempts
      BY <1>5, <3>4 DEF HistoryNext, Record, AttemptsAfter
    <3>6. QED
      BY <1>5, <3>3, <3>4, <3>5
  <2>3. CASE ~LoopIterates /\ ~OutputArrives
    <3>1. UNCHANGED <<state, output, gate_output, last_mode_signals>>
      BY <1>5, <2>3
      DEF HistoryNext, DroneNext, WriterPublishes, WriterSamples, Sample,
          ProgramArrives, DroneProgramReceived, RadioArrives, RcInReceived,
          Silence, RcLost, OutputExpires, Vehicle, gateVars, vars
    <3>2. Heard' = Heard
      BY <3>1 DEF Heard
    <3>3. attempts' = attempts
      BY <1>5, <3>1 DEF HistoryNext, Record, AttemptsAfter
    <3>4. QED
      BY <1>5, <3>1, <3>2, <3>3
  <2>4. QED
    BY <2>1, <2>2, <2>3
<1>6. QED
  BY <1>2, <1>3, <1>4, <1>5, SendsAre DEF HistoryNext

\* Each time the flight loop begins to take off the autopilot is asked for at
\* most one takeoff, although the trigger is repeated with every output, and
\* although outputs are lost or overtaken, go stale, and meet a closed gate.
THEOREM OneTakeoff == HistorySpec => []OneTakeoffPerAttempt
<1>1. HistoryInit => TakeoffInv
  BY DEF HistoryInit, DroneInit, Init, GateInit, DefaultOutput, TakeoffInv,
         TakeoffsDue, Count, Heard, ToSet
<1>2. TypeInv /\ OutputInv /\ TakeoffInv /\ [HistoryNext]_hVars => TakeoffInv'
  BY TakeoffStep
<1>3. TakeoffInv => OneTakeoffPerAttempt
  BY DEF TakeoffInv, OneTakeoffPerAttempt
<1>4. QED
  BY <1>1, <1>2, <1>3, HistoryOfDrone, DroneKeepsTypeInv, DroneKeepsOutputInv,
     PTL
  DEF HistorySpec, hVars

-----------------------------------------------------------------------------
(* The landing that the mission commanded.                                 *)

\* Without overruns the nodes take turns: sensors, an output, IO's answer.
TakeTurns ==
  /\ sensors_topic # {} => output_topic = {} /\ acted
  /\ output_topic # {} => acted

JustLand == {"trigger_land"}

\* A landing that was heard, or that is in hand, was published by a loop that
\* has come no further than STANDBY; what follows it asks for nothing else.
LandingsAreRecent ==
  /\ "trigger_land" \in Heard /\ output_topic # {} =>
       /\ state \in {"LANDING", "STANDBY"}
       /\ output \subseteq JustLand
  /\ "trigger_land" \in ToSet(requests) =>
       /\ state \in {"LANDING", "STANDBY"}
       /\ sensors_topic # {} => "trigger_land" \in output
       /\ Heard \cup output \cup ToSet(requests) \subseteq JustLand

\* Once the landing was requested nothing else is on its way.
OnlyLandsAfter ==
  landing => /\ mission_commanded_land
             /\ Heard \cup output \cup ToSet(requests) \subseteq JustLand

LandInv == TakeTurns /\ LandingsAreRecent /\ OnlyLandsAfter

LEMMA TakeTurnsStep ==
  ASSUME ~Overruns, TakeTurns, [DroneNext]_droneVars
  PROVE  TakeTurns'
<1> USE DEF TakeTurns
<1>1. CASE WriterPublishes
  BY <1>1 DEF WriterPublishes
<1>2. CASE WriterSends
  BY <1>2 DEF WriterSends
<1>3. CASE LoopIterates
  BY <1>3 DEF LoopIterates
<1>4. CASE OutputArrives
  BY <1>4 DEF OutputArrives
<1>5. CASE UNCHANGED topicVars
  BY <1>5 DEF topicVars
<1>6. QED
  BY <1>1, <1>2, <1>3, <1>4, <1>5
  DEF DroneNext, WriterSamples, CallSucceeds, CallFails, ProgramArrives,
      RadioArrives, Silence, Vehicle, droneVars

\* A landing in force is left alone by the flight loop.
LEMMA BoundIteration ==
  ASSUME CommandedLandSticks, mission_commanded_land,
         NEW s, NEW dt, RunIteration(s, dt)
  PROVE  output' \subseteq JustLand /\ mission_commanded_land'
<1>1. state \in {"LANDING", "STANDBY"} /\ ~RunMission(s)
  BY DEF CommandedLandSticks, RunMission
<1>2. Standby(s, dt) \/ Landing(s, dt)
  BY <1>1
  DEF RunIteration, Arming, ArmedWaitForSpinup, TakingOff, TakenOff, Mission,
      SafetyPilotControl
<1>3. QED
  BY <1>1, <1>2
  DEF Standby, Landing, Enter, Remain, DefaultOutput, JustLand

LEMMA LandLoopStep ==
  ASSUME TypeInv, OutputInv, CommandedLandSticks, LandInv,
         LoopIterates, Record, ~Sends
  PROVE  LandingsAreRecent' /\ OnlyLandsAfter'
<1>1. PICK s \in sensors_topic, dt \in Steps : RunIteration(s, dt)
  BY DEF LoopIterates
<1>2. /\ UNCHANGED <<requests, gate_output>>
      /\ sensors_topic # {} /\ sensors_topic' = {}
  BY <1>1 DEF LoopIterates, gateVars
<1>3. Heard' = Heard /\ ToSet(requests') = ToSet(requests)
  BY <1>2 DEF Heard
<1>4. state = "LANDING" => /\ output' \subseteq JustLand
                           /\ state' \in {"LANDING", "STANDBY"}
  BY <1>1, IterationOutputs DEF JustLand
<1>5. "trigger_land" \in output => state = "LANDING"
  BY DEF OutputInv, RequestedByState
\* The output that is answered now is the one that was heard.
<1>6. Heard # {} => Heard = output
  BY <1>2 DEF LandInv, TakeTurns, OutputInv, NewestLast, Heard
<1>7. "trigger_land" \in Heard => /\ output' \subseteq JustLand
                                  /\ state' \in {"LANDING", "STANDBY"}
  BY <1>4, <1>5, <1>6
<1>8. LandingsAreRecent'
  BY <1>2, <1>3, <1>4, <1>5, <1>7 DEF LandInv, LandingsAreRecent
<1>9. OnlyLandsAfter'
  <2>1. landing' => landing /\ mission_commanded_land'
    BY DEF Record
  <2>2. landing => output' \subseteq JustLand
    BY <1>1, BoundIteration DEF LandInv, OnlyLandsAfter
  <2>3. QED
    BY <1>3, <2>1, <2>2 DEF LandInv, OnlyLandsAfter
<1>10. QED
  BY <1>8, <1>9

LEMMA LandStep ==
  ASSUME ~Overruns, TypeInv, OutputInv, CommandedLandSticks, LandInv,
         [HistoryNext]_hVars
  PROVE  LandInv'
<1>1. TakeTurns'
  BY TakeTurnsStep DEF LandInv, hVars, HistoryNext
<1>2. requests \in Seq(Requests)
  BY DEF TypeInv, DroneTypeOK, GateTypeOK
<1>3. "trigger_land" \in Heard => Heard \subseteq JustLand
  BY DEF OutputInv, OneShape, JustLand
<1>4. SUFFICES LandingsAreRecent' /\ OnlyLandsAfter'
  BY <1>1 DEF LandInv
<1> USE DEF LandInv, LandingsAreRecent, OnlyLandsAfter
<1>5. CASE UNCHANGED hVars
  BY <1>5
  DEF hVars, historyVars, droneVars, vars, gateVars, topicVars, Heard
<1>6. CASE HistoryNext /\ Sends /\ Answered /\ requests # <<>>
             /\ requests' = Tail(requests) /\ UNCHANGED <<vars, topicVars>>
  <2>1. /\ ToSet(requests') \subseteq ToSet(requests)
        /\ Head(requests) \in ToSet(requests)
    BY <1>2, <1>6, Tails
  <2>2. /\ UNCHANGED <<state, output, mission_commanded_land, gate_output,
                       sensors_topic, output_topic>>
        /\ landing' = (mission_commanded_land /\
                         (landing \/ Head(requests) = "trigger_land"))
    BY <1>6 DEF vars, topicVars, Answered, HistoryNext, Record
  <2>3. Heard' = Heard
    BY <2>2 DEF Heard
  <2>4. QED
    BY <2>1, <2>2, <2>3
<1>7. CASE HistoryNext /\ ~Sends /\ WriterSends /\ writer = "send"
  <2>1. UNCHANGED <<state, output, mission_commanded_land, gate_output,
                    sensors_topic, output_topic>>
    BY <1>7 DEF WriterSends, Send, vars
  <2>2. Heard' = Heard
    BY <2>1 DEF Heard
  <2>3. landing' => landing
    BY <1>7 DEF HistoryNext, Record
  <2>4. ToSet(requests') \subseteq Heard
    <3>1. CASE GateOpen /\ requests' = Rising(gate_output.fields)
      <4>1. gate_output.fields = Heard
        BY <3>1 DEF GateOpen, TypeInv, DroneTypeOK, GateTypeOK, Heard
      <4>2. QED
        BY <3>1, <4>1, RisingIs
    <3>2. CASE requests' = <<>>
      BY <3>2, SingleRequests
    <3>3. QED
      BY <1>7, <3>1, <3>2 DEF WriterSends, Send, Proceed
  <2>5. "trigger_land" \in Heard =>
          /\ state \in {"LANDING", "STANDBY"}
          /\ sensors_topic # {} => "trigger_land" \in output
          /\ Heard \cup output \subseteq JustLand
    <3>1. CASE output_topic = {}
      BY <1>3, <3>1 DEF OutputInv, NewestLast, RequestedByState, Heard
    <3>2. CASE output_topic # {}
      BY <1>3, <3>2 DEF TakeTurns
    <3>3. QED
      BY <3>1, <3>2
  <2>6. QED
    BY <2>1, <2>2, <2>3, <2>4, <2>5
<1>8. CASE HistoryNext /\ ~Sends /\ requests' = requests
             /\ ~WriterSends /\ ~CallSucceeds /\ ~CallFails
  <2>1. /\ ToSet(requests') = ToSet(requests)
        /\ landing' => landing /\ mission_commanded_land'
    BY <1>8 DEF HistoryNext, Record
  <2>2. CASE LoopIterates
    BY <1>8, <2>2, LandLoopStep DEF HistoryNext
  <2>3. CASE OutputArrives
    <3>1. PICK out \in output_topic : OutputReceived(out)
      BY <2>3 DEF OutputArrives
    <3>2. Heard' = output
      BY <3>1, DroneAssumptionsHold
      DEF OutputInv, NewestLast, TypeInv, DroneTypeOK, DroneAssumptions,
          DroneAssumption, OutputReceived, Heard
    <3>3. UNCHANGED <<state, output, mission_commanded_land, sensors_topic>>
            /\ output_topic' = {}
      BY <2>3 DEF OutputArrives, vars
    <3>4. QED
      BY <2>1, <3>2, <3>3
  <2>4. CASE WriterPublishes
    <3>1. /\ UNCHANGED <<state, output, mission_commanded_land, gate_output,
                         output_topic>>
          /\ requests = <<>>
      BY <2>4
      DEF WriterPublishes, Sample, vars, TypeInv, CallsWhileRequests
    <3>2. Heard' = Heard /\ ToSet(requests) = {}
      BY <3>1, SingleRequests DEF Heard
    <3>3. QED
      BY <2>1, <3>1, <3>2
  <2>5. CASE ~LoopIterates /\ ~OutputArrives /\ ~WriterPublishes
    <3>1. UNCHANGED <<state, output, gate_output, sensors_topic,
                      output_topic>>
      BY <1>8, <2>5
      DEF HistoryNext, DroneNext, WriterSamples, Sample, ProgramArrives,
          DroneProgramReceived, RadioArrives, RcInReceived, Silence, RcLost,
          OutputExpires, Vehicle, gateVars, topicVars, vars
    <3>2. Heard' = Heard
      BY <3>1 DEF Heard
    <3>3. QED
      BY <2>1, <3>1, <3>2
  <2>6. QED
    BY <2>2, <2>3, <2>4, <2>5
<1>9. QED
  BY <1>5, <1>6, <1>7, <1>8, SendsAre DEF HistoryNext

\* After the landing that the mission commanded was requested, IO requests
\* nothing but a landing before a new program arrives, for every program and
\* with outages, failing calls and a safety pilot who interferes; as long as IO
\* publishes sensors only after it acted on the answer to the last ones.
THEOREM LandingStays ==
  ASSUME ~Overruns
  PROVE  HistorySpec => []LandingIsNotUndone
<1>1. HistoryInit => LandInv
  BY DEF HistoryInit, DroneInit, Init, GateInit, DefaultOutput, LandInv,
         TakeTurns, LandingsAreRecent, OnlyLandsAfter, Heard, ToSet
<1>2. TypeInv /\ OutputInv /\ CommandedLandSticks /\ LandInv
        /\ [HistoryNext]_hVars
      => LandInv'
  BY LandStep
<1>3. LandInv => LandingIsNotUndone
  BY DEF LandInv, OnlyLandsAfter, JustLand, LandingIsNotUndone
<1>4. DroneSpec => []CommandedLandSticks
  BY DroneRunsFlightLoop, LandingSticks, PTL
<1>5. QED
  BY <1>1, <1>2, <1>3, <1>4, HistoryOfDrone, DroneKeepsTypeInv,
     DroneKeepsOutputInv, PTL
  DEF HistorySpec, hVars

-----------------------------------------------------------------------------
(* The deployment state machine.                                           *)

\* While the line is cut, the timer has counted every heated iteration.
HeatIsTimed ==
  IF deployment_state = "CUT_LINE"
  THEN hot_for <= deployment_timer ELSE hot_for <= kMaxHotwireTime + 1

\* While the latch opens, the timer has counted no more than the triggered
\* iterations; past that state the motor may run.
TriggerIsTimed ==
  /\ deployment_state = "UNLATCHING" => deployment_timer <= triggered_for
  /\ deployment_state \in {"MOTOR_ASSISTED_DEPLOYMENT", "CUT_LINE"} =>
       triggered_for > kWaitTimeAfterUnlatch

\* The inductive invariant.
DInv ==
  /\ DeploymentTypeOK
  /\ hot_for \in Nat
  /\ triggered_for \in Nat
  /\ HeatIsTimed
  /\ TriggerIsTimed
  /\ MotorAfterUnlatch

-----------------------------------------------------------------------------
(* What an iteration does to each part of the invariant, handler by handler. *)

LEMMA OutputTyped ==
  ASSUME NEW input \in Inputs, RunDeployment(input)
  PROVE  /\ motor' \in Directions
         /\ latch_closed' \in BOOLEAN
         /\ hotwire' \in BOOLEAN
         /\ end_drop' \in BOOLEAN
<1> USE DEF Inputs, Write, Directions
<1>1. CASE Latched(input)
  BY <1>1 DEF Latched
<1>2. CASE Unlatching(input)
  BY <1>2 DEF Unlatching
<1>3. CASE MotorAssistedDeployment(input)
  BY <1>3 DEF MotorAssistedDeployment
<1>4. CASE CutLine(input)
  BY <1>4 DEF CutLine
<1>5. CASE EndDrop(input)
  BY <1>5 DEF EndDrop
<1> QED
  BY <1>1, <1>2, <1>3, <1>4, <1>5 DEF RunDeployment

\* What the handler of CUT_LINE may choose.
LEMMA CutLineChoices ==
  ASSUME DInv, NEW input \in Inputs, CutLine(input)
  PROVE  /\ deployment_state = "CUT_LINE"
         /\ \/ Choose(input, "MOTOR_ASSISTED_DEPLOYMENT", 0)
            \/ /\ deployment_timer <= kMaxHotwireTime
               /\ Choose(input, "CUT_LINE", deployment_timer + 1)
            \/ Choose(input, "END_DROP", 0)
<1>1. /\ deployment_timer \in Nat
      /\ ~TimerComplete(kMaxHotwireTime) =>
           deployment_timer <= kMaxHotwireTime
  BY DeploymentAssumption DEF DInv, DeploymentTypeOK, TimerComplete
<1> QED
  BY <1>1, Zenon DEF CutLine

LEMMA TimerTyped ==
  ASSUME DInv, NEW input \in Inputs, RunDeployment(input)
  PROVE  /\ deployment_state' \in DeploymentStates
         /\ deployment_timer' \in Nat
         /\ TimerStops'
<1> USE DeploymentAssumption
    DEF DInv, DeploymentTypeOK, TimerStops, DeploymentStates, Inputs,
        Directions, Choose, TimerComplete
<1>1. CASE Latched(input)
  BY <1>1 DEF Latched
<1>2. CASE Unlatching(input)
  BY <1>2 DEF Unlatching
<1>3. CASE MotorAssistedDeployment(input)
  <2>1. /\ deployment_state = "MOTOR_ASSISTED_DEPLOYMENT"
        /\ \/ Choose(input, "CUT_LINE", 0)
           \/ Choose(input, "MOTOR_ASSISTED_DEPLOYMENT", deployment_timer)
    BY <1>3 DEF MotorAssistedDeployment
  <2> QED
    BY <2>1
<1>4. CASE CutLine(input)
  <2>1. /\ deployment_state = "CUT_LINE"
        /\ \/ Choose(input, "MOTOR_ASSISTED_DEPLOYMENT", 0)
           \/ /\ deployment_timer <= kMaxHotwireTime
              /\ Choose(input, "CUT_LINE", deployment_timer + 1)
           \/ Choose(input, "END_DROP", 0)
    BY <1>4, CutLineChoices
  <2>2. CASE Choose(input, "MOTOR_ASSISTED_DEPLOYMENT", 0)
    BY <2>2
  <2>3. CASE /\ deployment_timer <= kMaxHotwireTime
             /\ Choose(input, "CUT_LINE", deployment_timer + 1)
    BY <2>1, <2>3
  <2>4. CASE Choose(input, "END_DROP", 0)
    BY <2>4
  <2> QED
    BY <2>1, <2>2, <2>3, <2>4
<1>5. CASE EndDrop(input)
  BY <1>5 DEF EndDrop
<1> QED
  BY <1>1, <1>2, <1>3, <1>4, <1>5 DEF RunDeployment

LEMMA HeatCounted ==
  ASSUME DInv, NEW input \in Inputs, RunDeployment(input), Measure(input)
  PROVE  hot_for' \in Nat /\ HeatIsTimed'
<1> USE DeploymentAssumption
    DEF DInv, DeploymentTypeOK, TimerStops, HeatIsTimed, Inputs, Measure,
        Choose, Write, TimerComplete
<1>1. CASE Latched(input)
  BY <1>1 DEF Latched
<1>2. CASE Unlatching(input)
  BY <1>2 DEF Unlatching
<1>3. CASE MotorAssistedDeployment(input)
  BY <1>3 DEF MotorAssistedDeployment
<1>4. CASE CutLine(input)
  BY <1>4 DEF CutLine
<1>5. CASE EndDrop(input)
  BY <1>5 DEF EndDrop
<1> QED
  BY <1>1, <1>2, <1>3, <1>4, <1>5 DEF RunDeployment

LEMMA TriggerCounted ==
  ASSUME DInv, NEW input \in Inputs, RunDeployment(input), Measure(input)
  PROVE  triggered_for' \in Nat /\ TriggerIsTimed' /\ MotorAfterUnlatch'
<1> USE DeploymentAssumption
    DEF DInv, DeploymentTypeOK, TimerStops, TriggerIsTimed, Inputs,
        MotorAfterUnlatch, Measure, Choose, Write, TimerComplete, Directions
<1>1. CASE Latched(input)
  BY <1>1 DEF Latched
<1>2. CASE Unlatching(input)
  BY <1>2 DEF Unlatching
<1>3. CASE MotorAssistedDeployment(input)
  BY <1>3 DEF MotorAssistedDeployment
<1>4. CASE CutLine(input)
  BY <1>4 DEF CutLine
<1>5. CASE EndDrop(input)
  BY <1>5 DEF EndDrop
<1> QED
  BY <1>1, <1>2, <1>3, <1>4, <1>5 DEF RunDeployment

LEMMA DInvInitially ==
  ASSUME TimedDeploymentInit
  PROVE  DInv
<1> USE DEF TimedDeploymentInit, DeploymentInit
<1>1. DeploymentTypeOK
  <2>1. TimerStops
    BY DeploymentAssumption DEF TimerStops
  <2> QED
    BY <2>1 DEF DeploymentTypeOK, DeploymentStates, Directions
<1>2. HeatIsTimed /\ TriggerIsTimed /\ MotorAfterUnlatch
  BY DeploymentAssumption
  DEF HeatIsTimed, TriggerIsTimed, MotorAfterUnlatch
<1> QED
  BY <1>1, <1>2 DEF DInv

LEMMA DInvHolds == TimedDeploymentSpec => []DInv
<1>1. TimedDeploymentInit => DInv
  BY DInvInitially
<1>2. DInv /\ [TimedDeploymentNext]_<<deploymentVars, measureVars>> => DInv'
  <2> SUFFICES ASSUME DInv,
                      [TimedDeploymentNext]_<<deploymentVars, measureVars>>
               PROVE  DInv'
    OBVIOUS
  <2>1. CASE TimedDeploymentNext
    BY <2>1, OutputTyped, TimerTyped, HeatCounted, TriggerCounted
    DEF TimedDeploymentNext, DInv, DeploymentTypeOK
  <2>2. CASE UNCHANGED <<deploymentVars, measureVars>>
    BY <2>2
    DEF deploymentVars, measureVars, outputVars, DInv, DeploymentTypeOK,
        TimerStops, HeatIsTimed, TriggerIsTimed, MotorAfterUnlatch
  <2> QED
    BY <2>1, <2>2
<1> QED
  BY <1>1, <1>2, PTL DEF TimedDeploymentSpec

-----------------------------------------------------------------------------

\* The deployment's variables keep their types and its timer its bounds
\* (Deployment::RunIteration).
THEOREM DeploymentTypeCorrect == TimedDeploymentSpec => []DeploymentTypeOK
<1>1. DInv => DeploymentTypeOK
  BY DEF DInv
<1> QED
  BY <1>1, DInvHolds, PTL

\* The hotwire's time limit holds for every limit and every sequence of
\* inputs (deployment.cc:85).
THEOREM HotwireIsBounded == TimedDeploymentSpec => []HotwireBounded
<1>1. DInv => HotwireBounded
  BY DeploymentAssumption
  DEF DInv, DeploymentTypeOK, TimerStops, HeatIsTimed, HotwireBounded
<1> QED
  BY <1>1, DInvHolds, PTL

\* The motor waits for the latch, for every waiting time and every sequence
\* of inputs (deployment.cc:42).
THEOREM MotorWaitsForLatch == TimedDeploymentSpec => []MotorAfterUnlatch
<1>1. DInv => MotorAfterUnlatch
  BY DEF DInv
<1> QED
  BY <1>1, DInvHolds, PTL

-----------------------------------------------------------------------------
(* The drop around it.                                                     *)

\* What a field may hold, and what may be stored.
Values(field) == IF field = "direction" THEN Directions ELSE BOOLEAN
Storings ==
  {Set("direction", d) : d \in Directions}
    \cup {Set(f, b) : f \in {"latch", "cut", "cancel"}, b \in BOOLEAN}

ReadsTyped ==
  /\ reads \in Seq(BOOLEAN \cup Directions)
  /\ Len(reads) <= Len(ReadOrder)
  /\ \A i \in 1 .. Len(reads) : reads[i] \in Values(ReadOrder[i])

\* How far a cancellation has come: the first iteration that ends may have
\* read the old value, but none of the next ones; the second one leaves the
\* state and the third one writes the output of END_DROP.
CancelProgresses ==
  /\ cancelled_for \in 0 .. 3
  /\ ~inputs.cancel => cancelled_for = 0
  /\ cancelled_for >= 1 /\ Len(reads) = 4 => reads[4] = TRUE
  /\ cancelled_for >= 2 => deployment_state = "END_DROP"
  /\ CancelStops

\* The inductive invariant.
DropInv ==
  /\ DInv
  /\ DropTypeOK
  /\ ReadsTyped
  /\ CancelProgresses

-----------------------------------------------------------------------------
(* The callback's stores.                                                  *)

LEMMA StoresTyped ==
  ASSUME NEW command \in DOMAIN Stores
  PROVE  /\ Stores[command] \in Seq(Storings)
         /\ Len(Stores[command]) \in {1, 2}
<1>1. \A a, b \in Storings :
        /\ <<a>> \in Seq(Storings) /\ Len(<<a>>) = 1
        /\ <<a, b>> \in Seq(Storings) /\ Len(<<a, b>>) = 2
  OBVIOUS
<1>2. /\ \A d \in {-1, 0, 1} : Set("direction", d) \in Storings
      /\ \A f \in {"latch", "cut", "cancel"}, b \in BOOLEAN :
           Set(f, b) \in Storings
  BY DEF Storings, Directions
<1>3. \/ \E a \in Storings : Stores[command] = <<a>>
      \/ \E a, b \in Storings : Stores[command] = <<a, b>>
  <2>1. \/ Stores[command] = <<Set("latch", FALSE), Set("direction", 1)>>
        \/ Stores[command] = <<Set("direction", 0), Set("cut", TRUE)>>
        \/ Stores[command] = <<Set("direction", -1)>>
        \/ Stores[command] = <<Set("direction", 1)>>
        \/ Stores[command] = <<Set("direction", 0)>>
        \/ Stores[command] = <<Set("cancel", TRUE)>>
        \/ Stores[command] = <<Set("latch", TRUE), Set("cancel", FALSE)>>
        \/ Stores[command] = <<Set("cut", FALSE)>>
    <3>1. command \in {"START_DROP", "CUT_LINE", "MOTOR_UP", "MOTOR_DOWN",
                       "MOTOR_STOP", "CANCEL_DROP", "RESET_LATCH", "STOP_CUT"}
      BY DEF Stores
    <3>2. /\ Stores["START_DROP"] = <<Set("latch", FALSE), Set("direction", 1)>>
          /\ Stores["CUT_LINE"] = <<Set("direction", 0), Set("cut", TRUE)>>
          /\ Stores["MOTOR_UP"] = <<Set("direction", -1)>>
          /\ Stores["MOTOR_DOWN"] = <<Set("direction", 1)>>
          /\ Stores["MOTOR_STOP"] = <<Set("direction", 0)>>
          /\ Stores["CANCEL_DROP"] = <<Set("cancel", TRUE)>>
          /\ Stores["RESET_LATCH"] =
               <<Set("latch", TRUE), Set("cancel", FALSE)>>
          /\ Stores["STOP_CUT"] = <<Set("cut", FALSE)>>
      BY DEF Stores
    <3> QED
      BY <3>1, <3>2
  <2> QED
    BY <1>2, <2>1
<1> QED
  BY <1>1, <1>3

\* A store keeps the inputs in their types.
LEMMA StoreTyped ==
  ASSUME inputs \in Inputs, NEW store \in Storings
  PROVE  [inputs EXCEPT ![store.field] = store.value] \in Inputs
  BY DEF Inputs, Storings, Set

\* The stores that a callback still has to do are typed, and so are those that
\* remain after the first of them.
LEMMA WritesShrink ==
  ASSUME DropTypeOK, writes # <<>>
  PROVE  /\ Head(writes) \in Storings
         /\ \/ Tail(writes) = <<>>
            \/ \E command \in DOMAIN Stores :
                 \E i \in 1 .. Len(Stores[command]) :
                   Tail(writes) =
                     SubSeq(Stores[command], i, Len(Stores[command]))
<1>1. PICK command \in DOMAIN Stores : \E i \in 1 .. Len(Stores[command]) :
        writes = SubSeq(Stores[command], i, Len(Stores[command]))
  BY DEF DropTypeOK
<1> DEFINE stores == Stores[command]
<1>2. stores \in Seq(Storings) /\ Len(stores) \in {1, 2}
  BY StoresTyped
<1> HIDE DEF stores
<1>3. PICK i \in 1 .. Len(stores) : writes = SubSeq(stores, i, Len(stores))
  BY <1>1 DEF stores
<1>4. /\ Head(writes) = stores[i]
      /\ Tail(writes) = SubSeq(stores, i + 1, Len(stores))
  BY <1>2, <1>3, HeadTailOfSubSeq
<1>5. Head(writes) \in Storings
  BY <1>2, <1>4, ElementOfSeq
<1>6. CASE i < Len(stores)
  <2>1. i + 1 \in 1 .. Len(stores)
    BY <1>2, <1>6
  <2> QED
    BY <1>4, <1>5, <2>1 DEF stores
<1>7. CASE i = Len(stores)
  <2>1. Tail(writes) = <<>>
    BY <1>2, <1>4, <1>7, SubSeqEmpty
  <2> QED
    BY <1>5, <2>1
<1> QED
  BY <1>2, <1>6, <1>7

\* A command that is received has all of its stores to do.
LEMMA CommandTyped ==
  ASSUME NEW command \in DOMAIN Stores
  PROVE  \E i \in 1 .. Len(Stores[command]) :
           Stores[command] = SubSeq(Stores[command], i, Len(Stores[command]))
<1> DEFINE stores == Stores[command]
<1>1. stores \in Seq(Storings) /\ Len(stores) \in {1, 2}
  BY StoresTyped
<1> HIDE DEF stores
<1>2. 1 \in 1 .. Len(stores)
  BY <1>1
<1>3. stores = SubSeq(stores, 1, Len(stores))
  BY <1>1, SubSeqFull
<1> QED
  BY <1>2, <1>3 DEF stores

-----------------------------------------------------------------------------
(* The writer thread's loads.                                              *)

\* The next load yields a value of its field.
LEMMA ReadTyped ==
  ASSUME inputs \in Inputs, NEW i \in 1 .. 4
  PROVE  inputs[ReadOrder[i]] \in Values(ReadOrder[i])
  BY DEF Inputs, ReadOrder, Values

\* What was loaded, once it is complete, is an input of the deployment.
LEMMA ReadsAreInput ==
  ASSUME ReadsTyped, Len(reads) = 4
  PROVE  /\ reads[1] \in BOOLEAN /\ reads[2] \in Directions
         /\ reads[3] \in BOOLEAN /\ reads[4] \in BOOLEAN
  BY DEF ReadsTyped, ReadOrder, Values

-----------------------------------------------------------------------------
(* What each step does to the invariant.                                   *)

LEMMA ReceivePreserves ==
  ASSUME DropInv, NEW command \in DOMAIN Stores,
         DroppyCommandReceived(command)
  PROVE  DropInv'
<1>1. DInv' /\ ReadsTyped' /\ CancelProgresses'
  BY DEF DropInv, DroppyCommandReceived, deploymentVars, measureVars,
         outputVars, DInv, DeploymentTypeOK, TimerStops, HeatIsTimed,
         TriggerIsTimed, MotorAfterUnlatch, ReadsTyped, CancelProgresses,
         CancelStops
<1>2. DropTypeOK'
  BY <1>1, CommandTyped DEF DropInv, DropTypeOK, DroppyCommandReceived, DInv
<1> QED
  BY <1>1, <1>2 DEF DropInv

LEMMA StorePreserves ==
  ASSUME DropInv, Store
  PROVE  DropInv'
<1>1. DInv' /\ ReadsTyped'
  BY DEF DropInv, Store, deploymentVars, measureVars, outputVars, DInv,
         DeploymentTypeOK, TimerStops, HeatIsTimed, TriggerIsTimed,
         MotorAfterUnlatch, ReadsTyped
<1>2. inputs' \in Inputs
  BY WritesShrink, StoreTyped DEF DropInv, DropTypeOK, Store
<1>3. DropTypeOK'
  <2>1. writes' = Tail(writes) /\ reads' = reads
    BY DEF Store
  <2>2. \/ writes' = <<>>
        \/ \E command \in DOMAIN Stores :
             \E i \in 1 .. Len(Stores[command]) :
               writes' = SubSeq(Stores[command], i, Len(Stores[command]))
    BY <2>1, WritesShrink DEF DropInv, Store
  <2> QED
    BY <1>1, <1>2, <2>1, <2>2 DEF DropInv, DropTypeOK, DInv
<1>4. CancelProgresses'
  <2>1. /\ cancelled_for' \in {0, cancelled_for}
        /\ ~inputs'.cancel => cancelled_for' = 0
        /\ UNCHANGED <<deployment_state, motor, hotwire, end_drop, reads>>
    BY DEF Store, deploymentVars, outputVars
  <2> QED
    BY <2>1 DEF DropInv, CancelProgresses, CancelStops
<1> QED
  BY <1>1, <1>3, <1>4 DEF DropInv

LEMMA ReadPreserves ==
  ASSUME DropInv, Read
  PROVE  DropInv'
<1>1. DInv' /\ inputs' \in Inputs
  BY DEF DropInv, Read, deploymentVars, measureVars, outputVars, DInv,
         DropTypeOK, DeploymentTypeOK, TimerStops, HeatIsTimed,
         TriggerIsTimed, MotorAfterUnlatch
<1> DEFINE n == Len(reads)
           value == inputs[ReadOrder[n + 1]]
<1>2. /\ reads \in Seq(BOOLEAN \cup Directions) /\ n \in 0 .. 3
      /\ reads' = Append(reads, value)
  <2>1. Len(ReadOrder) = 4
    BY DEF ReadOrder
  <2>2. /\ reads \in Seq(BOOLEAN \cup Directions)
        /\ n < 4 /\ reads' = Append(reads, value)
    BY <2>1 DEF DropInv, ReadsTyped, Read
  <2>3. n \in 0 .. 3
    <3>1. n \in Nat
      BY <2>2, LenProperties
    <3>2. \A k \in Nat : k < 4 => k \in 0 .. 3
      OBVIOUS
    <3> HIDE DEF n
    <3> QED
      BY <2>2, <3>1, <3>2
  <2> QED
    BY <2>2, <2>3
<1>3. value \in Values(ReadOrder[n + 1]) /\ value \in BOOLEAN \cup Directions
  <2>1. n + 1 \in 1 .. 4 /\ inputs \in Inputs
    BY <1>2 DEF DropInv, DropTypeOK
  <2>2. value \in Values(ReadOrder[n + 1])
    BY <2>1, ReadTyped
  <2> QED
    BY <2>2 DEF Values
<1> HIDE DEF value
<1>4. /\ reads' \in Seq(BOOLEAN \cup Directions)
      /\ Len(reads') = n + 1
      /\ reads'[n + 1] = value
      /\ \A i \in 1 .. n : reads'[i] = reads[i]
  BY <1>2, <1>3
<1>5. ReadsTyped'
  <2>1. \A i \in 1 .. Len(reads') : reads'[i] \in Values(ReadOrder[i])
    BY <1>2, <1>3, <1>4 DEF DropInv, ReadsTyped
  <2> QED
    BY <1>2, <1>4, <2>1 DEF ReadsTyped, ReadOrder
<1>6. DropTypeOK'
  BY <1>1, <1>5 DEF DropInv, DropTypeOK, DInv, ReadsTyped, Read
<1>7. CancelProgresses'
  <2>1. UNCHANGED <<inputs, cancelled_for, deployment_state, motor, hotwire,
                    end_drop>>
    BY DEF Read, deploymentVars, outputVars
  <2>2. cancelled_for >= 1 /\ Len(reads') = 4 => reads'[4] = TRUE
    <3> SUFFICES ASSUME cancelled_for >= 1, Len(reads') = 4
                 PROVE  reads'[4] = TRUE
      OBVIOUS
    <3>1. n + 1 = 4
      BY <1>2, <1>4
    <3>2. value = inputs["cancel"]
      BY <3>1 DEF value, ReadOrder
    <3>3. inputs.cancel = TRUE
      BY DEF DropInv, CancelProgresses, DropTypeOK, Inputs
    <3> QED
      BY <1>4, <3>1, <3>2, <3>3
  <2> QED
    BY <2>1, <2>2 DEF DropInv, CancelProgresses, CancelStops
<1> QED
  BY <1>1, <1>5, <1>6, <1>7 DEF DropInv

\* A cancelled input ends the drop, and in END_DROP everything is off.
LEMMA CancelEnds ==
  ASSUME NEW input, RunDeployment(input)
  PROVE  /\ input.cancel => deployment_state' = "END_DROP"
         /\ deployment_state = "END_DROP" =>
              motor' = 0 /\ ~hotwire' /\ end_drop'
<1> USE DEF Choose, Write
<1>1. CASE Latched(input)
  BY <1>1 DEF Latched
<1>2. CASE Unlatching(input)
  BY <1>2 DEF Unlatching
<1>3. CASE MotorAssistedDeployment(input)
  BY <1>3 DEF MotorAssistedDeployment
<1>4. CASE CutLine(input)
  BY <1>4 DEF CutLine
<1>5. CASE EndDrop(input)
  BY <1>5 DEF EndDrop
<1> QED
  BY <1>1, <1>2, <1>3, <1>4, <1>5 DEF RunDeployment

LEMMA IteratePreserves ==
  ASSUME DropInv, Iterate
  PROVE  DropInv' /\ TimedDeploymentNext
<1> DEFINE input == [latch |-> reads[1], direction |-> reads[2],
                     cut |-> reads[3], cancel |-> reads[4]]
<1>1. Len(reads) = 4 /\ RunDeployment(input) /\ Measure(input)
  BY DEF Iterate, ReadOrder
<1>2. input \in Inputs /\ input.cancel = reads[4]
  BY <1>1, ReadsAreInput DEF DropInv, Inputs
<1> HIDE DEF input
<1>3. TimedDeploymentNext
  BY <1>1, <1>2 DEF TimedDeploymentNext
<1>4. DInv'
  BY <1>1, <1>2, OutputTyped, TimerTyped, HeatCounted, TriggerCounted
  DEF DropInv, DInv, DeploymentTypeOK
<1>5. /\ reads' = <<>> /\ UNCHANGED <<inputs, writes>>
      /\ cancelled_for' = IF inputs.cancel /\ cancelled_for < 3
                          THEN cancelled_for + 1 ELSE cancelled_for
  BY DEF Iterate
<1>6. ReadsTyped'
  BY <1>5 DEF ReadsTyped, ReadOrder
<1>7. DropTypeOK'
  BY <1>4, <1>5 DEF DropInv, DropTypeOK, DInv, ReadOrder
<1>8. CancelProgresses'
  <2>1. /\ cancelled_for \in 0 .. 3
        /\ cancelled_for >= 1 => input.cancel
        /\ cancelled_for >= 2 => deployment_state = "END_DROP"
        /\ ~inputs.cancel => cancelled_for = 0
    BY <1>1, <1>2 DEF DropInv, CancelProgresses
  <2>2. /\ cancelled_for' \in 0 .. 3
        /\ cancelled_for' >= 2 => cancelled_for >= 1
        /\ cancelled_for' = 3 => cancelled_for >= 2
        /\ ~inputs'.cancel => cancelled_for' = 0
    BY <1>5, <2>1
  <2>3. /\ cancelled_for' >= 2 => deployment_state' = "END_DROP"
        /\ cancelled_for' = 3 => motor' = 0 /\ ~hotwire' /\ end_drop'
    BY <1>1, <2>1, <2>2, CancelEnds
  <2> QED
    BY <1>5, <2>2, <2>3 DEF CancelProgresses, CancelStops
<1> QED
  BY <1>3, <1>4, <1>6, <1>7, <1>8 DEF DropInv

LEMMA DropInvHolds == DropSpec => []DropInv
<1>1. DropInit => DropInv
  <2> SUFFICES ASSUME DropInit
               PROVE  DropInv
    OBVIOUS
  <2>1. DInv
    BY DInvInitially DEF DropInit
  <2>2. /\ inputs \in Inputs /\ writes = <<>> /\ reads = <<>>
        /\ cancelled_for = 0
    BY DEF DropInit, Inputs, Directions
  <2>3. DropTypeOK /\ ReadsTyped
    BY <2>1, <2>2 DEF DInv, DropTypeOK, ReadsTyped, ReadOrder
  <2>4. CancelProgresses
    BY <2>2 DEF CancelProgresses, CancelStops
  <2> QED
    BY <2>1, <2>3, <2>4 DEF DropInv
<1>2. DropInv /\ [DropNext]_dropVars => DropInv'
  <2> SUFFICES ASSUME DropInv, [DropNext]_dropVars
               PROVE  DropInv'
    OBVIOUS
  <2>1. CASE DropNext
    BY <2>1, ReceivePreserves, StorePreserves, ReadPreserves,
       IteratePreserves DEF DropNext
  <2>2. CASE UNCHANGED dropVars
    BY <2>2
    DEF dropVars, deploymentVars, measureVars, outputVars, DropInv, DInv,
        DropTypeOK, ReadsTyped, CancelProgresses, CancelStops,
        DeploymentTypeOK, TimerStops, HeatIsTimed, TriggerIsTimed,
        MotorAfterUnlatch
  <2> QED
    BY <2>1, <2>2
<1> QED
  BY <1>1, <1>2, PTL DEF DropSpec

-----------------------------------------------------------------------------

\* The deployment and the atomics keep their types, and the callback is always
\* in the midst of one command's stores (IO::DroppyCommandReceived).
THEOREM DropTypeCorrect == DropSpec => []DropTypeOK
<1>1. DropInv => DropTypeOK
  BY DEF DropInv
<1> QED
  BY <1>1, DropInvHolds, PTL

\* CANCEL_DROP stops the motor and the hotwire by the third iteration that
\* ends, whatever stores and loads interleave (io.cc:165, deployment.cc:100).
THEOREM CancelAlwaysStops == DropSpec => []CancelStops
<1>1. DropInv => CancelStops
  BY DEF DropInv, CancelProgresses
<1> QED
  BY <1>1, DropInvHolds, PTL

\* The four loads, however they interleave with the stores, give the
\* deployment one of its inputs: what is proved of the deployment for every
\* sequence of inputs holds of the drop (IO::WriterThread).
THEOREM DropImplementsDeployment == DropSpec => TimedDeploymentSpec
<1>1. DropInit => TimedDeploymentInit
  BY DEF DropInit
<1>2. DropInv /\ [DropNext]_dropVars
        => [TimedDeploymentNext]_<<deploymentVars, measureVars>>
  <2> SUFFICES ASSUME DropInv, [DropNext]_dropVars
               PROVE  [TimedDeploymentNext]_<<deploymentVars, measureVars>>
    OBVIOUS
  <2>1. CASE Iterate
    BY <2>1, IteratePreserves
  <2>2. CASE \/ \E command \in DOMAIN Stores : DroppyCommandReceived(command)
             \/ Store \/ Read \/ UNCHANGED dropVars
    BY <2>2 DEF DroppyCommandReceived, Store, Read, dropVars
  <2> QED
    BY <2>1, <2>2 DEF DropNext
<1> QED
  BY <1>1, <1>2, DropInvHolds, PTL DEF DropSpec, TimedDeploymentSpec

\* With it, the limits of the deployment hold of the drop.
COROLLARY DropIsSafe == DropSpec => [](HotwireBounded /\ MotorAfterUnlatch)
  BY DropImplementsDeployment, HotwireIsBounded, MotorWaitsForLatch, PTL
=============================================================================
