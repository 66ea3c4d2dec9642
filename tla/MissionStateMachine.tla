------------------------ MODULE MissionStateMachine ------------------------
(***************************************************************************)
(* The executor of drone programs: a DroneProgram, the list of commands    *)
(* the ground compiled, is worked off one command at a time               *)
(* (src/controls/flight_loop/mission_state_machine.cc).                    *)
(*                                                                         *)
(* The flight loop calls Handle once per sensors message while it is in    *)
(* its MISSION state, and LoadMission when a program arrives; both run in  *)
(* the flight loop's single ROS thread, so each is one action.             *)
(*                                                                         *)
(* Positions are abstracted to Places: a drone within kAcceptanceRadius of *)
(* a setpoint is in the setpoint's place.  A timer (start_, was_reset_) is *)
(* kept as the time elapsed since start_, or NotStarted while was_reset_   *)
(* holds: the code uses start_ only in sensors.time() - start_.            *)
(***************************************************************************)
EXTENDS Integers, Sequences

CONSTANTS
  Places,        \* positions the tests for arrival tell apart
  SleepPeriods,  \* periods a SleepCommand may ask for
  Programs,      \* drone programs the ground may upload
  AgeCap         \* elapsed times above AgeCap are all alike (a bound)

Commands == [type : {"translate"}, goal : Places]
              \cup [type : {"sleep"}, time : SleepPeriods]
              \cup [type : {"drop", "land", "other"}]

ASSUME MissionAssumption ==
  /\ Places # {}
  /\ Programs \subseteq Seq(Commands)
  /\ AgeCap \in Nat
  /\ SleepPeriods \subseteq 0 .. AgeCap - 1

VARIABLES
  mission_state,         \* state_: the state whose handler runs next
  drone_program,         \* the program being worked off
  drone_program_index,   \* how many of its commands were loaded
  new_mission_ready,     \* a program was loaded since the last Handle
  setpoint_initialized,
  setpoint,              \* the last setpoint that was commanded
  translate_goal,        \* TranslateState's setpoint
  sleep_period,          \* SleepState's sleep_period_
  sleep_timer            \* SleepState's start_ and was_reset_

missionVars == <<mission_state, drone_program, drone_program_index,
                 new_mission_ready, setpoint_initialized, setpoint,
                 translate_goal, sleep_period, sleep_timer>>

MissionStates == {"GET_NEXT_CMD", "TRANSLATE", "UGV_DROP", "LAND", "SLEEP"}

-----------------------------------------------------------------------------
(* Timers.                                                                 *)

NotStarted == -1

Ages == 0 .. AgeCap

\* A timer seen dt later.
Later(timer, dt) ==
  IF timer = NotStarted THEN NotStarted
  ELSE IF timer + dt > AgeCap THEN AgeCap ELSE timer + dt

\* The timer once its state's handler has run: a handler starts its timer at
\* the first message it sees after a Reset.
Started(timer, dt) == IF timer = NotStarted THEN 0 ELSE Later(timer, dt)

-----------------------------------------------------------------------------

\* A message is the set of its Boolean fields that are true.
When(condition, field) == IF condition THEN {field} ELSE {}

\* The state that executes command c; commands without a state are passed
\* over and leave the machine in GET_NEXT_CMD.
StateOf(c) ==
  CASE c.type = "translate" -> "TRANSLATE"
    [] c.type = "drop"      -> "UGV_DROP"
    [] c.type = "land"      -> "LAND"
    [] c.type = "sleep"     -> "SLEEP"
    [] c.type = "other"     -> "GET_NEXT_CMD"

MissionInit ==
  /\ mission_state = "GET_NEXT_CMD"
  /\ drone_program = <<>>
  /\ drone_program_index = 0
  /\ new_mission_ready = FALSE
  /\ setpoint_initialized = FALSE
  /\ setpoint \in Places           \* written before it is read
  /\ translate_goal \in Places     \* written before it is read
  /\ sleep_period = 0
  /\ sleep_timer = NotStarted

\* LoadMission: the new program replaces the old one; the state machine itself
\* is only told at its next Handle.
LoadProgram(program) ==
  /\ drone_program' = program
  /\ drone_program_index' = 0
  /\ new_mission_ready' = TRUE
  /\ UNCHANGED <<mission_state, setpoint_initialized, setpoint,
                 translate_goal, sleep_period, sleep_timer>>

\* Mutant of LoadNextCommand: the index is advanced past the last command.
LoadPastTheEnd(old, timer) ==
  /\ drone_program_index' = drone_program_index + 1
  /\ mission_state' = IF drone_program_index < Len(drone_program)
                      THEN StateOf(drone_program[drone_program_index + 1])
                      ELSE "GET_NEXT_CMD"
  /\ sleep_timer' = timer
  /\ UNCHANGED <<translate_goal, sleep_period>>

\* Mutant of LoadNextCommand: the state entered is never reset.
LoadWithoutReset(old, timer) ==
  /\ drone_program_index < Len(drone_program)
  /\ LET c == drone_program[drone_program_index + 1]
     IN  /\ mission_state' = StateOf(c)
         /\ translate_goal' = IF c.type = "translate" THEN c.goal
                              ELSE translate_goal
         /\ sleep_period' = IF c.type = "sleep" THEN c.time ELSE sleep_period
  /\ drone_program_index' = drone_program_index + 1
  /\ sleep_timer' = timer

\* StateTransition when the handler asked for GET_NEXT_CMD: load the next
\* command.  Only a change of state resets the state entered: old is the
\* state left, timer the sleep timer as the handler left it.
LoadNextCommand(old, timer) ==
  IF drone_program_index < Len(drone_program)
  THEN LET c == drone_program[drone_program_index + 1]
       IN  /\ drone_program_index' = drone_program_index + 1
           /\ mission_state' = StateOf(c)
           /\ translate_goal' = IF c.type = "translate" THEN c.goal
                                ELSE translate_goal
           /\ sleep_period' = IF c.type = "sleep" THEN c.time
                              ELSE sleep_period
           /\ sleep_timer' = IF c.type = "sleep" /\ old # "SLEEP"
                             THEN NotStarted ELSE timer
  ELSE /\ mission_state' = "GET_NEXT_CMD"
       /\ sleep_timer' = timer
       /\ UNCHANGED <<drone_program_index, translate_goal, sleep_period>>

\* StateTransition when the handler kept its state.
KeepCommand(old, timer) ==
  /\ mission_state' = old
  /\ sleep_timer' = timer
  /\ UNCHANGED <<drone_program_index, translate_goal, sleep_period>>

\* Mutant of Current: a program that just arrived does not abandon the command
\* in progress.
CurrentOfOldProgram == mission_state

\* The state whose handler this Handle runs: a program that just arrived
\* abandons the command in progress.
Current == IF new_mission_ready THEN "GET_NEXT_CMD" ELSE mission_state

\* The setpoint Handle starts from: the drone's place the first time ever,
\* the last one commanded from then on.
Held(s) == IF setpoint_initialized THEN setpoint ELSE s.place

\* The handlers, one per state, for sensors s received dt after the last.
GetNextCommand(s, dt) ==
  /\ Current = "GET_NEXT_CMD"
  /\ LoadNextCommand("GET_NEXT_CMD", Later(sleep_timer, dt))
  /\ setpoint' = Held(s)

Translate(s, dt) ==
  /\ Current = "TRANSLATE"
  /\ IF s.place = translate_goal
     THEN LoadNextCommand("TRANSLATE", Later(sleep_timer, dt))
     ELSE KeepCommand("TRANSLATE", Later(sleep_timer, dt))
  /\ setpoint' = translate_goal

UgvDrop(s, dt) ==
  /\ Current = "UGV_DROP"
  /\ IF s.done_dropping
     THEN LoadNextCommand("UGV_DROP", Later(sleep_timer, dt))
     ELSE KeepCommand("UGV_DROP", Later(sleep_timer, dt))
  /\ setpoint' = Held(s)

Land(s, dt) ==
  /\ Current = "LAND"
  /\ KeepCommand("LAND", Later(sleep_timer, dt))
  /\ setpoint' = Held(s)

Sleep(s, dt) ==
  /\ Current = "SLEEP"
  /\ LET timer == Started(sleep_timer, dt)
     IN  IF timer > sleep_period THEN LoadNextCommand("SLEEP", timer)
                                 ELSE KeepCommand("SLEEP", timer)
  /\ setpoint' = Held(s)

\* MissionStateMachine::Handle.
HandleMission(s, dt) ==
  /\ \/ GetNextCommand(s, dt)
     \/ Translate(s, dt)
     \/ UgvDrop(s, dt)
     \/ Land(s, dt)
     \/ Sleep(s, dt)
  /\ setpoint_initialized' = TRUE
  /\ new_mission_ready' = FALSE
  /\ UNCHANGED drone_program

\* The fields of the output message Handle sets to true; what it writes as the
\* setpoint is in setpoint'.
HandleMissionOutput(s) ==
  {"send_setpoint"}
    \cup When(Current = "UGV_DROP" /\ ~s.done_dropping, "deploy")
    \cup When(Current = "LAND", "mission_commanded_land")

\* The flight loop handles a message without calling Handle: time passes for
\* the sleep timer, nothing else changes.
MissionIdle(dt) ==
  /\ sleep_timer' = Later(sleep_timer, dt)
  /\ UNCHANGED <<mission_state, drone_program, drone_program_index,
                 new_mission_ready, setpoint_initialized, setpoint,
                 translate_goal, sleep_period>>

-----------------------------------------------------------------------------

MissionTypeOK ==
  /\ mission_state \in MissionStates
  /\ drone_program \in Seq(Commands)
  /\ drone_program_index \in 0 .. Len(drone_program)
  /\ new_mission_ready \in BOOLEAN
  /\ setpoint_initialized \in BOOLEAN
  /\ setpoint \in Places
  /\ translate_goal \in Places
  /\ sleep_period \in SleepPeriods \cup {0}
  /\ sleep_timer \in Ages \cup {NotStarted}

\* The command the machine is executing is the last one it loaded from the
\* program it holds, with that command's own parameters: whatever state a
\* program was replaced in, the handlers never work on a command of the old
\* one (StateTransition and the new_mission_ready_ escape in Handle).
ExecutesLoadedCommand ==
  ~new_mission_ready /\ mission_state # "GET_NEXT_CMD" =>
    /\ drone_program_index > 0
    /\ LET c == drone_program[drone_program_index]
       IN  /\ StateOf(c) = mission_state
           /\ c.type = "translate" => translate_goal = c.goal
           /\ c.type = "sleep" => sleep_period = c.time

=============================================================================
