----------------------------- MODULE Deployment -----------------------------
(***************************************************************************)
(* The state machine that lowers the ground vehicle (UGV) from the drone:  *)
(* unlatch the servo, lower with the motor, cut the line with a hotwire    *)
(* (lib/deployment/deployment.cc).                                         *)
(*                                                                         *)
(* RunIteration is called at a fixed rate, so times are counted in         *)
(* iterations.  The input is arbitrary here; UgvDrop says where it comes   *)
(* from.                                                                   *)
(***************************************************************************)
EXTENDS Integers

CONSTANTS kWaitTimeBeforeUnlatch, kWaitTimeAfterUnlatch, kMaxHotwireTime

ASSUME DeploymentAssumption ==
  /\ kWaitTimeBeforeUnlatch \in Nat
  /\ kWaitTimeAfterUnlatch \in Nat
  /\ kMaxHotwireTime \in Nat

VARIABLES
  deployment_state,    \* state_
  deployment_timer,    \* timer_
  motor,               \* the output: the motor's direction,
  latch_closed, hotwire, end_drop

outputVars     == <<motor, latch_closed, hotwire, end_drop>>
deploymentVars == <<deployment_state, deployment_timer, outputVars>>

DeploymentStates == {"LATCHED", "UNLATCHING", "MOTOR_ASSISTED_DEPLOYMENT",
                     "CUT_LINE", "END_DROP"}

Directions == {-1, 0, 1}

Inputs == [latch : BOOLEAN, direction : Directions, cut : BOOLEAN,
           cancel : BOOLEAN]

DeploymentInit ==
  /\ deployment_state = "LATCHED"
  /\ deployment_timer = 0
  /\ motor = 0 /\ latch_closed = TRUE /\ hotwire = FALSE /\ end_drop = FALSE

TimerComplete(goal_time) == deployment_timer > goal_time

\* Mutants of Choose: the timer is not reset; a reset latch wins over a
\* cancelled drop; a latched drop does not start over.
ChooseWithoutReset(input, next_state, timer) ==
  /\ deployment_state' = IF input.cancel THEN "END_DROP"
                         ELSE IF input.latch THEN "LATCHED" ELSE next_state
  /\ deployment_timer' = timer
ChooseLatchFirst(input, next_state, timer) ==
  LET new == IF input.latch THEN "LATCHED"
             ELSE IF input.cancel THEN "END_DROP" ELSE next_state
  IN  /\ deployment_state' = new
      /\ deployment_timer' = IF new # deployment_state THEN 0 ELSE timer
ChooseWithoutLatch(input, next_state, timer) ==
  LET new == IF input.cancel THEN "END_DROP" ELSE next_state
  IN  /\ deployment_state' = new
      /\ deployment_timer' = IF new # deployment_state THEN 0 ELSE timer

\* The end of RunIteration: a cancelled drop ends and a latched one starts
\* over, whatever the state's handler chose, and a change of state resets the
\* timer.
Choose(input, next_state, timer) ==
  LET new == IF input.cancel THEN "END_DROP"
             ELSE IF input.latch THEN "LATCHED" ELSE next_state
  IN  /\ deployment_state' = new
      /\ deployment_timer' = IF new # deployment_state THEN 0 ELSE timer

\* What the state writes; the rest of the output has its default.
Write(open, direction, hot) ==
  /\ latch_closed' = ~open
  /\ motor' = direction
  /\ hotwire' = hot
  /\ end_drop' = (deployment_state = "END_DROP")

-----------------------------------------------------------------------------

Latched(input) ==
  /\ deployment_state = "LATCHED"
  /\ \/ /\ input.latch
        /\ Choose(input, "LATCHED", 0)
     \/ /\ ~input.latch /\ ~TimerComplete(kWaitTimeBeforeUnlatch)
        /\ Choose(input, "LATCHED", deployment_timer + 1)
     \/ /\ ~input.latch /\ TimerComplete(kWaitTimeBeforeUnlatch)
        /\ Choose(input, "UNLATCHING", 0)
  /\ Write(FALSE, 0, FALSE)

\* Mutant of Unlatching: the time unlatched is not measured anew when the
\* lowering is interrupted.
UnlatchingWithoutReset(input) ==
  /\ deployment_state = "UNLATCHING"
  /\ \/ /\ input.direction <= 0
        /\ Choose(input, "UNLATCHING", deployment_timer)
     \/ /\ input.direction > 0 /\ ~TimerComplete(kWaitTimeAfterUnlatch)
        /\ Choose(input, "UNLATCHING", deployment_timer + 1)
     \/ /\ input.direction > 0 /\ TimerComplete(kWaitTimeAfterUnlatch)
        /\ Choose(input, "MOTOR_ASSISTED_DEPLOYMENT", 0)
  /\ Write(TRUE, 0, FALSE)

Unlatching(input) ==
  /\ deployment_state = "UNLATCHING"
  /\ \/ /\ input.direction <= 0
        /\ Choose(input, "UNLATCHING", 0)
     \/ /\ input.direction > 0 /\ ~TimerComplete(kWaitTimeAfterUnlatch)
        /\ Choose(input, "UNLATCHING", deployment_timer + 1)
     \/ /\ input.direction > 0 /\ TimerComplete(kWaitTimeAfterUnlatch)
        /\ Choose(input, "MOTOR_ASSISTED_DEPLOYMENT", 0)
  /\ Write(TRUE, 0, FALSE)

MotorAssistedDeployment(input) ==
  /\ deployment_state = "MOTOR_ASSISTED_DEPLOYMENT"
  /\ \/ /\ input.cut
        /\ Choose(input, "CUT_LINE", 0)
        /\ Write(TRUE, 0, FALSE)
     \/ /\ ~input.cut
        /\ Choose(input, "MOTOR_ASSISTED_DEPLOYMENT", deployment_timer)
        /\ Write(TRUE, input.direction, FALSE)

\* Mutant of CutLine: the time limit is never reached.
CutLineWithoutLimit(input) ==
  /\ deployment_state = "CUT_LINE"
  /\ \/ /\ ~input.cut
        /\ Choose(input, "MOTOR_ASSISTED_DEPLOYMENT", 0)
        /\ Write(TRUE, 0, FALSE)
     \/ /\ input.cut
        /\ Choose(input, "CUT_LINE", deployment_timer)
        /\ Write(TRUE, 0, TRUE)

\* Mutant of CutLine: at the time limit the state is kept and starts over.
CutLineStartsOver(input) ==
  /\ deployment_state = "CUT_LINE"
  /\ \/ /\ ~input.cut
        /\ Choose(input, "MOTOR_ASSISTED_DEPLOYMENT", 0)
        /\ Write(TRUE, 0, FALSE)
     \/ /\ input.cut /\ ~TimerComplete(kMaxHotwireTime)
        /\ Choose(input, "CUT_LINE", deployment_timer + 1)
        /\ Write(TRUE, 0, TRUE)
     \/ /\ input.cut /\ TimerComplete(kMaxHotwireTime)
        /\ Choose(input, "CUT_LINE", 0)
        /\ Write(TRUE, 0, FALSE)

CutLine(input) ==
  /\ deployment_state = "CUT_LINE"
  /\ \/ /\ ~input.cut
        /\ Choose(input, "MOTOR_ASSISTED_DEPLOYMENT", 0)
        /\ Write(TRUE, 0, FALSE)
     \/ /\ input.cut /\ ~TimerComplete(kMaxHotwireTime)
        /\ Choose(input, "CUT_LINE", deployment_timer + 1)
        /\ Write(TRUE, 0, TRUE)
     \/ /\ input.cut /\ TimerComplete(kMaxHotwireTime)
        /\ Choose(input, "END_DROP", 0)
        /\ Write(TRUE, 0, FALSE)

EndDrop(input) ==
  /\ deployment_state = "END_DROP"
  /\ Choose(input, "END_DROP", deployment_timer)
  /\ Write(FALSE, 0, FALSE)

RunDeployment(input) ==
  \/ Latched(input)
  \/ Unlatching(input)
  \/ MotorAssistedDeployment(input)
  \/ CutLine(input)
  \/ EndDrop(input)

DeploymentNext == \E input \in Inputs : RunDeployment(input)

DeploymentSpec == DeploymentInit /\ [][DeploymentNext]_deploymentVars

-----------------------------------------------------------------------------

\* The timer stops just past the time its state waits for.
TimerStops ==
  /\ deployment_state = "LATCHED" =>
       deployment_timer <= kWaitTimeBeforeUnlatch + 1
  /\ deployment_state = "UNLATCHING" =>
       deployment_timer <= kWaitTimeAfterUnlatch + 1
  /\ deployment_state = "CUT_LINE" =>
       deployment_timer <= kMaxHotwireTime + 1
  /\ deployment_state \in {"MOTOR_ASSISTED_DEPLOYMENT", "END_DROP"} =>
       deployment_timer = 0

DeploymentTypeOK ==
  /\ deployment_state \in DeploymentStates
  /\ deployment_timer \in Nat
  /\ TimerStops
  /\ motor \in Directions
  /\ latch_closed \in BOOLEAN
  /\ hotwire \in BOOLEAN
  /\ end_drop \in BOOLEAN

=============================================================================
