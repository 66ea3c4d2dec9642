-------------------------- MODULE DeploymentTiming --------------------------
(***************************************************************************)
(* The deployment with history variables that measure what its timers are  *)
(* for.  No action of Deployment reads them.                               *)
(***************************************************************************)
EXTENDS Deployment

VARIABLES
  hot_for,        \* iterations in a row, this one included, that heated
  triggered_for   \* iterations in a row that opened the latch and were told
                  \* to lower; kept once it exceeds kWaitTimeAfterUnlatch

measureVars == <<hot_for, triggered_for>>

TimedDeploymentInit == DeploymentInit /\ hot_for = 0 /\ triggered_for = 0

Measure(input) ==
  /\ hot_for' = IF hotwire' THEN hot_for + 1 ELSE 0
  /\ triggered_for' =
       IF latch_closed' THEN 0
       ELSE IF triggered_for > kWaitTimeAfterUnlatch THEN triggered_for
       ELSE IF input.direction > 0 THEN triggered_for + 1 ELSE 0

TimedDeploymentNext ==
  \E input \in Inputs : RunDeployment(input) /\ Measure(input)

TimedDeploymentSpec ==
  /\ TimedDeploymentInit
  /\ [][TimedDeploymentNext]_<<deploymentVars, measureVars>>

-----------------------------------------------------------------------------

\* The hotwire never heats for more than kMaxHotwireTime and one iteration
\* without a break, whatever the ground commands (deployment.cc:85).
HotwireBounded == hot_for <= kMaxHotwireTime + 1

\* The motor runs only after the latch was open, and lowering was commanded
\* without a break, for kWaitTimeAfterUnlatch (deployment.cc:42).
MotorAfterUnlatch == motor # 0 => triggered_for > kWaitTimeAfterUnlatch

=============================================================================
