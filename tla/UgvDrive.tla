------------------------------ MODULE UgvDrive ------------------------------
(***************************************************************************)
(* The ground server starts driving the UGV a while after the line was     *)
(* cut: it follows the droppy commands that the drone confirms             *)
(* (src/ground/server/ground_server.js).                                   *)
(*                                                                         *)
(* Node runs one callback at a time, so a confirmation and a timer that    *)
(* fires are each one action.  Timers that were set and have neither fired *)
(* nor been cleared are kept with the time they have left.                 *)
(***************************************************************************)
EXTENDS Integers, FiniteSets

CONSTANTS
  ugvWaitTimeAfterCut,
  MaxTimers               \* timers that are ever set (a bound)

DriveAssumption ==
  /\ ugvWaitTimeAfterCut \in Nat
  /\ MaxTimers \in Nat

NoTimer == 0

VARIABLES
  droveUgv,
  ugvDriveTimer,   \* the timer set last, NoTimer before the first
  left,            \* the pending timers with the time each has left
  called_off,      \* STOP_CUT or CANCEL_DROP was confirmed and no CUT_LINE
                   \* since (history)
  resets           \* how often RESET_LATCH was confirmed while a timer was
                   \* pending all the time, up to MaxTimers (history)

driveVars == <<droveUgv, ugvDriveTimer, left, called_off, resets>>

Pending == DOMAIN left

DriveInit ==
  /\ droveUgv = FALSE
  /\ ugvDriveTimer = NoTimer
  /\ left = [t \in {} |-> 0]
  /\ called_off = FALSE
  /\ resets = 0

\* clearTimeout: clearing a timer that has fired does nothing.
Clear(timer) ==
  /\ left' = [t \in Pending \ {timer} |-> left[t]]
  /\ resets' = IF Pending \subseteq {timer} THEN 0 ELSE resets

-----------------------------------------------------------------------------

ResetLatch ==
  /\ droveUgv' = FALSE
  /\ resets' = IF Pending = {} \/ resets = MaxTimers THEN resets
               ELSE resets + 1
  /\ UNCHANGED <<ugvDriveTimer, left, called_off>>

\* Mutant of CallOff: the timer is left running.
CallOffWithoutClear ==
  /\ droveUgv' = FALSE
  /\ called_off' = TRUE
  /\ UNCHANGED <<ugvDriveTimer, left, resets>>

CallOff ==
  /\ IF ugvDriveTimer # NoTimer
     THEN Clear(ugvDriveTimer) /\ droveUgv' = FALSE
     ELSE UNCHANGED <<left, droveUgv, resets>>
  /\ called_off' = TRUE
  /\ UNCHANGED ugvDriveTimer

CutLine ==
  /\ \/ /\ droveUgv
        /\ UNCHANGED <<droveUgv, ugvDriveTimer, left>>
     \/ /\ ~droveUgv /\ ugvDriveTimer < MaxTimers
        /\ droveUgv' = TRUE
        /\ ugvDriveTimer' = ugvDriveTimer + 1
        /\ left' = [t \in Pending \cup {ugvDriveTimer + 1} |->
                      IF t \in Pending THEN left[t] ELSE ugvWaitTimeAfterCut]
  /\ called_off' = FALSE
  /\ UNCHANGED resets

\* A timer fires: DRIVE_TO_TARGET is sent to the UGV.
Drive(timer) ==
  /\ timer \in Pending /\ left[timer] = 0
  /\ Clear(timer)
  /\ UNCHANGED <<droveUgv, ugvDriveTimer, called_off>>

Tick ==
  /\ \E t \in Pending : left[t] > 0
  /\ left' = [t \in Pending |-> IF left[t] > 0 THEN left[t] - 1 ELSE 0]
  /\ UNCHANGED <<droveUgv, ugvDriveTimer, called_off, resets>>

DriveNext ==
  \/ ResetLatch \/ CallOff \/ CutLine \/ Tick
  \/ \E timer \in Pending : Drive(timer)

DriveSpec == DriveInit /\ [][DriveNext]_driveVars

-----------------------------------------------------------------------------

\* The server keeps its types: every timeout that can still fire was set by it
\* (ground_server.js, onDroneDropCommand).
DriveTypeOK ==
  /\ droveUgv \in BOOLEAN
  /\ ugvDriveTimer \in 0 .. MaxTimers
  /\ Pending \subseteq 1 .. ugvDriveTimer
  /\ \A t \in Pending : left[t] \in 0 .. ugvWaitTimeAfterCut
  /\ called_off \in BOOLEAN
  /\ resets \in 0 .. MaxTimers

\* Once the drop was cancelled or the cut stopped, the UGV will not be driven
\* before the line is cut again: "Going to drive UGV in 15 seconds (unless
\* cancelled)" (ground_server.js:202).
CallingOffStopsDrive == called_off => Pending = {}

\* That holds as long as the latch is not reset while a drive is to come.
CallingOffStopsDriveUnlessReset == called_off /\ resets = 0 => Pending = {}

\* Confirming a cut again and again starts no more drives than one, and one
\* for each reset of the latch (ground_server.js:200).
OneDrivePerReset == Cardinality(Pending) <= 1 + resets

=============================================================================
