------------------------------- MODULE UgvDrop -------------------------------
(***************************************************************************)
(* A drop of the UGV as the ground commands it: DroppyCommandReceived      *)
(* stores each command in four atomics one after the other, and the writer *)
(* thread reads them one after the other for every iteration of the        *)
(* deployment (src/controls/io/io.cc).                                     *)
(***************************************************************************)
EXTENDS DeploymentTiming, Sequences

VARIABLES
  inputs,    \* latch_, deployment_motor_direction_, cut_line_, cancel_drop_
  writes,    \* the stores that the running callback still has to do
  reads,     \* what the writer thread has read in this iteration
  cancelled_for   \* iterations that ended since cancel_drop_ was set, up to 3
                  \* (history)

dropVars ==
  <<deploymentVars, measureVars, inputs, writes, reads, cancelled_for>>

Set(field, value) == [field |-> field, value |-> value]

\* The stores of each droppy command, in order.
Stores ==
  [START_DROP  |-> <<Set("latch", FALSE), Set("direction", 1)>>,
   CUT_LINE    |-> <<Set("direction", 0), Set("cut", TRUE)>>,
   MOTOR_UP    |-> <<Set("direction", -1)>>,
   MOTOR_DOWN  |-> <<Set("direction", 1)>>,
   MOTOR_STOP  |-> <<Set("direction", 0)>>,
   CANCEL_DROP |-> <<Set("cancel", TRUE)>>,
   RESET_LATCH |-> <<Set("latch", TRUE), Set("cancel", FALSE)>>,
   STOP_CUT    |-> <<Set("cut", FALSE)>>]

\* The order in which the writer thread reads.
ReadOrder == <<"latch", "direction", "cut", "cancel">>

DropInit ==
  /\ TimedDeploymentInit
  /\ inputs = [latch |-> TRUE, direction |-> 0, cut |-> FALSE,
               cancel |-> FALSE]
  /\ writes = <<>> /\ reads = <<>>
  /\ cancelled_for = 0

DroppyCommandReceived(command) ==
  /\ writes = <<>>
  /\ writes' = Stores[command]
  /\ UNCHANGED <<deploymentVars, measureVars, inputs, reads, cancelled_for>>

Store ==
  /\ writes # <<>>
  /\ inputs' = [inputs EXCEPT ![Head(writes).field] = Head(writes).value]
  /\ writes' = Tail(writes)
  /\ cancelled_for' = IF inputs'.cancel THEN cancelled_for ELSE 0
  /\ UNCHANGED <<deploymentVars, measureVars, reads>>

Read ==
  /\ Len(reads) < Len(ReadOrder)
  /\ reads' = Append(reads, inputs[ReadOrder[Len(reads) + 1]])
  /\ UNCHANGED <<deploymentVars, measureVars, inputs, writes, cancelled_for>>

\* Deployment::RunIteration with what was read; its output is written to the
\* actuators and end_drop reported as done_dropping.
Iterate ==
  /\ Len(reads) = Len(ReadOrder)
  /\ LET input == [latch |-> reads[1], direction |-> reads[2],
                   cut |-> reads[3], cancel |-> reads[4]]
     IN  RunDeployment(input) /\ Measure(input)
  /\ reads' = <<>>
  /\ cancelled_for' = IF inputs.cancel /\ cancelled_for < 3
                      THEN cancelled_for + 1 ELSE cancelled_for
  /\ UNCHANGED <<inputs, writes>>

DropNext ==
  \/ \E command \in DOMAIN Stores : DroppyCommandReceived(command)
  \/ Store \/ Read \/ Iterate

DropSpec == DropInit /\ [][DropNext]_dropVars

\* A callback that began runs to its end, and the writer thread keeps running.
FairDropSpec ==
  DropSpec /\ WF_dropVars(Store) /\ WF_dropVars(Read) /\ WF_dropVars(Iterate)

-----------------------------------------------------------------------------

\* The deployment and IO's atomics keep their types: a callback is in the midst
\* of one command's stores, the writer thread of its four loads (io.cc).
DropTypeOK ==
  /\ DeploymentTypeOK
  /\ inputs \in Inputs
  /\ writes = <<>> \/ \E command \in DOMAIN Stores :
       \E i \in 1 .. Len(Stores[command]) :
         writes = SubSeq(Stores[command], i, Len(Stores[command]))
  /\ Len(reads) <= Len(ReadOrder)

\* After CANCEL_DROP the motor stands still, the hotwire is off and the drop
\* is reported done by the third iteration that ends at the latest: one that
\* had read the old value, one that still wrote the output of the state it
\* left, and from then on every one, until the latch is reset.
CancelStops ==
  cancelled_for = 3 => motor = 0 /\ ~hotwire /\ end_drop

\* The cut ends, by the line's own time limit if not by a command.
CutEnds == deployment_state = "CUT_LINE" ~> deployment_state # "CUT_LINE"

\* Once the latch is reset for good, the deployment is back where a new drop
\* starts, with everything off.
ResetRelatches ==
  <>[](inputs.latch /\ ~inputs.cancel)
    => <>[](deployment_state = "LATCHED" /\ motor = 0 /\ ~hotwire
              /\ latch_closed /\ ~end_drop)

=============================================================================
