---------------------------- MODULE PixhawkGate ----------------------------
(***************************************************************************)
(* The part of IO that stands between the flight loop's outputs and the    *)
(* autopilot: the writer thread samples the sensors, decides whether the   *)
(* flight loop may be listened to, and turns the triggers that rose since  *)
(* it last listened into blocking service calls                            *)
(* (src/controls/io/io.cc, src/controls/io/ros_to_proto/ros_to_proto.cc).  *)
(*                                                                         *)
(* The writer thread interleaves with the ROS callbacks RcInReceived and   *)
(* OutputReceived wherever it reads what they write, that is between       *)
(* Sample and Send, and during every service call.                         *)
(***************************************************************************)
EXTENDS Sequences

CONSTANTS
  Setpoints,      \* positions an output may carry
  NoOutput,       \* no output was received yet
  Outages         \* whether sensors, radio and outputs may stop coming

\* The trigger fields of an output; the flight loop never sets trigger_rtl.
Triggers == {"trigger_takeoff", "trigger_hold", "trigger_offboard",
             "trigger_land", "trigger_arm"}

\* Everything the writer sends for an output.
Requests == Triggers \cup {"send_setpoint"}

VARIABLES
  run_uas_mission,     \* the safety pilot's switch, as last received
  rc_lost,             \* no radio message for kRcLossAlertTimeout
  gate_output,         \* RosToProto's output_
  output_valid,        \* output_ is less than half a second old
  last_mode_signals,   \* the triggers whose last signal was true
  writer,              \* where the writer thread is
  sampled,             \* its copy of the sensors, as far as it is used
  requests,            \* what it still has to send in this iteration
  goal                 \* the setpoint of its copy of the output

gateVars == <<run_uas_mission, rc_lost, gate_output, output_valid,
              last_mode_signals, writer, sampled, requests, goal>>

NoSample == [valid |-> FALSE, run |-> FALSE, armed |-> FALSE]

\* Mutant of GateInit: an output that was never received counts as valid.
GateInitValid ==
  /\ run_uas_mission = FALSE /\ rc_lost = FALSE
  /\ gate_output = NoOutput /\ output_valid = TRUE
  /\ last_mode_signals = {}
  /\ writer = "sample" /\ sampled = NoSample /\ requests = <<>>
  /\ goal \in Setpoints

GateInit ==
  /\ run_uas_mission = FALSE
  /\ rc_lost = FALSE
  /\ gate_output = NoOutput
  /\ output_valid = FALSE
  /\ last_mode_signals = {}
  /\ writer = "sample"
  /\ sampled = NoSample
  /\ requests = <<>>
  /\ goal \in Setpoints

-----------------------------------------------------------------------------
(* The writer thread.                                                      *)

\* The top of WriterThread's loop: SensorsValid, GetSensors.
Sample(valid, armed) ==
  /\ writer = "sample"
  /\ valid \/ Outages
  /\ sampled' = IF valid
                THEN [valid |-> TRUE, run |-> run_uas_mission, armed |-> armed]
                ELSE NoSample
  /\ writer' = "send"
  /\ UNCHANGED <<run_uas_mission, rc_lost, gate_output, output_valid,
                 last_mode_signals, requests, goal>>

\* SafetyChecks: while armed, the radio must not be lost.
SafetyChecks == sampled.armed => ~rc_lost

\* Mutant of GateOpen: the safety pilot's switch is not looked at.
GateOpenWithoutRun == sampled.valid /\ SafetyChecks /\ output_valid

GateOpen ==
  /\ sampled.valid
  /\ SafetyChecks
  /\ output_valid
  /\ sampled.run

\* Ends the writer's iteration once it has nothing left to send.
Proceed(rest) ==
  /\ requests' = rest
  /\ writer' = IF rest = <<>> THEN "sample" ELSE "call"
  /\ sampled' = IF rest = <<>> THEN NoSample ELSE sampled

\* Mutant of Posedge: a trigger is sent as long as it is true.
PosedgeOrHigh(trigger, fields) ==
  IF trigger \in fields THEN <<trigger>> ELSE <<>>

\* PixhawkSendModePosedge: a trigger is sent when it rises.
Posedge(trigger, fields) ==
  IF trigger \in fields \ last_mode_signals THEN <<trigger>> ELSE <<>>

\* What the writer sends for an output, in the order it looks at the fields; a
\* setpoint is sent every time.
Rising(fields) ==
  Posedge("trigger_takeoff", fields)
    \o Posedge("trigger_hold", fields)
    \o Posedge("trigger_offboard", fields)
    \o Posedge("trigger_land", fields)
    \o Posedge("trigger_arm", fields)
    \o IF "send_setpoint" \in fields THEN <<"send_setpoint">> ELSE <<>>

\* GetOutput and the decisions of the six PixhawkSendModePosedge calls.
Send ==
  /\ writer = "send"
  /\ \/ /\ GateOpen
        /\ Proceed(Rising(gate_output.fields))
        /\ last_mode_signals' = gate_output.fields \cap Triggers
        /\ goal' = gate_output.setpoint
     \/ /\ ~GateOpen
        /\ Proceed(<<>>)
        /\ UNCHANGED <<last_mode_signals, goal>>
  /\ UNCHANGED <<run_uas_mission, rc_lost, gate_output, output_valid>>

\* One request has been answered (or has failed).
Answered ==
  /\ writer = "call"
  /\ Proceed(Tail(requests))
  /\ UNCHANGED <<run_uas_mission, rc_lost, gate_output, output_valid,
                 last_mode_signals, goal>>

-----------------------------------------------------------------------------
(* The callbacks and the passing of time.                                  *)

RcInReceived(run) ==
  /\ run_uas_mission' = run
  /\ rc_lost' = FALSE
  /\ UNCHANGED <<gate_output, output_valid, last_mode_signals, writer,
                 sampled, requests, goal>>

OutputReceived(out) ==
  /\ gate_output' = out
  /\ output_valid' = TRUE
  /\ UNCHANGED <<run_uas_mission, rc_lost, last_mode_signals, writer,
                 sampled, requests, goal>>

\* kRcLossAlertTimeout since the last radio message.
RcLost ==
  /\ Outages /\ ~rc_lost
  /\ rc_lost' = TRUE
  /\ UNCHANGED <<run_uas_mission, gate_output, output_valid,
                 last_mode_signals, writer, sampled, requests, goal>>

\* Half a second since the last output.
OutputExpires ==
  /\ Outages /\ output_valid
  /\ output_valid' = FALSE
  /\ UNCHANGED <<run_uas_mission, rc_lost, gate_output, last_mode_signals,
                 writer, sampled, requests, goal>>

-----------------------------------------------------------------------------

GateTypeOK ==
  /\ run_uas_mission \in BOOLEAN
  /\ rc_lost \in BOOLEAN
  /\ gate_output # NoOutput => gate_output.setpoint \in Setpoints
  /\ output_valid \in BOOLEAN
  /\ output_valid => gate_output # NoOutput
  /\ last_mode_signals \subseteq Triggers
  /\ writer \in {"sample", "send", "call"}
  /\ sampled \in [valid : BOOLEAN, run : BOOLEAN, armed : BOOLEAN]
  /\ requests \in Seq(Requests)
  /\ goal \in Setpoints

=============================================================================
