----------------------------- MODULE UgvOrders -----------------------------
(***************************************************************************)
(* Who makes the UGV drive: the confirmation dialog of the UI              *)
(* (DroneActions.js), the relays of the ground server to the UGV and, from *)
(* UgvDrive, the timer that follows a confirmed cut (ground_server.js).    *)
(*                                                                         *)
(* The dialog's component adds a listener for the Enter key to the         *)
(* document when it is mounted and never removes it.  A component that was *)
(* unmounted ignores setState, so a listener that finds its dialog open    *)
(* finds it open for ever.                                                 *)
(***************************************************************************)
EXTENDS UgvDrive, Sequences, SequencesExt

CONSTANT MaxOrphans   \* bound on components left behind with an open dialog

OrdersAssumption == DriveAssumption /\ MaxOrphans \in Nat

Orders == {"Drive UGV", "Disable UGV", "Cut Wire & Drive"}

VARIABLES
  page,            \* "controls", or another one
  dialog, message, action,   \* the state of the mounted component
  orphans,         \* what the components left behind still do on Enter
  sent,            \* the orders the last step transmitted
  ugv_connected,
  ugv_order,       \* what the UGV was told last: "drive", "disable", "none"
  ugv_target,      \* the target it was sent last
  disabled         \* the UGV was told to disable, and no one asked for a
                   \* drive or confirmed a cut since: "no", "timer" when a
                   \* drive was pending then, "yes" otherwise (history)

dialogVars == <<page, dialog, message, action, orphans>>
ugvVars    == <<ugv_connected, ugv_order, ugv_target>>
ordersVars == <<driveVars, dialogVars, sent, ugvVars, disabled>>

Official == "official destination"
Chosen   == "position set on the Settings page"

OrdersInit ==
  /\ DriveInit
  /\ page = "controls"
  /\ dialog = FALSE /\ message = "none" /\ action = "none"
  /\ orphans = <<>>
  /\ sent = <<>>
  /\ ugv_connected = FALSE /\ ugv_order = "none" /\ ugv_target = Official
  /\ disabled = "no"

-----------------------------------------------------------------------------
(* The ground server.                                                      *)

\* ugv_io.emit: a UGV that is not connected misses it.
EmitToUgv(order) ==
  /\ ugv_order' = IF ugv_connected THEN order ELSE ugv_order
  /\ UNCHANGED <<ugv_connected, ugv_target>>

\* The orders of the UI, in the order it transmits them.
IsToUgv(order) == order \in {"Drive UGV", "Disable UGV"}
Relay(orders) ==
  /\ sent' = orders
  /\ LET toUgv == SelectSeq(orders, IsToUgv)
     IN  IF toUgv = <<>>
         THEN UNCHANGED <<ugvVars, disabled>>
         ELSE IF Last(toUgv) = "Drive UGV"
         THEN EmitToUgv("drive") /\ disabled' = "no"
         ELSE /\ EmitToUgv("disable")
              /\ disabled' = IF Pending = {} THEN "yes" ELSE "timer"

\* UgvDrive's handler of confirmed commands and its clock.
DroppyCommandReceived ==
  /\ \/ ResetLatch /\ UNCHANGED disabled
     \/ CallOff /\ UNCHANGED disabled
     \/ CutLine /\ disabled' = "no"
     \/ Tick /\ UNCHANGED disabled
  /\ sent' = <<>>
  /\ UNCHANGED <<dialogVars, ugvVars>>

\* The timer fires.
DriveToTarget ==
  /\ \E timer \in Pending : Drive(timer)
  /\ EmitToUgv("drive")
  /\ sent' = <<>>
  /\ UNCHANGED <<dialogVars, disabled>>

\* The server sends the official destination to a UGV that connects.
UgvConnects ==
  /\ ~ugv_connected
  /\ ugv_connected' = TRUE
  /\ ugv_target' = Official
  /\ sent' = <<>>
  /\ UNCHANGED <<driveVars, dialogVars, ugv_order, disabled>>

UgvDisconnects ==
  /\ ugv_connected
  /\ ugv_connected' = FALSE
  /\ sent' = <<>>
  /\ UNCHANGED <<driveVars, dialogVars, ugv_order, ugv_target, disabled>>

\* configureUgvDest on the Settings page.
SetUgvTarget ==
  /\ page = "other"
  /\ ugv_target' = IF ugv_connected THEN Chosen ELSE ugv_target
  /\ sent' = <<>>
  /\ UNCHANGED <<driveVars, dialogVars, ugv_connected, ugv_order, disabled>>

-----------------------------------------------------------------------------
(* The dialog.                                                             *)

\* Mutant of ToggleWithName: the dialog keeps the action of the last one.
ToggleWithNameOnly(order) ==
  /\ page = "controls" /\ ~dialog
  /\ dialog' = TRUE /\ message' = order
  /\ action' = IF action = "none" THEN order ELSE action
  /\ sent' = <<>>
  /\ UNCHANGED <<driveVars, page, orphans, ugvVars, disabled>>

\* toggleWithName: one of the page's buttons.
ToggleWithName(order) ==
  /\ page = "controls" /\ ~dialog
  /\ dialog' = TRUE /\ message' = order /\ action' = order
  /\ sent' = <<>>
  /\ UNCHANGED <<driveVars, page, orphans, ugvVars, disabled>>

CloseDialog ==
  /\ dialog
  /\ dialog' = FALSE
  /\ sent' = <<>>
  /\ UNCHANGED <<driveVars, page, message, action, orphans, ugvVars, disabled>>

\* doAction: the dialog's button is clicked.
DoAction ==
  /\ dialog
  /\ dialog' = FALSE
  /\ Relay(<<action>>)
  /\ UNCHANGED <<driveVars, page, message, action, orphans>>

\* Enter is pressed.  Every listener runs; when the dialog's button has the
\* focus the key clicks it too, which acts again and opens the dialog again.
PressEnter ==
  \E onButton \in BOOLEAN :
    /\ onButton => dialog
    /\ dialog' = onButton
    /\ Relay(orphans \o (IF dialog THEN <<action>> ELSE <<>>)
                     \o (IF onButton THEN <<action>> ELSE <<>>))
    /\ UNCHANGED <<driveVars, page, message, action, orphans>>

\* Another page is opened; a link cannot be clicked under a dialog, but the
\* browser can go back.
LeavePage ==
  /\ page = "controls"
  /\ ~dialog \/ Len(orphans) < MaxOrphans
  /\ page' = "other"
  /\ orphans' = IF dialog THEN Append(orphans, action) ELSE orphans
  /\ dialog' = FALSE /\ message' = "none" /\ action' = "none"
  /\ sent' = <<>>
  /\ UNCHANGED <<driveVars, ugvVars, disabled>>

ReturnToPage ==
  /\ page = "other"
  /\ page' = "controls"
  /\ sent' = <<>>
  /\ UNCHANGED <<driveVars, dialog, message, action, orphans, ugvVars, disabled>>

OrdersNext ==
  \/ DroppyCommandReceived \/ DriveToTarget
  \/ UgvConnects \/ UgvDisconnects \/ SetUgvTarget
  \/ \E order \in Orders : ToggleWithName(order)
  \/ CloseDialog \/ DoAction \/ PressEnter
  \/ LeavePage \/ ReturnToPage

OrdersSpec == OrdersInit /\ [][OrdersNext]_ordersVars

-----------------------------------------------------------------------------

\* The variables have the types the code gives them.
OrdersTypeOK ==
  /\ DriveTypeOK
  /\ page \in {"controls", "other"}
  /\ dialog \in BOOLEAN /\ {message, action} \subseteq Orders \cup {"none"}
  /\ orphans \in Seq(Orders) /\ Len(orphans) <= MaxOrphans
  /\ sent \in Seq(Orders)
  /\ ugv_connected \in BOOLEAN
  /\ ugv_order \in {"none", "drive", "disable"}
  /\ ugv_target \in {Official, Chosen}
  /\ disabled \in {"no", "timer", "yes"}

\* "Are you sure you want to {message}?" (DroneActions.js:122): whatever is
\* transmitted was asked for by the dialog that is open, and is what it names,
\* until a page is left while its dialog is open.
SendsWhatIsOnScreen ==
  orphans = <<>> => \A i \in 1 .. Len(sent') : dialog /\ sent'[i] = message
OnlyOrdersOnScreen == [][SendsWhatIsOnScreen]_ordersVars

\* A UGV that was disabled does not drive before somebody asks for it, when
\* no drive was pending when it was disabled.
KeepsDisabled ==
  disabled = "yes" /\ disabled' = "yes"
    => ugv_order' # "drive" \/ UNCHANGED ugv_order
DisabledStaysDisabledWithoutTimer == [][KeepsDisabled]_ordersVars
=============================================================================
