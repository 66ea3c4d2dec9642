------------------------------ MODULE PlanSync ------------------------------
(***************************************************************************)
(* The plan shared by the browsers of the archived ground interface: the   *)
(* Home component (archive/interface/src/Home/Home.jsx) keeps the commands *)
(* and sends its changes, at most one every 250 ms, through the ground     *)
(* server, which keeps the last plan it was sent, to the other browsers.   *)
(* A change carries the whole plan and the range that was changed; the     *)
(* receiver keeps its own commands outside the range.                      *)
(*                                                                         *)
(* Positions in a plan start at 1.  A command is a value, fresh for every  *)
(* edit, and whether it stands for an object of the interop mission.       *)
(* Channels are first in, first out.                                       *)
(***************************************************************************)
EXTENDS Integers, FiniteSets, SequencesExt

CONSTANTS
  UIs,        \* browsers
  Agreeing,   \* those whose interop mission has the plan's objects
  MaxLength, MaxEdits, MaxRemounts  \* bounds

PlanSyncAssumption ==
  /\ Agreeing \subseteq UIs
  /\ {MaxLength, MaxEdits, MaxRemounts} \subseteq Nat
  /\ MaxLength >= 2  \* the first plan's

VARIABLES
  home,       \* the Home component of each browser
  toServer, toUi,
  plan,       \* the server's commands
  edits, remounts,
  editors,    \* history: who edited each position's fields,
  overlapped, \*   a change was made before another one had arrived,
  reshaped    \*   and something else than a field was changed

planVars == <<home, toServer, toUi, plan, edits, remounts, editors, overlapped,
              reshaped>>

Command(v, interop) == [value |-> v, interop |-> interop]
Err       == Command(-1, FALSE)  \* 'Commands do not agree with interop data!!!'
Undefined == Command(-2, FALSE)

WholePlan     == [startIndex |-> 0, endIndex |-> 0]  \* changedCommands is null
Between(i, j) == [startIndex |-> i, endIndex |-> j]

Change(commands, range, restore) ==
  [type |-> "commands_changed", commands |-> commands,
   changedCommands |-> range, restoreCommands |-> restore]
Request(restore) ==
  [type |-> "request_commands", restoreCommands |-> restore]

\* A component that was just mounted.  Its listener stays when it is not.
NewHome ==
  [mounted |-> TRUE, listens |-> TRUE, commands |-> <<>>,
   invalidCommands |-> FALSE,
   commandChangeSendQueue |-> <<>>]

\* Two positions and one object, which every browser has been sent.
InitialPlan == <<Command(0, FALSE), Command(0, FALSE)>>

PlanInit ==
  /\ plan = InitialPlan
  /\ home = [u \in UIs |->
       [now |-> [NewHome EXCEPT !.commands = plan],
        \* the component before the last mount: its listener and its timer stay
        old |-> [NewHome EXCEPT !.mounted = FALSE, !.listens = FALSE]]]
  /\ toServer = [u \in UIs |-> <<>>] /\ toUi = [u \in UIs |-> <<>>]
  /\ edits = 0 /\ remounts = 0
  /\ editors = [i \in 1 .. MaxLength |-> {}]
  /\ overlapped = FALSE /\ reshaped = FALSE

-----------------------------------------------------------------------------
(* setHomeState.                                                           *)

\* Mutant of AddToCommandSendQueue: the range is not extended.
AddWithLastRange(queue, change) ==
  LET r == change.changedCommands
      l == IF queue = <<>> THEN WholePlan ELSE Last(queue).changedCommands
  IN  IF /\ l # WholePlan /\ r # WholePlan
         /\ r.startIndex <= l.endIndex + 1 /\ r.endIndex >= l.startIndex - 1
      THEN Append(Front(queue), change) ELSE Append(queue, change)

\* addToCommandSendQueue: a change that touches the last range extends it.
AddToCommandSendQueue(queue, change) ==
  LET r == change.changedCommands
      l == IF queue = <<>> THEN WholePlan ELSE Last(queue).changedCommands
      touches == /\ l # WholePlan /\ r # WholePlan
                 /\ r.startIndex <= l.endIndex + 1
                 /\ r.endIndex >= l.startIndex - 1
      merged == Between(Min({r.startIndex, l.startIndex}),
                      Max({r.endIndex, l.endIndex}))
  IN  IF touches
      THEN Append(Front(queue), [change EXCEPT !.changedCommands = merged])
      ELSE Append(queue, change)

\* The component h takes the commands and sends them: at once, when nothing
\* is queued and 250 ms have passed since the last change, or later.
SetHomeState(u, h, commands, range) ==
  LET change == Change(commands, range, FALSE)
      taken  == [h EXCEPT !.commands = commands, !.invalidCommands = FALSE]
  IN  \/ /\ h.commandChangeSendQueue = <<>>
         /\ home' = [home EXCEPT ![u].now = taken]
         /\ toServer' = [toServer EXCEPT ![u] = Append(@, change)]
      \/ /\ home' = [home EXCEPT ![u].now =
               [taken EXCEPT !.commandChangeSendQueue =
                  AddToCommandSendQueue(@, change)]]
         /\ UNCHANGED toServer

\* sendQueuedCommands, of the component in use or of the one before it.
SendQueuedCommands(u, c) ==
  LET queue == home[u][c].commandChangeSendQueue
  IN  /\ queue # <<>>
      /\ toServer' = [toServer EXCEPT ![u] = Append(@, Head(queue))]
      /\ home' = [home EXCEPT ![u][c].commandChangeSendQueue = Tail(queue)]
      /\ UNCHANGED <<toUi, plan, edits, remounts, editors, overlapped,
                     reshaped>>

-----------------------------------------------------------------------------
(* What the operator changes.                                              *)

\* Every other change was sent, reached the server and was received here.
OthersSent(u) ==
  /\ home[u].old.commandChangeSendQueue = <<>>
  /\ \A v \in UIs \ {u} :
       /\ toServer[v] = <<>>
       /\ \A c \in {"now", "old"} : home[v][c].commandChangeSendQueue = <<>>

Alone(u) ==
  /\ OthersSent(u) /\ toUi[u] = <<>>
  /\ Request(FALSE) \notin ToSet(toServer[u])
  /\ Request(TRUE) \notin ToSet(toServer[u])

\* A change that setHomeState lets through.
Changes(u, commands, range) ==
  /\ home[u].now.mounted /\ ~home[u].now.invalidCommands
  /\ edits < MaxEdits /\ edits' = edits + 1
  /\ overlapped' = (overlapped \/ ~Alone(u))
  /\ SetHomeState(u, home[u].now, commands, range)
  /\ UNCHANGED <<toUi, plan, remounts>>

ChangedCommandField(u, i) ==
  LET commands == home[u].now.commands
  IN  /\ i \in DOMAIN commands
      /\ Changes(u, [commands EXCEPT ![i].value = edits + 1], Between(i, i))
      /\ editors' = [editors EXCEPT ![i] = @ \cup {u}]
      /\ UNCHANGED reshaped

\* The number and order of the commands change, or what they stand for.
Reshapes(u, commands, range) ==
  /\ Changes(u, commands, range)
  /\ reshaped' = TRUE
  /\ UNCHANGED editors

\* addCommand; the map adds the objects of the interop mission that it shows.
AddCommand(u, interop) ==
  LET commands == home[u].now.commands
      n        == Len(commands) + 1
  IN  /\ n <= MaxLength
      /\ interop => u \in Agreeing
      /\ Reshapes(u, Append(commands, Command(edits + 1, interop)),
                  Between(n, n))

DeleteCommand(u, i) ==
  LET commands == home[u].now.commands
  IN  /\ i \in DOMAIN commands
      /\ Reshapes(u, RemoveAt(commands, i), Between(i, Len(commands)))

\* arrayMove
OnSortEnd(u, i, j) ==
  LET commands == home[u].now.commands
  IN  /\ {i, j} \subseteq DOMAIN commands /\ i # j
      /\ Reshapes(u, InsertAt(RemoveAt(commands, i), j, commands[i]),
                  Between(Min({i, j}), Max({i, j})))

\* clearCommands, confirmed: allowed when the commands are invalid, too.
ClearCommands(u) ==
  /\ home[u].now.mounted
  /\ edits < MaxEdits /\ edits' = edits + 1
  /\ overlapped' = (overlapped \/ ~Alone(u))
  /\ SetHomeState(u, home[u].now, <<>>, WholePlan)
  /\ reshaped' = TRUE
  /\ UNCHANGED <<toUi, plan, remounts, editors>>

\* The button exists while the commands are invalid.
RestoreCommands(u) ==
  /\ home[u].now.mounted /\ home[u].now.invalidCommands
  /\ edits < MaxEdits /\ edits' = edits + 1
  /\ toServer' = [toServer EXCEPT ![u] = Append(@, Request(TRUE))]
  /\ overlapped' = (overlapped \/ ~Alone(u))
  /\ UNCHANGED <<home, toUi, plan, remounts, editors, reshaped>>

-----------------------------------------------------------------------------
(* The server, and the listener of commands_changed.                       *)

ServerReceives(u) ==
  /\ toServer[u] # <<>>
  /\ toServer' = [toServer EXCEPT ![u] = Tail(@)]
  /\ LET m == Head(toServer[u])
     IN  \/ /\ m.type = "commands_changed"
            /\ plan' = m.commands
            /\ toUi' = [v \in UIs |-> IF v = u THEN toUi[v]
                                      ELSE Append(toUi[v], m)]
         \/ /\ m.type = "request_commands"
            /\ toUi' = [toUi EXCEPT ![u] =
                 Append(@, Change(plan, WholePlan, m.restoreCommands))]
            /\ UNCHANGED plan
  /\ UNCHANGED <<home, edits, remounts, editors, overlapped, reshaped>>

\* The message after a component's listener has changed it: outside the range
\* the component's own commands, unless they are invalid.
Merge(h, m) ==
  LET r   == m.changedCommands
      own(i) == IF i <= Len(h.commands) THEN h.commands[i] ELSE Undefined
  IN  IF ~h.listens THEN m
      ELSE IF h.invalidCommands THEN [m EXCEPT !.changedCommands = WholePlan]
      ELSE IF r = WholePlan THEN m
      ELSE [m EXCEPT !.commands = [i \in DOMAIN m.commands |->
              IF i < r.startIndex \/ (i > r.endIndex /\ i <= Len(h.commands))
              THEN own(i) ELSE m.commands[i]]]

\* The positions of objects that the browser's mission does not have.
Unknown(u, commands) ==
  IF u \in Agreeing THEN {}
  ELSE {i \in DOMAIN commands : commands[i].interop}

\* Every listener is given the same message, the oldest first.  The map then
\* looks for the objects: it replaces a plan that it cannot show, or makes
\* plain commands of the objects when the operator asked to restore it.
UiReceives(u) ==
  /\ toUi[u] # <<>>
  /\ toUi' = [toUi EXCEPT ![u] = Tail(@)]
  /\ LET h        == home[u].now
         m        == Merge(h, Merge(home[u].old, Head(toUi[u])))
         unknown  == Unknown(u, m.commands)
         taken    == [h EXCEPT !.commands = m.commands,
                               !.invalidCommands = FALSE]
         refused  == [h EXCEPT !.commands = <<Err>>, !.invalidCommands = TRUE]
         restored == [i \in DOMAIN m.commands |->
                        [m.commands[i] EXCEPT
                           !.interop = @ /\ i \notin unknown]]
     IN  \/ ~h.mounted /\ UNCHANGED <<home, toServer, overlapped, reshaped>>
         \/ /\ h.mounted /\ unknown = {}
            /\ home' = [home EXCEPT ![u].now = taken]
            /\ UNCHANGED <<toServer, overlapped, reshaped>>
         \/ /\ h.mounted /\ unknown # {} /\ ~m.restoreCommands
            /\ home' = [home EXCEPT ![u].now = refused]
            /\ UNCHANGED <<toServer, overlapped, reshaped>>
         \/ /\ h.mounted /\ unknown # {} /\ m.restoreCommands
            /\ SetHomeState(u, taken, restored,
                            Between(Min(unknown), Max(unknown)))
            /\ overlapped' = (overlapped \/ ~OthersSent(u)
                                \/ Len(toUi[u]) > 1)
            /\ reshaped' = TRUE
  /\ UNCHANGED <<plan, edits, remounts, editors>>

\* The operator opens another page, and comes back.
Unmount(u) ==
  /\ home[u].now.mounted /\ remounts < MaxRemounts
  /\ home[u].old.commandChangeSendQueue = <<>>
  /\ home' = [home EXCEPT ![u].old = [home[u].now EXCEPT !.mounted = FALSE],
                          ![u].now = [NewHome EXCEPT !.mounted = FALSE]]
  /\ remounts' = remounts + 1
  /\ UNCHANGED <<toServer, toUi, plan, edits, editors, overlapped, reshaped>>

Mount(u) ==
  /\ ~home[u].now.mounted
  /\ home' = [home EXCEPT ![u].now.mounted = TRUE]
  /\ toServer' = [toServer EXCEPT ![u] = Append(@, Request(FALSE))]
  /\ overlapped' = (overlapped \/ home[u].old.commandChangeSendQueue # <<>>)
  /\ UNCHANGED <<toUi, plan, edits, remounts, editors, reshaped>>

-----------------------------------------------------------------------------

OperatorNext(u) ==
  \/ \E i, j \in 1 .. MaxLength :
       \/ ChangedCommandField(u, i) \/ DeleteCommand(u, i) \/ OnSortEnd(u, i, j)
  \/ \E interop \in BOOLEAN : AddCommand(u, interop)
  \/ ClearCommands(u) \/ RestoreCommands(u) \/ Unmount(u) \/ Mount(u)

PlanNext ==
  \E u \in UIs :
    \/ OperatorNext(u)
    \/ \E c \in {"now", "old"} : SendQueuedCommands(u, c)
    \/ ServerReceives(u) \/ UiReceives(u)

PlanSpec == PlanInit /\ [][PlanNext]_planVars

-----------------------------------------------------------------------------

Quiet ==
  \A u \in UIs :
    /\ toServer[u] = <<>> /\ toUi[u] = <<>>
    /\ \A c \in {"now", "old"} : home[u][c].commandChangeSendQueue = <<>>

\* Only fields were changed so far, those of each command in one browser.
OwnFieldsOnly ==
  /\ ~reshaped /\ remounts = 0
  /\ \A i \in DOMAIN editors : Cardinality(editors[i]) <= 1

Shown(u) == home[u].now.mounted /\ ~home[u].now.invalidCommands

\* A plan holds commands; the one that says that it is invalid stands alone,
\* in a browser that does not send it, and no plan is longer than the bound.
PlanTypeOK ==
  /\ \A u \in UIs :
       /\ Err \in ToSet(home[u].now.commands)
            <=> home[u].now.invalidCommands
       /\ home[u].now.invalidCommands
            => home[u].now.commands = <<Err>> /\ u \notin Agreeing
  /\ Len(plan) <= MaxLength
  /\ {edits, remounts} \subseteq Nat /\ {overlapped, reshaped} \subseteq BOOLEAN

\* The error that stands for an invalid plan is never sent: the plan that
\* the other browsers edit is not lost to one whose mission disagrees.
ErrorStaysHere ==
  LET channels == {toServer[u] : u \in UIs} \cup {toUi[u] : u \in UIs} \cup
        {home[u].now.commandChangeSendQueue : u \in UIs}
      changes == {m \in UNION {ToSet(q) : q \in channels} :
                    m.type = "commands_changed"}
  IN  \A commands \in {plan} \cup {m.commands : m \in changes} :
        Err \notin ToSet(commands)

\* Every browser that left the page can show every plan.  The listener that
\* one leaves behind puts old commands into a plan that replaces the error.
LeaversAgree == \A u \in UIs : home[u].old.listens => u \in Agreeing

\* When every change was made after the others had arrived, all browsers that
\* show a plan show the server's, however changes were queued and merged.
PlansAgree ==
  Quiet /\ ~overlapped /\ LeaversAgree =>
    \A u \in UIs : Shown(u) => home[u].now.commands = plan

\* Changes may cross each other: when the fields of each command are edited in
\* one browser only, the browsers agree as soon as everything has arrived.
EditsMerge ==
  Quiet /\ OwnFieldsOnly =>
    \A u, v \in UIs : home[u].now.commands = home[v].now.commands

=============================================================================
