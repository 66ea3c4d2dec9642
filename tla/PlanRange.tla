----------------------------- MODULE PlanRange -----------------------------
(***************************************************************************)
(* The part of the plan that the drone is to fly, in one browser of the    *)
(* archived ground interface (Sidebar/MissionPlanner.jsx, Home/Home.jsx).  *)
(* A command may be marked as the start or as the end; Run Mission sends   *)
(* the commands between them, and the list shows them in green.  A row of  *)
(* the list is drawn again only when the change says that it concerns it.  *)
(*                                                                         *)
(* Right click on a row opens a window whose buttons act on the row with   *)
(* that number.                                                            *)
(***************************************************************************)
EXTENDS Integers, FiniteSets, SequencesExt

CONSTANTS
  Ids,      \* bounds the number of commands that are ever made
  Careful   \* nothing but the list changes the plan while the window is open

RangeAssumption == IsFiniteSet(Ids) /\ Careful \in BOOLEAN

VARIABLES
  commands, \* each with its marks; id tells commands apart
  green,    \* the row as it was drawn last
  popup,    \* cmdPopupIndex, from 1; 0 when the window is closed
  clicked,  \* the command that was clicked on (history)
  partly    \* marks have moved and only some rows were drawn (history)

rangeVars == <<commands, green, popup, clicked, partly>>

Nobody == "nobody"
NewCommand(id) == [id |-> id, isStart |-> FALSE, isEnd |-> FALSE]

RangeInit ==
  /\ commands = <<>> /\ green = <<>>
  /\ popup = 0 /\ clicked = Nobody /\ partly = FALSE

Marked(plan, mark) == {i \in DOMAIN plan : plan[i][mark]}
\* findIndex, or the given value when there is none
First(plan, mark, none) ==
  IF Marked(plan, mark) = {} THEN none ELSE Min(Marked(plan, mark))

\* get_mission: the commands that are sent.
GetMission(plan) ==
  LET start == First(plan, "isStart", 1)
      end == First(plan, "isEnd", Len(plan))
  IN  IF start > end THEN DOMAIN plan ELSE start .. end

\* The color that a row gets when it is drawn.
IsGreen(plan, i) ==
  LET start == First(plan, "isStart", 0)
      end == First(plan, "isEnd", Len(plan))
  IN  start > end \/ i \in start .. end

\* setHomeState: rows of the range, or all, are drawn, and new ones are.
Show(plan, range, all) ==
  /\ commands' = plan
  /\ green' = [i \in DOMAIN plan |->
                IF all \/ i \in range \/ i > Len(green)
                THEN IsGreen(plan, i) ELSE green[i]]

-----------------------------------------------------------------------------

\* From the list, and from a place or an object on the map
AddCommand ==
  /\ \E id \in Ids \ {commands[i].id : i \in DOMAIN commands} :
       Show(Append(commands, NewCommand(id)), {Len(commands) + 1}, FALSE)
  /\ UNCHANGED <<popup, clicked, partly>>

ContextMenu(i) ==
  /\ i \in DOMAIN commands
  /\ popup' = i /\ clicked' = commands[i].id
  /\ UNCHANGED <<commands, green, partly>>

\* hideCmdPopup: every click on the page reaches the document in the end, and
\* scrolling the list does the same.
HideCmdPopup ==
  /\ popup # 0 /\ popup' = 0 /\ clicked' = Nobody
  /\ UNCHANGED <<commands, green, partly>>

Close == popup' = 0 /\ clicked' = Nobody

Unmark(plan, mark) == [i \in DOMAIN plan |-> [plan[i] EXCEPT ![mark] = FALSE]]

\* Mutant of SetCommandStart: the earlier start keeps its mark.
SetCommandStartAgain(i) ==
  /\ i \in DOMAIN commands
  /\ Show([commands EXCEPT ![i].isStart = TRUE], {i}, TRUE)
  /\ Close /\ partly' = FALSE

\* setCommandStart: there is one start, and an end before it goes.
SetCommandStart(i) ==
  LET once == Unmark(commands, "isStart")
      plan == IF i > First(commands, "isEnd", i) THEN Unmark(once, "isEnd")
              ELSE once
  IN  /\ i \in DOMAIN commands
      /\ Show([plan EXCEPT ![i].isStart = TRUE], {i}, TRUE)
      /\ Close /\ partly' = FALSE

SetCommandEnd(i) ==
  LET once == Unmark(commands, "isEnd")
      plan == IF i < First(commands, "isStart", i) THEN Unmark(once, "isStart")
              ELSE once
  IN  /\ i \in DOMAIN commands
      /\ Show([plan EXCEPT ![i].isEnd = TRUE], {i}, TRUE)
      /\ Close /\ partly' = FALSE

DeleteCommand(i) ==
  /\ i \in DOMAIN commands
  /\ Show(RemoveAt(commands, i), i .. Len(commands) - 1, TRUE)
  /\ Close /\ partly' = FALSE

\* The window's number has no row any more: marks are taken away, with the row
\* of the one taken last, before the command that is not there throws.
NoSuchCommand(plan) ==
  LET unmarked == {i \in DOMAIN plan : plan[i] # commands[i]}
      last == {i \in unmarked : commands[i].isEnd}
  IN  /\ Show(plan, IF last = {} THEN unmarked ELSE last, FALSE)
      /\ partly' = (partly \/ unmarked # {})

PopupOfNothing ==
  /\ popup \notin DOMAIN commands /\ Close
  /\ \/ NoSuchCommand(Unmark(Unmark(commands, "isStart"), "isEnd"))
     \/ NoSuchCommand(Unmark(commands, "isEnd"))
     \/ Show(commands, {}, TRUE) /\ partly' = FALSE

\* The buttons of the window
Popup ==
  /\ popup # 0
  /\ \/ SetCommandStart(popup) \/ SetCommandEnd(popup) \/ DeleteCommand(popup)
     \/ PopupOfNothing

ArrayMove(plan, i, j) == InsertAt(RemoveAt(plan, i), j, plan[i])

OnSortEnd(i, j) ==
  /\ {i, j} \subseteq DOMAIN commands /\ i # j
  /\ Show(ArrayMove(commands, i, j), {}, TRUE)
  /\ Close /\ partly' = FALSE

\* The command is changed, or another one takes its place and its marks.
OnCommandTypeChange(i) ==
  /\ i \in DOMAIN commands
  /\ Show(commands, {i}, FALSE)
  /\ Close /\ UNCHANGED partly

\* The remove buttons on the map do not say that marks may have moved.
RemoveOnMap(i) ==
  /\ i \in DOMAIN commands /\ (Careful => popup = 0)
  /\ Show(RemoveAt(commands, i), i .. Len(commands) - 1, FALSE)
  /\ partly' = (partly \/ commands[i].isStart \/ commands[i].isEnd)
  /\ UNCHANGED <<popup, clicked>>

\* Another browser marks, unmarks or deletes a command.  It sends the removal
\* of an old mark first, without asking for all rows, and a field change that
\* follows the mark within 250 ms may take the place of the request for them.
CommandsChanged ==
  /\ Careful => popup = 0
  /\ \E i \in DOMAIN commands, all \in BOOLEAN :
       \/ Show(RemoveAt(commands, i), i .. Len(commands) - 1, all)
          /\ partly' = ~all
       \/ \E mark \in {"isStart", "isEnd"}, marked \in BOOLEAN :
            /\ marked => Marked(commands, mark) = {}
            /\ Show([commands EXCEPT ![i][mark] = marked], {i}, all)
            /\ partly' = ~all
  /\ UNCHANGED <<popup, clicked>>

\* clearCommands, and a plan that the server sends on request
WholePlan(plan) ==
  /\ Careful => popup = 0
  /\ Show(plan, {}, TRUE)
  /\ partly' = FALSE /\ UNCHANGED <<popup, clicked>>

RangeNext ==
  \/ AddCommand \/ HideCmdPopup \/ Popup \/ CommandsChanged \/ WholePlan(<<>>)
  \/ \E i \in DOMAIN commands :
       ContextMenu(i) \/ OnCommandTypeChange(i) \/ RemoveOnMap(i)
  \/ \E i, j \in DOMAIN commands : OnSortEnd(i, j)

RangeSpec == RangeInit /\ [][RangeNext]_rangeVars

-----------------------------------------------------------------------------

\* Types; there is a row for each command.
RangeTypeOK ==
  /\ \A i \in DOMAIN commands :
       commands[i] \in [id : Ids, isStart : BOOLEAN, isEnd : BOOLEAN]
  /\ DOMAIN green = DOMAIN commands /\ popup \in 0 .. Cardinality(Ids)

\* Set Start and Set End take the mark from the command that had it: the first
\* marked command that get_mission and the rows look for is the only one.
OneStartOneEnd ==
  /\ Cardinality(Marked(commands, "isStart")) <= 1
  /\ Cardinality(Marked(commands, "isEnd")) <= 1

\* The green rows are those that Run Mission sends, although rows are drawn at
\* different times, unless a change that moved marks drew only some of them.
GreenIsSent == ~partly => {i \in DOMAIN green : green[i]} = GetMission(commands)

\* The buttons of the window act on the command that was clicked on, when no
\* one else changes the plan meanwhile: deleting, adding and sorting in the
\* list never leave the window on another command.
WindowIsForTheClicked ==
  popup # 0 => /\ popup \in DOMAIN commands
               /\ commands[popup].id = clicked

=============================================================================
