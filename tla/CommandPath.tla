---------------------------- MODULE CommandPath ----------------------------
(***************************************************************************)
(* How the map of the archived ground interface follows the plan           *)
(* (draw_command_path in archive/interface/src/Map/Map.jsx): a marker for  *)
(* every command that has a position, and a line to it from the command    *)
(* before it that has one.  A change names the range that it touched, and  *)
(* only that range, and the next line, are drawn again.                    *)
(*                                                                         *)
(* The commands are the operator's own; those that stand for an object of  *)
(* the interop mission are in PlanLinks.  Indices start at 1.              *)
(***************************************************************************)
EXTENDS Integers, FiniteSets, SequencesExt

CONSTANTS
  Positions,
  NoPosition,      \* the position of a command that has none
  MaxPlan,    \* bound on the plan
  MaxStray      \* bound on the lines of one index that the map lost

PathAssumption ==
  /\ NoPosition \notin Positions
  /\ {MaxPlan, MaxStray} \subseteq Nat

VARIABLES
  positions,       \* the position of each command of the plan
  markers,        \* this.commands of the map
  commands_path,  \* this.commands_path
  map,            \* the markers and the lines that Google's map shows
  firstChanged    \* the index of the first command with a position has
                  \* changed (history)

pathVars == <<positions, markers, commands_path, map, firstChanged>>

NoMarker == [index |-> 0, pos |-> NoPosition]
NoLine   == [index |-> 0, copy |-> 0, from |-> NoPosition, to |-> NoPosition]

PathInit ==
  /\ positions = <<>> /\ markers = <<>> /\ commands_path = <<>>
  /\ map = [markers |-> {}, lines |-> {}]
  /\ firstChanged = FALSE

-----------------------------------------------------------------------------

\* The commands of a plan that have a position, and the one before i.
Placed(plan)          == {i \in DOMAIN plan : plan[i] # NoPosition}
PlacedBefore(plan, i) == {j \in Placed(plan) : j < i}
Previous(plan, i)     == plan[Max(PlacedBefore(plan, i))]

\* The array's element, null beyond its length.
At(array, i, null) == IF i \in DOMAIN array THEN array[i] ELSE null

\* Google's map cannot tell two lines apart, the program can: a line has the
\* index that it was drawn for and the number of a copy that is not in use.
NewLine(plan, i) ==
  LET used == {l.copy : l \in {l \in map.lines : l.index = i}
                          \cup {At(commands_path, i, NoLine)}}
  IN  [index |-> i, copy |-> Min((1 .. MaxStray + 2) \ used),
       from |-> Previous(plan, i), to |-> plan[i]]

\* The marker's listeners keep the index.
NewMarker(plan, i) ==
  IF plan[i] = NoPosition THEN NoMarker ELSE [index |-> i, pos |-> plan[i]]

\* Mutant of LastDrawn: the next line is not drawn again.
LastOfRange(plan, end) == Min({end, Len(plan)})

\* The indices at which a line is drawn: the range, and on to the first line
\* after it.
LastDrawn(plan, end) ==
  LET after == {i \in Placed(plan) : i > end /\ PlacedBefore(plan, i) # {}}
  IN  IF after = {} THEN Len(plan) ELSE Min(after)

\* draw_command_path: the marker and the lines that the range replaces are
\* taken off the map first.
DrawCommandPath(plan, start, end) ==
  LET drawn   == start .. LastDrawn(plan, end)
      beyond  == {i \in DOMAIN commands_path :
                    i > end /\ commands_path[i] # NoLine}
      cleared == (start .. end) \cup (IF beyond = {} THEN {} ELSE {Min(beyond)})
      old(i)  == At(commands_path, i, NoLine)
      line(i) == IF i \notin drawn THEN old(i)
                 ELSE IF plan[i] = NoPosition THEN NoLine
                 ELSE IF PlacedBefore(plan, i) = {} THEN old(i)
                 ELSE NewLine(plan, i)
      marker(i) == IF i \in start .. end THEN NewMarker(plan, i)
                   ELSE At(markers, i, NoMarker)
  IN  /\ positions' = plan
      /\ commands_path' = [i \in DOMAIN plan |-> line(i)]
      /\ markers' = [i \in DOMAIN plan |-> marker(i)]
      /\ map' =
           [markers |-> (map.markers \ {At(markers, i, NoMarker) :
                                          i \in start .. end})
              \cup {marker(i) : i \in (start .. end) \cap Placed(plan)},
            lines |-> (map.lines \ {old(i) : i \in cleared})
              \cup {line(i) : i \in {i \in drawn \cap Placed(plan) :
                                       PlacedBefore(plan, i) # {}}}]
      /\ firstChanged' = (firstChanged \/
           /\ Placed(positions) # {} /\ Placed(plan) # {}
           /\ Min(Placed(positions)) # Min(Placed(plan)))

\* changedCommands is null: everything is drawn.
DrawAll(plan) ==
  DrawCommandPath(plan, 1, Max({Len(plan), Len(markers)}))

-----------------------------------------------------------------------------
(* What changes the plan.                                                  *)

\* Add Command of the planner adds a command without a position.
AddCommand(pos) ==
  LET n == Len(positions) + 1
  IN  n <= MaxPlan /\ DrawCommandPath(Append(positions, pos), n, n)

\* deleteCommand, and the buttons that remove a command on the map.
DeleteCommand(i) ==
  DrawCommandPath(RemoveAt(positions, i), i, Len(positions))

OnSortEnd(i, j) ==
  /\ i # j
  /\ DrawCommandPath(InsertAt(RemoveAt(positions, i), j, positions[i]),
                     Min({i, j}), Max({i, j}))

\* onCommandTypeChange and changed_command_field
ChangeCommand(i, pos) ==
  DrawCommandPath([positions EXCEPT ![i] = pos], i, i)

\* dragend of a marker changes the command of the index that it was made for.
DragEnd(m, pos) ==
  /\ m \in map.markers
  /\ DrawCommandPath([positions EXCEPT ![m.index] = pos], m.index, m.index)

\* clearCommands, and a plan that the server sends as a whole
WholePlan(plan) == DrawAll(plan)

PathNext ==
  \/ \E pos \in Positions \cup {NoPosition} :
       \/ AddCommand(pos)
       \/ \E i \in DOMAIN positions : ChangeCommand(i, pos)
  \/ \E i, j \in DOMAIN positions : DeleteCommand(i) \/ OnSortEnd(i, j)
  \/ \E m \in map.markers, pos \in Positions : DragEnd(m, pos)
  \/ \E plan \in {<<>>, Reverse(positions)} : WholePlan(plan)

\* The bound on stray lines is checked after the step.
BoundedNext ==
  /\ PathNext
  /\ \A l \in map'.lines : l.copy <= MaxStray + 1

PathSpec == PathInit /\ [][BoundedNext]_pathVars

-----------------------------------------------------------------------------

Lines(plan) ==
  {<<Previous(plan, i), plan[i]>> :
     i \in {i \in Placed(plan) : PlacedBefore(plan, i) # {}}}

\* The map's arrays are as long as the plan, and no marker is of a command
\* beyond its end.
PathTypeOK ==
  /\ positions \in BoundedSeq(Positions \cup {NoPosition}, MaxPlan)
  /\ DOMAIN markers = DOMAIN positions
  /\ DOMAIN commands_path = DOMAIN positions
  /\ \A m \in map.markers : m.index \in DOMAIN positions
  /\ firstChanged \in BOOLEAN

\* However the plan is added to, reordered, cut and replaced, the map shows
\* the markers of the commands that have a position, where they are, and
\* dragging or removing one changes its own command.
MarkersAreThePlan ==
  /\ map.markers = {[index |-> i, pos |-> positions[i]] : i \in Placed(positions)}
  /\ \A i \in DOMAIN positions : markers[i] = NewMarker(positions, i)

\* "Reset command annotations on map." (Map.jsx:240): the lines on the map
\* are those of the plan, each one once.
PathIsThePlan ==
  /\ {<<l.from, l.to>> : l \in map.lines} = Lines(positions)
  /\ map.lines \subseteq ToSet(commands_path)

\* They are, until the index of the first command with a position changes.
PathFollowsThePlan == ~firstChanged => PathIsThePlan

=============================================================================
