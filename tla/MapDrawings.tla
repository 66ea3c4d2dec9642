---------------------------- MODULE MapDrawings ----------------------------
(***************************************************************************)
(* What the map of the archived ground interface draws of data that others *)
(* send (Map/Map.jsx): circles for the obstacles, and the path that the    *)
(* drone says it will fly.  Obstacles that only moved keep their circles.  *)
(***************************************************************************)
EXTENDS Integers, Sequences, SequencesExt

CONSTANTS
  Spots, Radii,
  MaxObstacles, MaxCommands, MaxPoints  \* bounds on lists and on sub-missions

DrawingsAssumption ==
  {MaxObstacles, MaxCommands, MaxPoints} \subseteq Nat

Obstacles == [place : Spots, radius : Radii]
Lists(S, n) == UNION {[1 .. k -> S] : k \in 0 .. n}

VARIABLES
  obstacles,  \* moving_obstacles of the App
  circles,    \* the map's table: each with the obstacle it was made for
  droneCommands,  \* for each its sub-mission's points, if there is one
  current,    \* droneCurrentCommand
  paths       \* what is drawn of them

drawingVars == <<obstacles, circles, droneCommands, current, paths>>

DrawingsInit ==
  /\ obstacles = <<>> /\ circles = <<>>
  /\ droneCommands = <<>> /\ current = 1
  /\ paths = [points |-> <<>>, current |-> <<>>]

\* make_obstacle_map_object
Circle(obstacle) == [made |-> obstacle, place |-> obstacle.place]

\* update_moving_obstacles goes through when no obstacle changed its size.
CanUpdate(list) ==
  /\ Len(list) = Len(circles)
  /\ \A i \in DOMAIN list : list[i].radius = circles[i].made.radius

\* set_moving_obstacles: the circles of the table are taken off the map.
SetMovingObstacles(list) ==
  circles' = [i \in DOMAIN list |-> Circle(list[i])]

\* refresh_moving_obstacles, of an interop_data or initial_data message
RefreshMovingObstacles(list) ==
  /\ obstacles' = list
  /\ IF CanUpdate(list)
     THEN circles' = [i \in DOMAIN list |->
                       [circles[i] EXCEPT !.place = list[i].place]]
     ELSE SetMovingObstacles(list)
  /\ UNCHANGED <<droneCommands, current, paths>>

\* The current command's points, from the last point before it on
Current(commands, i) ==
  LET before == FlattenSeq(FlattenSeq(SubSeq(commands, 1, i - 1)))
  IN  IF i \notin DOMAIN commands \/ commands[i] = <<>> THEN <<>>
      ELSE (IF before = <<>> THEN <<>> ELSE <<Last(before)>>)
             \o FlattenSeq(commands[i])

\* draw_drone_command_path, when telemetry brings another mission
DrawDroneCommandPath(commands, i) ==
  /\ droneCommands' = commands /\ current' = i
  /\ paths' = [points |-> FlattenSeq(FlattenSeq(commands)),
               current |-> Current(commands, i)]
  /\ UNCHANGED <<obstacles, circles>>

\* A command without a sub-mission is a list of none, else of one.
Commands == {<<>>} \cup {<<points>> : points \in Lists(Spots, MaxPoints)}

DrawingsNext ==
  \/ \E list \in Lists(Obstacles, MaxObstacles) : RefreshMovingObstacles(list)
  \/ \E commands \in Lists(Commands, MaxCommands), i \in 1 .. MaxCommands :
       DrawDroneCommandPath(commands, i)

DrawingsSpec == DrawingsInit /\ [][DrawingsNext]_drawingVars

-----------------------------------------------------------------------------

\* Every obstacle has its circle, where it is and as large as it is, also when
\* the circle was made for where the obstacle was before.
CirclesAreTheObstacles ==
  /\ DOMAIN circles = DOMAIN obstacles
  /\ \A i \in DOMAIN circles :
       /\ circles[i].place = obstacles[i].place
       /\ circles[i].made.radius = obstacles[i].radius

\* The line of the current command is a part of the drone's path without gaps,
\* and starts where the commands before it end.
CurrentIsPartOfThePath ==
  LET n == Len(paths.points)
      k == Len(paths.current)
      before == FlattenSeq(FlattenSeq(SubSeq(droneCommands, 1, current - 1)))
      start == IF before = <<>> THEN 1 ELSE Len(before)
  IN  k > 0 => /\ start + k - 1 <= n
               /\ SubSeq(paths.points, start, start + k - 1) = paths.current

=============================================================================
