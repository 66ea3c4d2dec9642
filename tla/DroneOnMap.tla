---------------------------- MODULE DroneOnMap -----------------------------
(***************************************************************************)
(* The drone on the map of the archived ground interface (Map/Map.jsx):    *)
(* its marker, the path it leaves, and whether the map follows it.  Places *)
(* lie on a line.  The map is made anew whenever the operator comes back   *)
(* to it from another page.                                                *)
(***************************************************************************)
EXTENDS Integers, SequencesExt

CONSTANTS
  Places,     \* where the drone may be and the map be dragged to
  Field,      \* the center of a new map
  Step,       \* the path goes on after 10 m,
  Jump,       \* up to 10000 m;
  Margin,     \* the map follows after 50 m
  MaxPath     \* a longer path loses its first point

DroneOnMapAssumption ==
  /\ Places \subseteq Int /\ Field \in Places
  /\ {Step, Jump, Margin, MaxPath} \subseteq Nat
  /\ Step < Jump /\ MaxPath > 0

VARIABLES
  path, marker, center,
  followDrone,  \* of the App, which outlives the map
  telemetry     \* the place last told, if the drone has been connected since

mapVars == <<path, marker, center, followDrone, telemetry>>

NoPlace == <<>>
Distance(p, q) == IF p < q THEN q - p ELSE p - q

MapInit ==
  /\ path = <<>> /\ marker = Field /\ center = Field
  /\ followDrone = TRUE /\ telemetry = NoPlace

\* The path after a position.  Emptying it empties another array.
NextPath(old, p) ==
  LET distance == IF old = <<>> THEN 0 ELSE Distance(p, Last(old))
      longer == IF distance > Step /\ distance <= Jump THEN Append(old, p)
                ELSE old
  IN  IF Len(longer) > MaxPath THEN Tail(longer)
      ELSE IF longer = <<>> THEN <<p>> ELSE longer

\* update_drone_position, and what its map is centered on
Update(oldPath, oldCenter, p) ==
  /\ path' = NextPath(oldPath, p)
  /\ marker' = p
  /\ center' = IF followDrone /\ Distance(p, oldCenter) > Margin THEN p
               ELSE oldCenter

\* on_telemetry
Telemetry(p) ==
  /\ telemetry' = <<p>>
  /\ Update(path, center, p)
  /\ UNCHANGED followDrone

\* drone_disconnected: the map keeps what it shows.
DroneDisconnected ==
  /\ telemetry' = NoPlace
  /\ UNCHANGED <<path, marker, center, followDrone>>

\* dragstart, and where the map is dragged to
Drag(p) ==
  /\ followDrone' = FALSE /\ center' = p
  /\ UNCHANGED <<path, marker, telemetry>>

\* focus_on_command: the map goes to the command at p.
FocusOnCommand(p) ==
  /\ followDrone' = FALSE /\ center' = p
  /\ UNCHANGED <<path, marker, telemetry>>

\* followDrone, by a click on the logo, and pan_to_drone_if_following
FollowDrone ==
  /\ ~followDrone /\ followDrone' = TRUE /\ center' = marker
  /\ UNCHANGED <<path, marker, telemetry>>

\* The page is left and opened again: componentDidMount
Mount ==
  /\ IF telemetry = NoPlace
     THEN path' = <<>> /\ marker' = Field /\ center' = Field
     ELSE Update(<<>>, Field, telemetry[1])
  /\ UNCHANGED <<followDrone, telemetry>>

MapNext ==
  \/ \E p \in Places : Telemetry(p) \/ Drag(p) \/ FocusOnCommand(p)
  \/ DroneDisconnected \/ FollowDrone \/ Mount

MapSpec == MapInit /\ [][MapNext]_mapVars

-----------------------------------------------------------------------------

\* Types; the path never grows beyond its bound.
DroneOnMapTypeOK ==
  /\ path \in Seq(Places) /\ Len(path) <= MaxPath
  /\ {marker, center} \subseteq Places /\ followDrone \in BOOLEAN
  /\ telemetry = NoPlace \/ telemetry \in [1 .. 1 -> Places]

\* The path ends at the drone, up to the step, unless the drone has jumped
\* away from its end.
PathEndsAtTheDrone ==
  path # <<>> => LET d == Distance(Last(path), marker)
                 IN  d <= Step \/ d > Jump

\* A map that follows the drone has it near the center, whoever moved the map
\* and whenever it was made.
FollowedIsInView == followDrone => Distance(marker, center) <= Margin
=============================================================================
