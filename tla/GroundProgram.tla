---------------------------- MODULE GroundProgram ----------------------------
(***************************************************************************)
(* The field a mission may be flown in.  The server puts it into the       *)
(* program it has compiled (makeGroundProgram of                           *)
(* src/ground/server/src/protobuf_utils.js) and the UI puts it on the map  *)
(* and beside the plan (mainFlyZone of redux/selectors/missionSelector.js, *)
(* components/Controls/Map/InteropItems.js): each picks the largest of     *)
(* interop's fly zones with a copy of the same code.                       *)
(*                                                                         *)
(* A point is <<longitude, latitude>>, a polygon a sequence of points.     *)
(***************************************************************************)
EXTENDS Integers, Sequences, SequencesExt

CONSTANTS
  Points,      \* where the corners of interop's zones lie
  MaxCorners, MaxZones   \* bounds on a zone and on their number

GroundProgramAssumption ==
  /\ Points \subseteq Int \X Int
  /\ {MaxCorners, MaxZones} \subseteq Nat

Polygons == UNION {[1..n -> Points] : n \in 0..MaxCorners}
ZoneMissions == UNION {[1..n -> Polygons] : n \in 0..MaxZones}

\* A value that may be absent is a sequence of none or one.
Nothing == <<>>
Null    == 0     \* the index of no zone

VARIABLES
  interopData,  \* the fly zones of the mission, if there is one
  sent,         \* the field_boundary of the program last sent, if any
  serverUp,     \* the server runs
  shown         \* the zone and its outline on the UI's map, if any

vars == <<interopData, sent, serverUp, shown>>

-----------------------------------------------------------------------------
(* The two copies.                                                         *)

Lng(p) == p[1]
Lat(p) == p[2]

\* What the edge from one corner to the next adds.
Edge(v, w) == Lng(v) * Lat(w) - Lng(w) * Lat(v)

\* shoelace: twice the signed area.
Shoelace(vertices) ==
  LET Sum[i \in 0..Len(vertices)] ==
        IF i = 0 THEN 0
        ELSE Sum[i - 1] + Edge(vertices[i], vertices[(i % Len(vertices)) + 1])
  IN  Sum[Len(vertices)]

PolygonArea(vertices) ==
  LET area == Shoelace(vertices) IN IF area < 0 THEN -area ELSE area

\* polygonIsClockwise
IsClockwise(vertices) == Shoelace(vertices) < 0

\* The UI's loop, which keeps the first of the largest zones.
MainFlyZone(zones) ==
  LET Best[i \in 0..Len(zones)] ==
        IF i = 0 THEN [area |-> -1, zone |-> Null]
        ELSE IF PolygonArea(zones[i]) > Best[i - 1].area
        THEN [area |-> PolygonArea(zones[i]), zone |-> i]
        ELSE Best[i - 1]
  IN  Best[Len(zones)].zone

\* The server's loop in makeGroundProgram.
ServerFlyZone(zones) ==
  LET Best[i \in 0..Len(zones)] ==
        IF i = 0 THEN [area |-> -1, zone |-> Null]
        ELSE IF PolygonArea(zones[i]) > Best[i - 1].area
        THEN [area |-> PolygonArea(zones[i]), zone |-> i]
        ELSE Best[i - 1]
  IN  Best[Len(zones)].zone

\* The box InteropItems shades around the first corner, and the hole it
\* leaves in it.
BoxCoordinates(center) ==
  LET x == Lng(center)
      y == Lat(center)
  IN  << <<x + 9, y + 9>>, <<x - 9, y + 9>>, <<x - 9, y - 9>>,
         <<x + 9, y - 9>> >>

\* Mutant of BoundaryCoordinates: the zone's own order is kept.
BoundaryAsGiven(zone) == zone

BoundaryCoordinates(zone) == IF IsClockwise(zone) THEN zone ELSE Reverse(zone)

\* The archived interface keeps the zone's order and turns the box around.
ArchiveBox(center) ==
  LET x == Lng(center)
      y == Lat(center)
  IN  << <<x - 9, y + 9>>, <<x - 9, y - 9>>, <<x + 9, y - 9>>,
         <<x + 9, y + 9>> >>

ArchivePaths(zone) ==
  [outline |-> zone,
   box |-> IF IsClockwise(zone) THEN ArchiveBox(zone[1])
           ELSE Reverse(ArchiveBox(zone[1]))]

-----------------------------------------------------------------------------
Init ==
  /\ interopData = Nothing
  /\ sent = Nothing
  /\ serverUp = TRUE
  /\ shown = Nothing

\* INTEROP_DATA reaches the UI; without a zone its selector throws.
InteropData(zones) ==
  /\ serverUp
  /\ interopData' = <<zones>>
  /\ sent' = Nothing
  /\ LET zone == MainFlyZone(zones)
     IN  shown' = IF zone = Null THEN Nothing
                  ELSE <<[zone    |-> zones[zone],
                          outline |-> BoundaryCoordinates(zones[zone])]>>
  /\ UNCHANGED serverUp

\* COMPILE_GROUND_PROGRAM: without a zone makeGroundProgram throws in the
\* socket's handler, and the server ends.  Without a mission there is no
\* boundary.
CompileGroundProgram ==
  /\ serverUp
  /\ IF interopData = Nothing
     THEN sent' = << <<>> >> /\ UNCHANGED serverUp
     ELSE LET zones == interopData[1]
              zone  == ServerFlyZone(zones)
          IN  IF zone = Null
              THEN serverUp' = FALSE /\ UNCHANGED sent
              ELSE sent' = <<zones[zone]>> /\ UNCHANGED serverUp
  /\ UNCHANGED <<interopData, shown>>

ServerRestarts ==
  /\ ~serverUp
  /\ serverUp' = TRUE
  /\ interopData' = Nothing /\ sent' = Nothing
  /\ UNCHANGED shown

Next ==
  \/ interopData = Nothing /\ \E zones \in ZoneMissions : InteropData(zones)
  \/ CompileGroundProgram
  \/ ServerRestarts

Spec == Init /\ [][Next]_vars

-----------------------------------------------------------------------------
\* Twice the signed area as a fan of triangles: the reference.
FanArea(v) ==
  LET Cross(i) == (Lng(v[i]) - Lng(v[1])) * (Lat(v[i + 1]) - Lat(v[1]))
                  - (Lng(v[i + 1]) - Lng(v[1])) * (Lat(v[i]) - Lat(v[1]))
      Sum[i \in 1..Len(v)] == IF i = 1 THEN 0
                              ELSE IF i = Len(v) THEN Sum[i - 1]
                              ELSE Sum[i - 1] + Cross(i)
  IN  IF v = <<>> THEN 0 ELSE Sum[Len(v)]

(* The formula gives the area wherever the zone lies, though the code      *)
(* works with coordinates that are far from zero.                          *)
ShoelaceIsTheArea ==
  \A m \in ToSet(interopData) : \A zone \in ToSet(m) :
    Shoelace(zone) = FanArea(zone)

(* The drone is sent the field that the operator sees, and it is the       *)
(* largest zone of the mission, also when some are equal or degenerate.    *)
SentFieldIsShown ==
  \A m \in ToSet(interopData) : \A field \in ToSet(sent) :
    /\ \E s \in ToSet(shown) : s.zone = field
    /\ \A zone \in ToSet(m) : PolygonArea(zone) <= PolygonArea(field)

(* The field is a hole in the shaded box: its outline runs against the     *)
(* box's, unless it has no area.                                           *)
FieldIsAHole ==
  \A s \in ToSet(shown) :
    s.zone # <<>> =>
      /\ Shoelace(BoxCoordinates(s.zone[1])) > 0
      /\ Shoelace(s.outline) <= 0

(* The archived interface shades the box around every zone, not the zone.  *)
EveryZoneIsAHole ==
  \A m \in ToSet(interopData) : \A zone \in ToSet(m) \ {<<>>} :
    LET archived == ArchivePaths(zone)
    IN  Shoelace(archived.box) # 0
        /\ (Shoelace(archived.outline) > 0 => Shoelace(archived.box) < 0)
        /\ (Shoelace(archived.outline) < 0 => Shoelace(archived.box) > 0)

(* A compilation stops the server only for a mission without a fly zone.   *)
CompilesUnlessNoZone == ~serverUp => interopData = << <<>> >>
=============================================================================
