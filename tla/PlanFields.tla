---------------------------- MODULE PlanFields -----------------------------
(***************************************************************************)
(* The fields of one command of the archived ground interface              *)
(* (Home/Home.jsx, Sidebar/MissionPlanner.jsx, Map/Map.jsx): how the       *)
(* command is made, what changing its type makes of its fields, and which  *)
(* of them can be edited.  A command on an object of the interop mission   *)
(* is linked to it and must stay there.                                    *)
(*                                                                         *)
(* A message that the interface made reads the default of a field that it  *)
(* does not have; one that came from the server does not.                  *)
(***************************************************************************)
EXTENDS Integers, SequencesExt, Functions

CONSTANTS
  Places,
  Origin,    \* latitude and longitude 0
  Home,      \* the place of the interop mission's point,
  Area       \* and of the corners of its search area

FieldsAssumption ==
  Origin \notin Places /\ Home \in Places /\ Area \in Places

\* The types of mission_commands.proto, one of each form.
FieldTypes ==
  [Nothing  |-> <<>>,
   Sleep    |-> [time |-> "double"],
   Waypoint |-> [goal |-> "Position3D"],
   Goto     |-> [goal |-> "Position3D", comeToStop |-> "bool"],
   BombDrop |-> [dropZone |-> "Position2D"],
   Survey   |-> [surveyPolygon |-> "polygon", altitude |-> "double"],
   OffAxis  |-> [photographerLocation |-> "Position3D",
                 subjectLocation |-> "Position2D"]]
Kinds == DOMAIN FieldTypes

\* get_command_pos_key: the first field that is a position and not repeated
NoKey == "none"
PosKey(kind) ==
  CASE kind \in {"Waypoint", "Goto"} -> "goal"
    [] kind = "BombDrop" -> "dropZone"
    [] kind = "OffAxis" -> "photographerLocation"
    [] OTHER -> NoKey

Number == "a number"
Unset == -1    \* an altitude that the message does not have
Position(place, altitude) == [place |-> place, altitude |-> altitude]
At(place, type) == Position(place, IF type = "Position3D" THEN 0 ELSE Unset)

VARIABLE command
fieldsVars == <<command>>

\* link: to a point or to the area of the mission; plain: from the server
Command(kind, fields, link) ==
  [kind |-> kind, fields |-> fields, link |-> link, plain |-> FALSE]

FieldsInit == command = Command("Nothing", <<>>, "none")

-----------------------------------------------------------------------------

\* add_field
AddField(type) ==
  CASE type \in {"Position2D", "Position3D"} -> At(Origin, type)
    [] type = "polygon" -> [i \in 1 .. 3 |-> At(Origin, "Position2D")]
    [] OTHER -> Number

Has(fields, name) == name \in DOMAIN fields

\* The position as a field of the type: extra fields go, none is added.
Converted(position, type) ==
  IF type = "Position2D" THEN [position EXCEPT !.altitude = Unset] ELSE position

\* A field of the new type is added where the old message reads null.  That is
\* a position of the same name; any other missing field reads undefined.
IsNull(c, fields, name) ==
  /\ ~Has(fields, name) /\ ~c.plain
  /\ name \in DOMAIN FieldTypes[c.kind]
  /\ FieldTypes[c.kind][name] \in {"Position2D", "Position3D"}

\* make_command and make_inner_command, with the old command's fields
MakeCommand(c, kind) ==
  LET types == FieldTypes[kind]
      moved == IF PosKey(kind) # NoKey /\ Has(c.fields, PosKey(c.kind))
               THEN [name \in DOMAIN c.fields \cup {PosKey(kind)} |->
                       IF name = PosKey(kind)
                       THEN Converted(c.fields[PosKey(c.kind)], types[name])
                       ELSE c.fields[name]]
               ELSE c.fields
  IN  [name \in {n \in DOMAIN types :
                   Has(moved, n) \/ IsNull(c, moved, n)} |->
         IF Has(moved, name) THEN moved[name] ELSE AddField(types[name])]

-----------------------------------------------------------------------------

\* The command is removed, and another is made: in the list,
AddNothingCommand == command' = Command("Nothing", <<>>, "none")

\* at a place that was double-clicked, at the mission's point,
AddGotoCommand(place, link) ==
  /\ link = "point" => place = Home
  /\ command' = Command("Goto", [goal |-> Position(place, 30),
                                 comeToStop |-> Number], link)

\* or for its search area.
AddSurveyCommand ==
  command' = Command("Survey",
    [surveyPolygon |-> [i \in 1 .. 3 |-> At(Area, "Position2D")],
     altitude |-> Number], "area")

\* A command of a point stays one when its new type has a position.
ChangeType(kind) ==
  /\ kind # command.kind
  /\ command' = Command(kind, MakeCommand(command, kind),
       IF command.link = "point" /\ PosKey(kind) # NoKey THEN "point"
       ELSE "none")

Set(name, value) == command' = [command EXCEPT !.fields[name] = value]

\* The inputs of the row: latitude and longitude of any position unless the
\* command is of an object, an altitude that can be read, and plain values.
ChangedCommandField(name) ==
  LET type == FieldTypes[command.kind][name]
      value == command.fields[name]
      free == command.link = "none"
  IN  IF type \in {"double", "bool"}
      THEN /\ Has(command.fields, name) \/ ~command.plain
           /\ command' = [command EXCEPT !.fields =
                [n \in DOMAIN @ \cup {name} |->
                   IF n = name THEN Number ELSE @[n]]]
      ELSE /\ Has(command.fields, name)
           /\ \/ /\ free
                 /\ IF type = "polygon"
                    THEN \E i \in DOMAIN value, p \in Places :
                           Set(name, [value EXCEPT ![i].place = p])
                    ELSE \E p \in Places : Set(name, [value EXCEPT !.place = p])
              \/ /\ type = "Position3D"
                 /\ value.altitude # Unset \/ ~command.plain
                 /\ \E altitude \in {0, 30} :
                      Set(name, [value EXCEPT !.altitude = altitude])

\* dragend of the command's own marker
Dragend(place) ==
  /\ command.link = "none" /\ Has(command.fields, PosKey(command.kind))
  /\ Set(PosKey(command.kind),
         [command.fields[PosKey(command.kind)] EXCEPT !.place = place])

\* The command comes back from the server, in this browser or another.
ReturnFromServer == command' = [command EXCEPT !.plain = TRUE]

FieldsNext ==
  \/ AddNothingCommand \/ AddSurveyCommand \/ ReturnFromServer
  \/ \E p \in Places, link \in {"none", "point"} : AddGotoCommand(p, link)
  \/ \E kind \in Kinds : ChangeType(kind)
  \/ \E name \in DOMAIN FieldTypes[command.kind] : ChangedCommandField(name)
  \/ \E p \in Places : Dragend(p)

FieldsSpec == FieldsInit /\ [][FieldsNext]_fieldsVars

-----------------------------------------------------------------------------

\* The command has no field that its type does not have, so that what is sent
\* to the drone and to other browsers is a message of the type.
FieldsAreOfTheType ==
  command.kind \in Kinds
  /\ DOMAIN command.fields \subseteq DOMAIN FieldTypes[command.kind]

\* A command that the interface links to an object of the mission is where the
\* object is, whatever was edited: the drone flies to the point on the map.
LinkedIsThere ==
  /\ command.link = "point" =>
       /\ Has(command.fields, PosKey(command.kind))
       /\ command.fields[PosKey(command.kind)].place = Home
  /\ command.link = "area" =>
       /\ command.kind = "Survey"
       /\ \A i \in DOMAIN command.fields.surveyPolygon :
            command.fields.surveyPolygon[i].place = Area

\* A change of type from a position to a position keeps the place.
KeepsPlace ==
  \A kind \in Kinds :
    /\ ChangeType(kind)
    /\ Has(command.fields, PosKey(command.kind)) /\ PosKey(kind) # NoKey
    => /\ Has(command'.fields, PosKey(kind))
       /\ command'.fields[PosKey(kind)].place
            = command.fields[PosKey(command.kind)].place
PlaceKept == [][KeepsPlace]_fieldsVars
=============================================================================
