---------------------------- MODULE MissionEditor ----------------------------
(***************************************************************************)
(* The plan an operator edits: the commands of the mission reducer, the    *)
(* actions that build them (redux/actions/missionActions.js), the selectors*)
(* that put them on the map, and the components that call the actions      *)
(* (MissionPlanner, CommandList, Map and InteropItems).                    *)
(*                                                                         *)
(* A command's message is a function from the names of its fields, which   *)
(* its type fixes; what the code sets beside them stays in it until the    *)
(* type is changed, and is not compiled.  Latitude and longitude are one   *)
(* position; a number that is missing is Undefined.                        *)
(***************************************************************************)
EXTENDS Integers, Sequences, SequencesExt

CONSTANTS
  Positions,      \* where the operator can click, or interop's waypoint lies
  Altitudes,      \* what the operator can type
  MaxCommands, MaxIds,   \* bounds on the commands, and on all ever created
  WaypointAMSL,   \* the altitude of interop's waypoint, above mean sea level
  Home            \* the altitude of the drone's home

EditorAssumption ==
  /\ Altitudes \subseteq Int
  /\ {MaxCommands, MaxIds} \subseteq Nat
  /\ {WaypointAMSL, Home} \subseteq Int

Origin    == "0, 0"
Undefined == -99
InitialAltitude == 100

Location(pos, alt) == [pos |-> pos, alt |-> alt]
Missing == [absent |-> TRUE]     \* options that are not there

\* The types a command may have, and the ones with a goal.
GoalKinds == {"waypoint", "fly_through", "ugv_drop", "land_at_location"}
Kinds     == GoalKinds \union {"survey", "off_axis", "wait"}

locationFields == <<"goal", "ground_target", "photographer_location">>

VARIABLES
  commands,         \* [id, kind, fields] each
  defaultAltitude,
  commandAnimate,   \* the ids that bounce on the map
  stops,            \* the timers that end it, one per click
  mapCenter,
  homeKnown,        \* telemetry has arrived
  nextId

editing == <<commands, defaultAltitude, nextId>>
showing == <<commandAnimate, stops, mapCenter>>
editorVars == <<editing, showing, homeKnown>>

EditorInit ==
  /\ commands = <<>> /\ nextId = 1
  /\ defaultAltitude = InitialAltitude
  /\ commandAnimate = {} /\ stops = {}
  /\ mapCenter = Origin
  /\ homeKnown = FALSE

-----------------------------------------------------------------------------
(* Building commands.                                                      *)

Has(options, field) == field \in DOMAIN options

\* The fields and, in their place or beside them, the ones that are set.
With(fields, set) ==
  [field \in DOMAIN fields \union DOMAIN set |->
     IF Has(set, field) THEN set[field] ELSE fields[field]]

\* createMissionObject for a number, a position and a location.
Number(x) == IF x = Undefined THEN 0 ELSE x
Position(options, field) ==
  IF Has(options, field) THEN options[field] ELSE Origin
Position3D(options, field) ==
  IF Has(options, field)
  THEN Location(options[field].pos, Number(options[field].alt))
  ELSE Location(Origin, 0)

\* Mutant of MissionObject: fields of the options that the type does not
\* have are kept.
MissionObjectKeepingAll(kind, options) ==
  CASE kind \in GoalKinds ->
         With(options, [goal |-> Position3D(options, "goal")])
    [] kind = "off_axis" ->
         With(options,
              [photographer_location |->
                 Position3D(options, "photographer_location"),
               subject_location |-> Position(options, "subject_location")])
    [] kind = "survey" -> [survey_polygon |-> <<Origin>>, altitude |-> 0]
    [] kind = "wait" -> [time |-> 0]

\* createMissionObject for the message of a command: the fields of its type,
\* from the options where they have them.
MissionObject(kind, options) ==
  CASE kind \in GoalKinds -> [goal |-> Position3D(options, "goal")]
    [] kind = "off_axis" ->
         [photographer_location |->
            Position3D(options, "photographer_location"),
          subject_location |-> Position(options, "subject_location")]
    [] kind = "survey" ->
         [survey_polygon |-> IF Has(options, "survey_polygon")
                             THEN options.survey_polygon ELSE <<Origin>>,
          altitude |-> IF Has(options, "altitude")
                       THEN options.altitude ELSE 0]
    [] kind = "wait" ->
         [time |-> IF Has(options, "time") THEN options.time ELSE 0]

\* createCommand; whether the marker was dragged is kept as history.
Command(kind, options) ==
  [id |-> nextId, kind |-> kind, fields |-> MissionObject(kind, options),
   dragged |-> FALSE]

\* The location of a message: its first location field.
LocationField(fields) ==
  SelectInSeq(locationFields, LAMBDA field : Has(fields, field))
HasLocation(fields) == LocationField(fields) > 0
LocationOf(fields)  == fields[locationFields[LocationField(fields)]]

\* Mutant of SetLocationFields: only a goal is passed on.
SetLocationFieldsFromGoal(fields) ==
  IF Has(fields, "goal")
  THEN With(fields, [field \in ToSet(locationFields) |-> fields.goal])
  ELSE fields

\* setLocationFields
SetLocationFields(fields) ==
  IF HasLocation(fields)
  THEN With(fields, [field \in ToSet(locationFields) |-> LocationOf(fields)])
  ELSE fields

-----------------------------------------------------------------------------
(* The actions.                                                            *)

\* ADD_COMMAND
Add(kind, options) ==
  /\ Len(commands) < MaxCommands /\ nextId <= MaxIds
  /\ commands' = Append(commands, Command(kind, options))
  /\ nextId' = nextId + 1
  /\ UNCHANGED <<defaultAltitude, showing, homeKnown>>

\* "Add Command" in the planner: a fixed waypoint.
AddCommand(pos) == Add("waypoint", [goal |-> Location(pos, InitialAltitude)])

\* A double click on the map.
MapDblClick(pos) ==
  Add("fly_through", [goal |-> Location(pos, defaultAltitude)])

\* "Add to Mission" in the box of one of interop's waypoints: its altitude
\* above the sea when the home altitude is not known yet, and the default
\* one instead of zero.
RelativeAltitude ==
  IF homeKnown THEN WaypointAMSL - Home ELSE WaypointAMSL
AddInteropWaypoint(pos) ==
  Add("waypoint",
      [goal |-> Location(pos, IF RelativeAltitude # 0
                              THEN RelativeAltitude ELSE defaultAltitude)])

DeleteCommand(i) ==
  /\ commands' = RemoveAt(commands, i)
  /\ UNCHANGED <<defaultAltitude, nextId, showing, homeKnown>>

\* REORDER_COMMAND: arrayMove
ReorderCommand(i, j) ==
  /\ commands' = InsertAt(RemoveAt(commands, i), j, commands[i])
  /\ UNCHANGED <<defaultAltitude, nextId, showing, homeKnown>>

\* The new command has a new id.
ChangeCommandType(i, kind) ==
  /\ nextId <= MaxIds
  /\ kind # commands[i].kind
  /\ commands' =
       [commands EXCEPT ![i] =
          Command(kind, SetLocationFields(commands[i].fields))]
  /\ nextId' = nextId + 1
  /\ UNCHANGED <<defaultAltitude, showing, homeKnown>>

\* CHANGE_COMMAND_FIELD of an altitude, whatever field's it is.
ChangeAltitude(i, alt) ==
  LET fields == commands[i].fields IN
  /\ \/ /\ commands[i].kind \in GoalKinds
        /\ commands' = [commands EXCEPT ![i].fields.goal.alt = alt]
     \/ /\ commands[i].kind = "off_axis"
        /\ commands' =
             [commands EXCEPT ![i].fields.photographer_location.alt = alt]
     \/ /\ commands[i].kind = "survey"
        /\ commands' = [commands EXCEPT ![i].fields.altitude = alt]
  /\ defaultAltitude' = alt
  /\ UNCHANGED <<nextId, showing, homeKnown>>

\* commandDragged: the goal's position, of a command of any type.
CommandDragged(i, pos) ==
  LET fields == commands[i].fields
      goal   == Location(pos, IF Has(fields, "goal") THEN fields.goal.alt
                              ELSE Undefined)
  IN
  /\ HasLocation(fields)
  /\ commands' = [commands EXCEPT ![i].fields = With(fields, [goal |-> goal]),
                                  ![i].dragged = TRUE]
  /\ UNCHANGED <<defaultAltitude, nextId, showing, homeKnown>>

\* The + and - of a survey's polygon.
AddRepeatedField(i) ==
  /\ commands[i].kind = "survey"
  /\ Len(commands[i].fields.survey_polygon) < 2
  /\ commands' = [commands EXCEPT ![i].fields.survey_polygon =
                    Append(@, Origin)]
  /\ UNCHANGED <<defaultAltitude, nextId, showing, homeKnown>>

PopRepeatedField(i) ==
  /\ commands[i].kind = "survey"
  /\ commands[i].fields.survey_polygon # <<>>
  /\ commands' = [commands EXCEPT ![i].fields.survey_polygon = Front(@)]
  /\ UNCHANGED <<defaultAltitude, nextId, showing, homeKnown>>

\* centerMapOnCommand: a click on a command in the small planner, which also
\* starts a timer of one second.
CenterMapOnCommand(i) ==
  LET command == commands[i] IN
  /\ stops' = stops \union {command.id}
  /\ IF HasLocation(command.fields)
     THEN /\ mapCenter' = LocationOf(command.fields).pos
          /\ commandAnimate' = commandAnimate \union {command.id}
     ELSE UNCHANGED <<mapCenter, commandAnimate>>
  /\ UNCHANGED <<editing, homeKnown>>

\* commandStopAnimation, of a timer; one may be left of an earlier click.
CommandStopAnimation(id) ==
  /\ id \in stops
  /\ commandAnimate' = commandAnimate \ {id}
  /\ \E again \in BOOLEAN : stops' = IF again THEN stops ELSE stops \ {id}
  /\ UNCHANGED <<editing, mapCenter, homeKnown>>

\* The first telemetry with the drone's home altitude.
FirstTelemetry ==
  /\ homeKnown' = TRUE
  /\ UNCHANGED <<editing, showing>>

\* RESET_REDUX_STATE: all but the timers.
ResetPlan ==
  /\ commands' = <<>> /\ defaultAltitude' = InitialAltitude
  /\ commandAnimate' = {} /\ mapCenter' = Origin
  /\ homeKnown' = FALSE
  /\ UNCHANGED <<nextId, stops>>

\* The commands that have a marker on the map.
Markers == {i \in DOMAIN commands : HasLocation(commands[i].fields)}

EditorNext ==
  \/ \E pos \in Positions :
       AddCommand(pos) \/ MapDblClick(pos) \/ AddInteropWaypoint(pos)
  \/ \E i \in DOMAIN commands :
       \/ DeleteCommand(i)
       \/ \E j \in DOMAIN commands : ReorderCommand(i, j)
       \/ \E kind \in Kinds : ChangeCommandType(i, kind)
       \/ \E alt \in Altitudes : ChangeAltitude(i, alt)
       \/ \E pos \in Positions : CommandDragged(i, pos)
       \/ AddRepeatedField(i) \/ PopRepeatedField(i)
       \/ CenterMapOnCommand(i)
  \/ \E id \in stops : CommandStopAnimation(id)
  \/ FirstTelemetry
  \/ ResetPlan

EditorSpec == EditorInit /\ [][EditorNext]_editorVars

-----------------------------------------------------------------------------
(* Every command has the fields its type requires, so that it can be       *)
(* compiled, and no two have an id in common, so that the rows and markers *)
(* are told apart.                                                         *)
EditorTypeOK ==
  /\ Len(commands) <= MaxCommands
  /\ \A i \in DOMAIN commands :
       /\ DOMAIN MissionObject(commands[i].kind, Missing)
            \subseteq DOMAIN commands[i].fields
       /\ commands[i].id < nextId
       /\ \A j \in DOMAIN commands : commands[i].id = commands[j].id => i = j
  /\ commandAnimate \subseteq stops

\* What is compiled of a command: the fields of its type.
Compiled(command) ==
  LET fields == command.fields
  IN  IF command.kind \in GoalKinds THEN fields.goal
      ELSE IF command.kind = "off_axis" THEN fields.photographer_location
      ELSE Missing

(* The marker of a command stands where the drone will be sent, through    *)
(* every change of type, unless an off-axis command's marker was dragged.  *)
MarkersAreCompiled ==
  \A i \in Markers :
    LET command == commands[i]
    IN  (command.kind = "off_axis" => ~command.dragged)
          => LocationOf(command.fields) = Compiled(command)

(* A change between two types that have a location keeps it and its        *)
(* altitude.                                                               *)
KeepsLocation ==
  \A i \in Markers : \A kind \in GoalKinds \union {"off_axis"} :
    /\ ChangeCommandType(i, kind)
    /\ LocationOf(commands[i].fields).alt # Undefined
    => LocationOf(commands'[i].fields) = LocationOf(commands[i].fields)
LocationKeptBetweenLocations == [][KeepsLocation]_editorVars
=============================================================================
