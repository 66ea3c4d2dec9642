----------------------------- MODULE PlanLinks -----------------------------
(***************************************************************************)
(* The commands of a plan that stand for an object of the interop mission, *)
(* in one browser of the archived ground interface (Map/Map.jsx and        *)
(* Home/Home.jsx).  Such a command is linked to the object on the map; a   *)
(* plan from the server has no links, and the map finds them again by      *)
(* location.  When it cannot, it replaces the plan by an error, and the    *)
(* operator may ask to restore it.                                         *)
(*                                                                         *)
(* A mission is drawn anew whenever its data arrive, also when they are    *)
(* what they were.  The state changes that drawing causes are part of the  *)
(* step, as React makes them before it returns.                            *)
(***************************************************************************)
EXTENDS Integers, FiniteSets, SequencesExt

CONSTANTS
  Waypoints,   \* objects of the mission: numbered points,
  Goals,       \* points that have a name,
  SearchArea,  \* and a polygon
  Locations,
  Nowhere,     \* the location of an object that the mission does not have
  MaxLength    \* bound on the plan

LinksAssumption ==
  /\ SearchArea \notin Waypoints \cup Goals /\ Nowhere \notin Locations
  /\ MaxLength \in Nat \ {0, 1}   \* for what other browsers send

Objects == Waypoints \cup Goals \cup {SearchArea}
Missions == [Objects -> Locations \cup {Nowhere}]
\* The object of the operator's own commands, which all have a position.
None == "none"

VARIABLES
  mission,   \* where the objects are in the mission that is drawn
  points,    \* the objects that the map has drawn last, and their buttons
  commands, invalidCommands,
  cutShort   \* since the mission was drawn, an error has replaced a plan when
             \* a command was removed (history)

linkVars == <<mission, points, commands, invalidCommands, cutShort>>

\* link: to nothing, to what the map drew last for the object, or to what it
\* drew earlier and has taken off.
Command(object, location, link) ==
  [object |-> object, location |-> location, link |-> link]
Own == Command(None, Nowhere, "none")

NotDrawn == [location |-> Nowhere, shown |-> FALSE, button |-> "add"]
Drawn(location) == [location |-> location, shown |-> TRUE, button |-> "add"]

LinksInit ==
  /\ mission = [o \in Objects |-> Nowhere]
  /\ points = [o \in Objects |-> NotDrawn]
  /\ commands = <<>> /\ invalidCommands = FALSE /\ cutShort = FALSE

-----------------------------------------------------------------------------
(* draw_command_path, for the commands of objects.                         *)

\* The command is linked to an object that is on the map.
LinkIsShown(c, pts) == c.link = "last" /\ pts[c.object].shown

\* A command without a link is given one when the object that was drawn last,
\* shown or not, is where the command is.
CanLink(c, pts) ==
  c.link = "none" /\ c.location # Nowhere /\ pts[c.object].location = c.location

\* The commands within the range that are without an object on the map.
Lost(plan, range, pts) ==
  {i \in range \cap DOMAIN plan :
     plan[i].object # None /\ ~LinkIsShown(plan[i], pts)}

LinkedTo(plan, o) ==
  \E i \in DOMAIN plan : plan[i].object = o /\ plan[i].link = "last"

\* update_mission_point: an object that a command of the range stands for
\* offers to be removed; one that the plan has lost, to be added again.
Buttons(old, plan, range, pts) ==
  LET in(p, i, o) == i \in DOMAIN p /\ p[i].object = o /\ p[i].link = "last"
  IN  [o \in Objects |->
         IF pts[o].shown /\ \E i \in range : in(plan, i, o)
         THEN [pts[o] EXCEPT !.button = "remove"]
         ELSE IF ~LinkedTo(plan, o) /\ \E i \in range : in(old, i, o)
         THEN [pts[o] EXCEPT !.button = "add"]
         ELSE pts[o]]

\* The error replaces the plan, of which the range was drawn up to the index
\* of the bad command.  Its objects offer to be added, but for those that
\* moved to the index of a command whose marker is still in the table.
ErrorButtons(old, plan, range, bad, pts) ==
  LET kept(i) == i \in range /\ i >= bad /\ i \in DOMAIN old /\ old[i] = Own
  IN  [o \in Objects |->
         IF \E i \in DOMAIN plan :
              plan[i].object = o /\ plan[i].link = "last" /\ ~kept(i)
         THEN [pts[o] EXCEPT !.button = "add"] ELSE pts[o]]

\* The map draws the range of the plan, and draws again what it linked in it;
\* a plan with a bad command is replaced by the error.
Draw(old, plan, range, pts, restore) ==
  LET lost == Lost(plan, range, pts)
      link(c) == [c EXCEPT !.link = "last"]
      found == {i \in lost : CanLink(plan[i], pts)}
      new == [i \in DOMAIN plan |->
                IF i \in found THEN link(plan[i])
                ELSE IF i \in lost THEN Own ELSE plan[i]]
      bad == {i \in lost : IF i \in found THEN ~pts[plan[i].object].shown
                            ELSE ~restore}
  IN  IF bad = {}
      THEN /\ commands' = new /\ invalidCommands' = FALSE
           /\ points' = Buttons(old, new, range, pts)
      ELSE /\ commands' = <<>> /\ invalidCommands' = TRUE
           /\ points' = ErrorButtons(old, plan, range, Min(bad),
                                     Buttons(old, plan, range, pts))

-----------------------------------------------------------------------------

\* setHomeState lets no change of an invalid plan through.
Changes(plan, range) ==
  /\ ~invalidCommands
  /\ Draw(commands, plan, range, points, FALSE)
  /\ cutShort' = (cutShort \/ (invalidCommands' /\ Len(plan) < Len(commands)))
  /\ UNCHANGED mission

\* add_goto_command and add_survey_command, from an object's window
AddPointToPlan(o) ==
  LET n == Len(commands) + 1
  IN  /\ points[o].shown /\ points[o].button = "add" /\ n <= MaxLength
      /\ Changes(Append(commands, Command(o, points[o].location, "last")),
                 {n})

\* A command at the place that was clicked on, or of the planner.
AddOtherCommand ==
  LET n == Len(commands) + 1
  IN  n <= MaxLength /\ Changes(Append(commands, Own), {n})

Delete(i) == Changes(RemoveAt(commands, i), i .. Len(commands))

\* remove_btn, of an object's window
RemovePointFromPlan(o) ==
  /\ points[o].shown /\ points[o].button = "remove"
  /\ \E i \in DOMAIN commands :
       commands[i].object = o /\ commands[i].link = "last" /\ Delete(i)

RemoveCommand(i) == i \in DOMAIN commands /\ Delete(i)

\* A field of the command, or its type, changes; the object's place cannot.
ChangedCommandField(i) == i \in DOMAIN commands /\ Changes(commands, {i})

\* clearCommands, confirmed
ClearCommands ==
  /\ Draw(commands, <<>>, 1 .. MaxLength, points, FALSE)
  /\ UNCHANGED <<mission, cutShort>>

\* Another browser's plan, or the answer to a request: nothing is linked.
CommandsChanged(plan, restore) ==
  /\ restore => invalidCommands
  /\ Draw(commands, plan, 1 .. MaxLength, points, restore)
  /\ UNCHANGED <<mission, cutShort>>

\* Every object is taken off the map and drawn where the new mission has it.
\* A waypoint that is gone leaves the map's table, the others stay in it.
DrawnAnew(new) ==
  [o \in Objects |->
     IF new[o] # Nowhere THEN Drawn(new[o])
     ELSE IF o \in Waypoints THEN NotDrawn
     ELSE [points[o] EXCEPT !.shown = FALSE]]

\* draw_mission_details.  Commands stay linked to what was drawn before; the
\* one of the point drawn last, a goal if one is linked, is drawn again.  The
\* search area's command is looked for in the wrong field, so it never is.
DrawMissionDetails(new) ==
  LET gone == {o \in Objects : new[o] = Nowhere}
      pts == DrawnAnew(new)
      plan == [i \in DOMAIN commands |->
                 IF commands[i].link = "last"
                    /\ commands[i].object \notin gone \ Waypoints
                 THEN [commands[i] EXCEPT !.link = "earlier"] ELSE commands[i]]
      linked == {i \in DOMAIN commands :
                   commands[i].link = "last" /\ commands[i].object # SearchArea}
      goals == {i \in linked : commands[i].object \in Goals}
  IN  /\ mission' = new /\ cutShort' = FALSE
      /\ \/ /\ linked = {}
            /\ points' = pts /\ commands' = plan
            /\ UNCHANGED invalidCommands
         \/ \E i \in IF goals = {} THEN linked ELSE goals :
              Draw(plan, plan, {i}, pts, FALSE)

\* A plan as other browsers send it: each object at most once.
SentPlans ==
  {<<>>, <<Own>>}
    \cup {<<Command(o, l, "none")>> : o \in Objects, l \in Locations}
    \cup {<<Command(o, l, "none"), Own>> : o \in Objects, l \in Locations}
    \cup {<<Command(o, l, "none"), Command(p, k, "none")>> :
            o \in Waypoints, p \in Goals \cup {SearchArea}, l, k \in Locations}

RestoreCommands(plan) == CommandsChanged(plan, TRUE)

LinksNext ==
  \/ \E o \in Objects : AddPointToPlan(o) \/ RemovePointFromPlan(o)
  \/ \E i \in 1 .. MaxLength : RemoveCommand(i) \/ ChangedCommandField(i)
  \/ AddOtherCommand \/ ClearCommands
  \/ \E plan \in SentPlans :
       CommandsChanged(plan, FALSE) \/ RestoreCommands(plan)
  \/ \E new \in Missions : DrawMissionDetails(new)

LinksSpec == LinksInit /\ [][LinksNext]_linkVars

-----------------------------------------------------------------------------

\* Types; the objects on the map are those of the mission.
LinksTypeOK ==
  /\ mission \in Missions
  /\ Len(commands) <= MaxLength
  /\ {invalidCommands, cutShort} \subseteq BOOLEAN
  /\ \A o \in Objects : points[o].shown <=> mission[o] # Nowhere

\* The window of an object on the map offers to remove it when a command of the
\* plan is linked to it, so that it is not added twice; and to add it when none
\* is, unless removing a command brought on an error: an object whose command
\* had moved then goes on offering to remove what is not there.
ButtonsTellThePlan ==
  \A o \in Objects : points[o].shown =>
    /\ LinkedTo(commands, o) => points[o].button = "remove"
    /\ points[o].button = "remove" => LinkedTo(commands, o) \/ cutShort

Agrees(plan) ==
  \A i \in DOMAIN plan :
    plan[i].object # None => mission[plan[i].object] = plan[i].location

\* A plan that the server sends, or that is restored, is shown with all its
\* links when its objects are where the mission has them: a step that refuses
\* or cuts the links of a plan was given one that the mission contradicts.
ShowsAgreeingPlan ==
  \A plan \in SentPlans :
    /\ plan # <<>> /\ Agrees(plan)
    /\ CommandsChanged(plan, FALSE) \/ CommandsChanged(plan, TRUE)
    => /\ ~invalidCommands'
       /\ \A i \in DOMAIN plan :
            plan[i].object # None => LinkIsShown(commands'[i], points')
AgreeingPlanIsShown == [][ShowsAgreeingPlan]_linkVars
=============================================================================
