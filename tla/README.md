# A verification project for the UAS@UCLA 2018 drone

TLA+ modules, TLC configurations and TLAPS proofs for the software of the drone
in this repository: how it arms, takes off, flies a program, lands, lowers the
ground vehicle (UGV) and is overridden by its safety pilot; and how the ground
station plans a mission, compiles and uploads it, tells its operators and the
judges' server ("interop") what the drone does, commands the UGV, and has
the images worked on.

Paths below are relative to the repository's root.

## 1. The system

| part | state it keeps | operations | talks to |
|---|---|---|---|
| flight loop (`src/controls/flight_loop/flight_loop.cc`, `flight_state_machine.cc`) | `state_` (8 states), each state's `start_`/`was_reset_`, `mission_commanded_land_` | `RunIteration` (a sensors message), `DroneProgramReceived` | IO over `/uasatucla/proto/sensors` and `/output`, queues of one message |
| mission state machine (`mission_state_machine.cc`) | `state_` (5 states), `drone_program_` and its index, the setpoint, the sleep timer, `new_mission_ready_` | `Handle`, `LoadMission` | called by the flight loop in MISSION |
| IO (`src/controls/io/io.cc`) | the setpoints and droppy atomics, `last_mode_signals_`, `last_rc_in_` | `WriterThread` at 250 Hz, ROS callbacks for radio, droppy commands, setpoints, alarms | autopilot (services `set_mode`, `arming`, topic setpoint), deployment, actuators |
| RosToProto (`io/ros_to_proto/`) | `sensors_`, receipt times, `output_`, `last_output_` | one callback per topic, `GetSensors`, `SensorsValid`, `GetOutput`, `OutputValid` | shared by IO's callbacks and its writer thread under two mutexes |
| deployment (`lib/deployment/`) | `state_` (5 states), `timer_` | `RunIteration` | called by the writer thread |
| GroundControls (`src/controls/ground_controls/`) | `drone_program_`, `drone_program_success_` | compile, upload, forwards both ways | socket to the ground server, ROS topics to the drone |
| Ground2DroneVisitor | `current_position_` | `Process`: ground program to drone program | called by GroundControls |
| ground server (`src/ground/server/ground_server.js`) | `telemetry`, `droveUgv`, `ugvDriveTimer`, `interopClient`, `interopData` | socket handlers, timers | GroundControls, UI, UGV, button panel, interop |
| interop client (`server/src/interop_client.js`) | `interopTelemetry`, `intervalHandle`, `telemetryCanUpload` | login, `newTelemetry`, the upload interval, submissions | the judges' server |
| UI (`src/ground/ui/src/`) | the store: commands, `missionCompiled`, `missionUploaded`, telemetry, recording, settings; the pages' own state | reducers and actions, the communicator (a socket), Settings, Analytics, the planner, the map, Tagging | ground server |
| archived station (`src/ground/archive/ground.py`) | `interop_client`, `missions`, `drone_sid`, the plan | socket handlers and a thread that looks for changes of interop | interop, drone, browsers |
| archived interface (`src/ground/archive/interface/src/`) | App, Home (the plan and its queue of changes), MissionPlanner (rows, marks), Map (markers, path, circles, the drone) | React handlers, Google Maps objects | archived station |
| mission manager, message queue, proto comms, semaphore, alarm, serial device (`lib/`) | a mission tree; a request/reply socket; bounded queues; a count | small concurrent libraries | mostly each other and tools |
| vision (`src/vision/`) | a priority queue of tasks, auctions, bids; a file per image | the worker thread, handlers in threads of their own, clients that bid and work | its clients by sockets, files |

Everything in `PROJECT.json` under `components` is in this inventory or is
listed there with the reason why it is not modelled.

What is hard here:

* **Two nodes and an autopilot wait for each other.** The flight loop decides
  on sensors that IO published; IO acts on outputs that the flight loop
  published; in both directions only the newest message survives; the writer
  thread turns a *repeated level* into *requests on its rising edge*; the
  request is a blocking call that may fail.
* **The safety pilot's switch** is read in one place, copied into every sensors
  message, and tested in nine others.
* **Timers** exist only as "time since the first message after a reset", and
  resets happen only on a change of state.
* **Four atomics** carry a droppy command from a ROS callback to the writer
  thread, which reads them one by one.
* **A JavaScript timer** will drive the UGV unless one of several messages
  clears it first.
* **Callbacks outlive what they were made for**: answers of an interop client
  that was replaced, a file reader and a timer of a page that was left, a
  keypress listener that is never removed, an image read for another selection.
* **Sockets keep, lose and reorder**: what is emitted without a connection is
  sent at the next one, to a server that may be another one; what is relayed to
  someone who is away is lost; answers cross edits.
* **One thing is kept in several places**: the plan in every browser and in the
  station, the program in UI and compiler, the field in server and map, the
  commands as list, rows, markers, lines and links. Each is repaired from the
  range a change names, or from what it was last told.

The properties that make each part correct are listed with the modules below;
`PROJECT.json` lists every hazard at its line.

## 2. Modules

The drone:

```
MissionStateMachine        the executor of programs
  FlightLoop               the flight state machine around it
    FlightPhases           what it promises (abstract, by INSTANCE)
    FlightLoopTiming       history variables that measure the waits
      MCFlightLoop         small instances
    Drone                  FlightLoop + PixhawkGate + autopilot + pilot
      DroneHistory         counts what was sent
      MCDrone, MCDroneHistory
PixhawkGate                IO's writer thread between outputs and autopilot
Deployment                 the deployment state machine
  DeploymentTiming         history variables
    UgvDrop                droppy commands against the writer thread's reads
```

The ground station:

```
MCGround, MCGroundLive     small instances of these, side by side
  server and UI
    Interop                connectToInterop, the client, image uploads
    MissionUpload          store, dialog, sockets, server, compiler
    UiConnection           the communicator and the Settings page
    TelemetryRelay         telemetry and the button panel
    TelemetryView          the telemetry reducer and the Analytics page
    MissionEditor          the planner's actions, selectors and components
    GroundProgram          the flight field, compiled and drawn
    Tagging                the tagging page
    UgvDrive               the server's drive timer
      UgvOrders            the dialog and the relays that drive the UGV
  archived station and interface
    ArchiveApp             ground.py and App.jsx: who is connected
    PlanSync               the plan that several browsers edit
    PlanRange, PlanFields  the mission planner
    PlanLinks, CommandPath the plan on the map
    DroneOnMap, MapDrawings  the drone, obstacles and announced path
    RunMission             the encoding that Run Mission sends
  vision server
    VisionAuctions         who gets which image
    VisionRecords          the results in an image's file
```

The theorems:

```
DroneProofs                MissionStateMachine, FlightLoop, FlightLoopTiming,
                           Drone, DroneHistory, PixhawkGate, Deployment,
                           DeploymentTiming, UgvDrop
GroundServerProofs         Interop, UgvDrive, UgvOrders, TelemetryRelay,
                           MissionUpload
UiProofs                   UiConnection, Tagging, ArchiveApp, TelemetryView,
                           MissionEditor
PlannerProofs              PlanRange, PlanFields, RunMission
MapProofs                  PlanLinks, CommandPath, DroneOnMap, MapDrawings,
                           GroundProgram
PlanProofs                 PlanSync
VisionProofs               VisionAuctions, VisionRecords
  GroundProofs             MCGround: the ground station's components together
```

**MissionStateMachine.** `HandleMission` is `MissionStateMachine::Handle`: one
disjunct per handler; the load of the next command in `StateTransition` is part
of the handler's step. Positions are a few `Places`: "closer than
`kAcceptanceRadius`" is "in the same place". `start_`/`was_reset_` become the
time elapsed, or `NotStarted`; elapsed times are capped at `AgeCap`, above every
period that is compared with (assumed in `MissionAssumption`).

**FlightLoop.** `RunIteration(s, dt)` is one call with sensors `s` that are `dt`
later than the last ones; each state's `Handle` is an action whose disjuncts are
the early returns in their order. `Enter` is `StateTransition` with its `Reset`.
Because only the current state's timer is ever read and a state is reset when
entered, one `timer` stands for all of them. The pulses need the time only
modulo `kTriggerPeriod`. Sensors are arbitrary. The default output and an
output's Boolean fields are a set of names.

**FlightPhases** is the abstract specification: ground, launch, mission, pilot,
landing, and whether a landing is binding. `FlightLoop!ImplementsPhases` is the
refinement, checked by TLC and proved.

**PixhawkGate** gives the writer thread its real steps: `Sample` (take the
copy), `Send` (the gate, `GetOutput`, the edge detectors), and one step per
request that answers. The edge detectors of all triggers are updated in `Send`
although the code updates each just before its own call: nothing reads them in
between. The gate includes `SafetyChecks` of the deployed build.

**Drone** composes both nodes with two one-message topics, the program upload,
the radio, and an autopilot that is *external*: its modes, arming and climbing
are taken from how the flight loop uses them. Switches among its constants say
what may go wrong in a run: `Overruns`, `CallsFail`, `Switch`, `PilotFlies`,
`Strays`, `Uploads`, `Outages`, `DropReports`.

**Deployment, DeploymentTiming, UgvDrop.** `RunDeployment` is `RunIteration`
with the overrides at its end in `Choose`; `UgvDrop` splits
`DroppyCommandReceived` into its stores and the writer thread's iteration into
its four loads and the call.

**UgvDrive** is the handler of `DROPPY_COMMAND_RECEIVED` and the timers it sets.
`left` holds every pending timer, whether or not the server still knows it.
**UgvOrders** adds the UI's confirmation dialog and the relays to the UGV. The
dialog's component adds a keypress listener when it is mounted and never
removes it; `orphans` are the components left behind, each of which answers
Enter as its own state was.

**Interop** numbers the calls of `connectToInterop`; a client and a mission bear
their attempt's number, so that "of one server" is an equality. Every answer is
a step of its own, in any order. `overlapped` remembers that an attempt began
while another was pending: then the slower answer wins, and `MissionOfClient`
says what holds otherwise.

**MissionUpload** is the protocol of COMPILE and UPLOAD through UI, server and
GroundControls to the flight loop. A list of commands is the number of its edit,
a program the commands it was compiled from and whether the server knew the
field. Requests carry no identification, so an answer may find other commands
than those it is about; `orderly` (history) is the condition under which what
the UI says holds: nothing was done while a message was under way.

**UiConnection** has the socket that keeps messages until it connects, and the
one it replaced, which closes when its own are through. `resetSince` (history)
is needed because RESET_REDUX_STATE forgets a connection that goes on.
**TelemetryRelay** tracks which events the panel `missed`. **TelemetryView** has
the readers and timers of playbacks, each of the page instance that started it;
it is instantiated with a `Patient` operator, and without. **Tagging** takes a
`Careful` operator only, who waits for the image and for the crop.

**MissionEditor** builds commands by the types of their fields, as
`createMissionObject` does; **PlanFields** is the archived planner's counterpart.
**GroundProgram** computes the shoelace area in integers; its reference is the
area by triangles.

**ArchiveApp** interleaves the station's three threads. **PlanSync** has each
browser's queue of at most one change per 250 ms, the merging of changes by
their range, errors and restoring, and the listeners that a remount leaves
behind. `overlapped` and `reshaped` (history) tell changes that crossed, and
changes of the list, from the edits of fields that are merged; `LeaversAgree`
says that who remounted can show every plan. **PlanRange**, **CommandPath** and **PlanLinks** keep, next to the plan,
what was drawn of it before (rows, markers and lines, links), because a change
draws again only a part: `partly` and `firstChanged` (history) name the cases in
which the code draws too little. `PlanLinks` remembers in `cutShort` that an
error replaced the plan while a command was being removed: `Map.jsx` then leaves
the buttons of objects whose commands had moved. **DroneOnMap** is one-dimensional;
**MapDrawings** keeps each circle with the obstacle it was made for.
**RunMission** is `bin2string`, against what base64 means as its reference.

**VisionAuctions** has heapq's lists as they are, because the order in which it
gives out equal priorities decides who is looked in on (`SiftDown`, `SiftUp`,
external). The worker announces an auction in one step and lists it in the next;
bids arrive at any time, and one for an auction that is not listed is dropped
with its handler's exception. Requests are put at any time: which task asks for
which next one is left out. **VisionRecords** splits the update of an image's
file into reading, emptying and writing it, for two handlers.

**MCGround** puts an instance of each side by side and lets a behaviour choose
one, its `part`. They share no variables, so that a property of one component
holds in any composition of them if it holds where that component moves; the
interaction *between* programs (UI, server, compiler, drone, interop, panel,
UGV) is inside the components. Its invariants say, per subject, what the
components' own properties say; those stand with their comments in the
components. **MCGroundLive** does the same for liveness, with fairness.

Where theorems are about a component, `MCGround` instantiates the module with
its proofs (`Server`, `Orders`, `Ui`, `HurriedUi`, `Planner`, `HurriedPlanner`, `Map`,
`LongMap`, `Plan`, `Vision`), so that its theorems come along, and declares constants for its
bounds; `Ground.cfg` gives their values. What `GroundProofs` shows of `MCGround`
therefore holds for all their values. Two instances of one module differ in an
operator who waits or does not, or in a bound (`LongMap`: longer plans over
fewer places).

Definitions named `...Without...`, `Trigger...`, `LoadPast...` and so on under a
comment "Mutant of" are deliberate errors. No specification uses them; each
shows that a property fails when the code had that error
(`PROJECT.json`, `mutants`).

## 3. Runs

| run | question | bounds, and why they suffice |
|---|---|---|
| `takeoff` (FlightTakeoff.cfg) | Do the waits hold, does an unauthorised drone only land, are the phases implemented? | Spin-up 3, hover 2, message spacing 1 or 2: the waits are longer than a message and not a multiple of one; three altitudes are below, at and above the threshold. |
| `mission` (FlightMission.cfg) | Is what runs what was loaded; does a commanded landing bind; do sleeps last? | Two programs with every kind of command, one replaced by the other (or itself) at any step. |
| `sleep_after_sleep` | A sleep directly after a sleep: **violated**. | One program, as compiled from a waypoint and a wait. |
| `mission_completes` (DroneCompletes.cfg) | Does everything together fly a program to its end? | No failures, switch on, a program of a translate and a land; fairness below. |
| `arming_retried` (DroneArms.cfg) | Are arming and OFFBOARD retried until they succeed? | Any call may fail any number of times, though not for ever; sensors, radio and outputs may fail to come any number of times, until they no longer do. The program of a translate and a land. |
| `landing_not_undone` (DroneLands.cfg) | Is anything requested after the requested landing? | Pilot switches and flies, calls fail, programs arrive at any time; one place, one program. |
| `takeoffs_and_late_requests` (DroneTakeoffs.cfg) | One takeoff per attempt? How many requests after an override? | Overruns of both topics, radio and sensor outages, stale outputs, sinking, idle disarming; counters capped at 2 and at what the property forbids. |
| `override_race` (DroneOverride.cfg) | "Only listen to output if safety pilot override is not active": **violated**. | The switch moves freely, nothing else goes wrong. |
| `ugv_drop` (UgvDrop.cfg) | Is a drop safe under interleaved loads and stores; does it end; does it reset? | Wait times of 0, 1 and 1 iterations; all commands in any order at any moment. |
| `ugv_drive_reset` (UgvDriveReset.cfg) | Is a called-off drive called off, also with a reset of the latch between? **violated**. | The instance `drive` below. |
| `ground` (Ground.cfg) | Does the ground station tell its operators, the judges and the drone the truth, and is every image worked on? 14 invariants, 2 action properties. | One instance per component, below. |
| `ground_liveness` (GroundLive.cfg) | Is what was asked for served? 3 temporal properties. | As below, smaller; fairness below. |

The instances of `ground`:

| part | bounds | why they suffice |
|---|---|---|
| `interop` | 2 connections, 1 post unanswered by each client | Two clients and two missions that may be mixed up; an answer while another is due. |
| `upload` | 2 UIs, 1 edit, 2 dialogs, queues of 1 | One UI edits or compiles while the other's message is under way; more than one queued message only repeats that. |
| `relay` | 2 states, 2 recorded frames, 3 events under way | A state that changes and changes back while the panel is away. |
| `view`, `careful view` | a file of 1 frame, 1 recorded, 2 playbacks | A playback that is started again while one runs. |
| `connection` | 2 servers, 2 orders | An order kept, and one sent, to either. |
| `editor`, `long editor` | 2 commands; 1 command and 3 ever created | Reordering; long histories of one command. |
| `field` | 2 zones of up to 3 corners | Both ways to turn, no area, equal areas, no zone. |
| `tagging` | 2 images, 1 field | One selected while the other is read or cropped. |
| `drive` | a delay of 3, 3 timers | Two that overlap and one more. |
| `orders` | a delay of 1, 1 timer, 1 component left behind | A timer against an order, a listener left behind against the dialog. |
| `plan` | 2 browsers, one of which may disagree with interop; plans of up to 2, 2 edits, 1 remount | Two changes that cross, of the same command or of two. |
| `links`, `long links` | 3 objects; 2 locations and plans of up to 2; 1 location and plans of up to 3 | One of each kind of object; two at one location; one command removed and one on either side of it. A removal that an error cuts short takes four (`cutShort`); those and longer plans are the theorem's. |
| `range`, `careful range` | 3 commands ever | A command between the marks. |
| `fields` | 7 types, one of each form | Every pair of forms. |
| `path` | 3 commands, 2 positions | A command with a line on both sides. |
| `map` | 8 places, paths of 2 | Steps below, at and above each threshold. |
| `drawings` | 2 obstacles, 2 commands of 1 point | A list that changed its length or a size. |
| `app` | 2 lists of missions, 2 messages, 1 timer | A change while another is under way. |
| `vision` | 2 clients, 2 auctions, 1 other task; for liveness 1 client, 3 auctions | Bids of two for one auction, of one for two; three tasks that are put back are as many as the property is about. |
| `records` | one image, both its handlers | All there is: images have files of their own. |
| `run` | up to 4 of 7 bytes (0, 1, 3, 90, 165, 192, 255) | Every remainder of three; bits that differ on both sides of each border between digits. |

One unit of time in the flight loop's runs is about a second (constants are 5,
5 and 3 s); `Pulsed` then takes the phases 0, 1 and 2 of a period of 3, of which
exactly the last is over half. In the deployment's runs it is an iteration.

Deadlock is checked in every run.

### Findings

1. **A sleep after a sleep is cut short** (`mission_state_machine.cc:133`).
   Only a change of state resets the state entered. A waypoint compiles to a
   translate and a sleep, a wait to a sleep; after a waypoint the wait's
   `start_` is the waypoint's. With waypoint sleep 10 s and wait 10 s there is
   no wait at all. `SleepsApart` is exactly the condition under which sleeps do
   last, and `SleepsLast` proves it.
2. **The override race** (`io.cc:194`). The writer thread sends up to one
   iteration's requests after the override came; `AtMostTwoLateRequests` says
   how many that are (a trigger and the setpoint or a second trigger), which is
   what the code does guarantee.
3. **A drive that cannot be cancelled** (`ground_server.js:194`). CUT_LINE,
   RESET_LATCH, CUT_LINE, CANCEL_DROP: the first timer stays.

Disagreements of the ground station that the models show, and that the
properties of `ground` leave out by a named condition; no run is spent on them:

| where | what |
|---|---|
| `ground_server.js:80` | `connectToInterop` forgets the old client at once and tells the UIs only when an answer comes; a server that restarts tells nothing. A UI goes on showing "Connected to" (`Settings.js:188`). |
| `ground_controls.cc:126` | UPLOADED_DRONE_PROGRAM is answered as soon as the program is published; the server logs "Got acknowledgment that the Drone Program was uploaded" (`ground_server.js:172`) whether or not the drone has it. |
| `DroneActions.js:45` | Enter repeats an order of a dialog that is no longer on the screen (`orphans`). |
| `ground_server.js:369` | DISABLE_UGV leaves the timer of a pending drive running (`KeepsDisabled` excludes it). |
| `ground_server.js:359` | A configured destination is passed on and kept nowhere: UIs show the official one, and so does the next UGV get it. |
| `telemetryReducer.js:32` | Recording pushes into the array of `initialState`, so that a reset does not empty it. |
| `settingsReducer.js:22` | RESET_REDUX_STATE forgets a connection that goes on (`resetSince`). |
| `missionActions.js:148` | Two changes of type, through one without a location, put a command at latitude and longitude 0. |
| `InteropItems.js:219` | Without a home altitude a waypoint is added at its altitude above the sea, labelled "ft rel" (`missionSelector.js:105`). |
| `Map.jsx:265` | When another command becomes the first one with a position, a line stays on the map that the code lost (`firstChanged`). |
| `Map.jsx:309` | A command linked to an object that was drawn before the mission came again makes the plan refused, though it agrees. |
| `Home.jsx:66` | A Home that was left goes on listening, and writes the commands it had into the message that the new Home is given next. In a browser that cannot show every plan (not in `Agreeing`) this goes wrong when the plan replaces an error: the new Home shows another plan than the server has, though no changes crossed (`LeaversAgree` excludes it). |
| `Home.jsx:295` | Fields of the new type are not added when the old type had none of the name ("add missing fields", line 293). |
| `server_worker.py:172` | The worker is to "check in on this auction at a later time". With four timeouts or more in the queue heapq can pass over one for ever: of four that are put back, the second never leaves. A client that bid for it then waits until another one is sold. |
| `server_worker.py:165` | An auction is announced before it is listed, and once: a bid that is quick enough raises a KeyError, and an auction without another one is looked in on for ever. |
| `server.py:284` | "if it gets to this point without returning, then everything is done": when shape and letter cross, one overwrites the other's file, and the image is never classified, or is said to be and has one of the two. |
| `Map.jsx:617` | A jump of the drone is to "Clear the path." and sets the length of another object; the path stays and stops growing. |

Noticed while modelling, and not contradicted by anything the repository says:
takeoff, hold and landing requests that fail are not repeated while their
trigger stays true (`mission_completes` fails with `CallsFail = TRUE`), in
particular AUTO.LAND is not sent again when the pilot took over during a
landing and gave the drone back; a cut that was commanded survives RESET_LATCH;
`done_dropping` stays true until the latch is reset, so a second drop command
passes at once; CUT_LINE while still unlatching stops the wait and never cuts.

### Fairness

`DroneFairness`: weak fairness of both nodes' steps (they loop or are called by
ROS), of the autopilot's progress in a mode, and of one upload and one radio
message (an operator is there). Strong fairness of publishing, because the
writer's 50 Hz timer comes due again and again while the thread loops at 250 Hz,
and of the success of each kind of request: a service that is called again and
again answers at last. Liveness is stated with the switch left on; for
`ArmingSucceeds` and `OffboardSucceeds` from the end of the last outage on
(`OutagesEnd`: while samples keep turning invalid the gate stays shut, and
rightly so); for `MissionCompletes` with calls that succeed. The autopilot's
idle disarming (`Strays`) is in `takeoffs_and_late_requests` only: it takes longer
than the round trip in which the flight loop learns that the drone is armed.
With `Overruns = FALSE` IO publishes new sensors only after it acted on the
answer to the last ones: the writer iterates five times per sensors message and
the flight loop has nothing else to do. `FairDropSpec` has the callback and the
writer thread run on; nothing is assumed of the operator.

`MCGroundLive!FairSpec`, by component. JavaScript intervals keep firing and
requests end, as each has a timeout (`JudgesFairness`); processes handle what
they are sent and sockets reconnect (`UploadFairness`, `ConnectionFairness`);
the browser ends every read and runs every timer, and the server, on its own
interval, goes on to send telemetry (`ViewFairness`); the station's threads go
on (`AppFairness`); the vision server's worker goes on and time passes
(`VisionFairness`, weak fairness with the ENABLED written out). Fairness is weak
except in `AppFairness`, where it is strong
for the steps that put a message into a channel: the model bounds the channel
and the code does not. No operator is assumed to do anything. `PlaybackEnds` is
for a careful operator and excepts a pause; `ConnectedIsShown` is for interop
and sockets that stay up from some time on. The other runs check safety only.

## 4. Proofs

All theorems hold for every value of the constants that satisfies the named
assumptions, and for arbitrary sensors, inputs and orders of messages. The
assumptions say that constants are numbers, finite sets or Booleans, that the
values that stand for nothing are not among the real ones, and what the code's
own constants fulfil (`FlightAssumption`: waits below the cap of the clocks;
`DroneAssumption`: the altitudes are an interval;
`DroneOnMapAssumption`: `Step < Jump`, as 10 < 10000 in `Map.jsx:615`). TLC
evaluates each on a run. `GroundAssumption` joins those of the ground station
(`InteropAssumption`, `UploadAssumption`, `RelayAssumption`, `DriveAssumption`, `OrdersAssumption`,
`ConnectionAssumption`, `TaggingAssumption`, `ArchiveAssumption`,
`ViewAssumption`, `EditorAssumption`, `RangeAssumption`, `FieldsAssumption`,
`LinksAssumption`, `PathAssumption`, `DroneOnMapAssumption`,
`DrawingsAssumption`, `GroundProgramAssumption`, `RunMissionAssumption`,
`PlanSyncAssumption`, `AuctionsAssumption`, `RecordsAssumption`). Plans that
browsers share may have two commands at least, as the first one has.

In the drone:

* `DroneProofs`, first of the flight loop alone: `TypeCorrect`; `CommandInProgress`, where
  `ExecutesLoadedCommand` is inductive together with the types;
  `LandingSticks`, where the landing's command must be known to be the one in
  progress, and the mission machine to be untouched outside MISSION; and
  `FlightLoopImplementsPhases`, by a case per handler, using `LandingSticks` to
  exclude a launch while a landing binds. For the waits, `TimedInv` adds
  `WaitsAreCovered`, which ties the code's timer to the time measured from
  outside (the drone has been armed, or steady, for at least what the timer
  shows; past the spin-up state the wait is over or the drone was seen in the
  air). `TakeoffAfterSpinup` alone is not inductive: it says nothing of the
  states before. From it follow `SpinupBeforeTakeoff`, `SwitchedOffOnlyLands`,
  `HoverBeforeMission`. `SleepsLast` needs `SleepInv`: the sleep timer, when it
  runs in SLEEP, is not older than the command; that is where `SleepsApart`
  enters.
* `DroneProofs`, then both nodes with IO, the topics and the vehicle. Every step of
  the drone is one of the flight loop's or leaves it alone
  (`DroneRunsFlightLoop`), so that the theorems above hold in flight.
  `TypeInv` adds to the types that IO's output is one the flight loop made and
  that the writer calls exactly while there is something to send. `OutputInv`
  says which triggers occur together, that the topic holds the newest output,
  and which state asked for a takeoff or a landing.
  - `FewLateRequests` counts what was sent late together with what the writer
    still has in hand (`LateInv`): at most two, and none while its copy of the
    switch says on.
  - `OneTakeoff` needs every place where a takeoff may be on its way: the
    request in hand, a rise between what IO heard and its edge detector, between
    the newest output and what IO heard, and a state that has not published yet.
    Their sum (`TakeoffsDue`) never exceeds the attempts begun. This is the
    argument that the edge detector, fed by topics that lose and repeat messages,
    cannot see one level rise twice.
  - `LandingStays` is under `~Overruns`: IO publishes sensors only after it acted
    on the answer to the last ones (the writer iterates five times per sensors
    message). Then the nodes take turns, and a landing that IO heard was
    published by a loop that has since come no further than STANDBY
    (`LandingsAreRecent`). TLC found the property to hold with overruns *or*
    outages; with both, the untimed model lets an output be half a second old
    and still be acted on with the next one, and it fails.
* `DroneProofs`, last: the deployment timer's bound per state (`TimerStops`) and
  that `hot_for` and `triggered_for` follow the timer give `HotwireIsBounded`
  and `MotorWaitsForLatch`. For the callback whose stores fall between the
  writer thread's loads, `DropInv` joins the deployment's invariant, the types
  and `CancelProgresses`: how far a cancellation has come after each iteration,
  which `CancelStops` alone does not say. Every step of the drop is a step of
  `DeploymentTiming` or leaves it alone (`DropImplementsDeployment`), so that
  the deployment's theorems hold here, too (`DropIsSafe`).

In the ground station, `GroundServerProofs`:

* `UgvDrive`: `DriveInv` says that while no pending drive was reset only the
  newest timer is pending and the server knows it, and that each reset accounts
  for one more (`ResetsAccount`).
* `Interop`: `InteropInv` adds to the properties that attempts not made are idle
  (`OnlyTheMade`), that only the newest can be pending while none overlapped,
  and whom an image will go to while no one can log in (`QuietSubmission`).
* `TelemetryRelay`: `PanelIsTold`. The panel's two events are on their way
  together, so that "what it shows" is what the last event *of that kind* on
  the wire says, or what it showed before (`Tells`); `ComparesWithTheDrone` is
  why an event that is not sent would have said nothing new.
* `MissionUpload`: `OneAtATime` (one message or its answers are under way while
  the operators wait) and `KnowsPrograms`, which follows the program through
  request, compiler, answer and echo. An answer carries no identification:
  what makes it the right one is that nothing else can be under way.
* `UgvOrders`: an open dialog does what it says (`ActsAsNamed`), and who was
  disabled for good has no drive coming (`NothingComesWhenDisabled`); a relayed
  order is a step of `UgvDrive` or leaves it alone (`OrdersRunTheDrive`).
  `OnlyScreenIsSent` then needs that Enter, pressed once, is heard by the one
  dialog as often as it says.

`UiProofs`:

* `UiConnection`: an order is in one place at a time, the buffer, the wire of
  this socket or of the one it replaced, and not executed yet (`InOnePlace`);
  and it will be executed where it was shown.
* `Tagging`: from the click until the file is read, the image's file holds the
  crop of that image (`SubmissionIsOfOneImage`).
* `ArchiveApp`: `DroneWillBeKnown` and `MissionsWillBeKnown` say of any queue
  that its last message of a kind, or what is shown if there is none, is the
  truth; `TakeTurns` is what keeps the three threads from contradicting it.
* `TelemetryView`: what is saved ends with what was received
  (`RecordsWhatIsShown`); for a patient operator one file is read or one
  recording replayed (`OneAfterTheOther`).
* `MissionEditor`: `GoodCommands` says that every command has exactly the fields
  of its type, and a goal besides only where an off-axis command was dragged.

`PlannerProofs`: `GoodPlan`, at most one mark of each kind and no id twice, kept
by every way to change a list because what is left is some of what was there
(`SomeOf`); the green rows are those of the range after each partial drawing
(`RangeInv`). `FieldsInv` for the fields, whose conversions keep places.
For `RunMission`, that each of the 24 bits of a chunk is where base64 has it
(`ChunkKeepsBits`), that one or two bytes that are left are encoded as if zeros
followed (`RemainderOfLeft`), and where a bit is among the digits and among the
bytes (`PlaceOfABit`) give `Bin2StringIsBase64` for any sequence of bytes.

`MapProofs`, on what is drawn again in part:

* `PathShowsThePlan`: `LinesOf` says of every index which line the table holds
  and that the map shows no other. A change of the plan outside a range keeps
  the lines there except the next one after it (`SameOutside`,
  `SameLinesBeyond`), which is the one the code repairs.
* `WindowsTellThePlan` and `AgreeingPlansAreShown`: `Told` relates buttons and
  plan. **The attempt to prove it found the model's earlier property to be
  false** for plans of four commands or more: when an error is raised while a
  command is removed, `draw_command_path` leaves "remove" in the window of an
  object whose command had moved. The bound of two commands had hidden it. The
  property now excepts it by name (`cutShort`), and the theorem holds for plans
  of any length.
* `MapShowsTheDrone` needs only the distance between the path's end and the
  marker (`EndsAt`).
* `DrawingsAreTheData`: circles by index, and the current line is a part of the
  announced path, of which `FlattenSeq` is shown by induction to be the joining
  of its parts, before and after the current one.
* `FieldIsTheZoneShown`, on the flight field. The code computes a zone's area by
  the shoelace formula; the reference adds the triangles that the first corner
  makes with the others. Both are sums over the corners, and `ShoelaceIsFan`
  shows by induction over the corners that they are equal for any number of
  them, anywhere and turned either way. From it, the areas that server and map
  compare are the same natural numbers (`AreasAreNatural`), so that they choose the same
  zone (`ChosenZone`); and the box is turned against the outline, so that the
  zone is a hole in what is shaded. `FieldInv` follows the zone from interop's
  data to the map and to the compiler.

`PlanProofs`, on the plan that browsers share:

* `PlanInv`: counters, channels and Homes. Errors stay where they arose
  (`ErrorsStay`) because what is queued or sent is always a plan of commands,
  never the plan that stands for an error, through merging as well
  (`MergeMakes`).
* `BrowsersAgree`: `AgreeInv` says, of every browser, while no changes crossed and
  those who remounted can show every plan, that it is in `Sync`. What it has not
  got through to the server, queued in this Home or in the one before it, is a
  chain of changes, each made to the plan before it (`Chained`); what comes from
  the server is such a chain and ends with the server's plan (`Arriving`); what
  it shows is where the one ends and the other begins (`Reflects`); and who has
  changes on the way has them alone (`ChangesAlone`). A change that is queued
  after another is joined with it, and `JoinedExtends` shows that this extends
  the chain: the joined range covers both, wherever commands were added,
  deleted or moved. **The attempt to prove it found the earlier property to be
  false**: with four edits and a remount, more than the run's bounds, a
  listener left behind undoes a change (`Home.jsx:66` above). `LeaversAgree` is the
  condition that was missing.
* `CrossedEditsMerge`: `MergeInv` says, of every command that one browser edits,
  that the newest change about it on the way to any other browser has what the
  editor shows, in the editor's queue, at the server or behind it; or nothing
  about it is on the way and both show the same (`Reaches`). Changes of other
  commands, which cross it with old values of this one, do not count as being
  about it (`Silent`).

`VisionProofs`:

* The heap: what `_siftdown` and `_siftup` do is a permutation of the list
  (`SiftDownReorders`, `SiftUpReorders`), although both are given by recursive
  functions, over the children upwards and over the path to a leaf downwards.
  That such functions exist and what they compute is shown by induction over
  sets of numbers (`ReachesExists`, `LeadsToExists`). Hence `Put` adds one task
  to those that wait (`PutAdds`) and `Rest` takes the root from them
  (`RestLacksTheRoot`), in whatever order they come to lie.
* `VisionAuctions`: `AuctionsArePlaced` counts, for each auction, its tasks in
  the queue, whether it is being announced, is listed or is taken: one in all.
  `NoAuctionIsLost` and `TimeoutFindsItsAuction` follow. `WorkIsPlaced` counts
  its work in the messages and the queue of each client and what was begun. For
  it one must know that only listed auctions are sold, and that clients which
  do not run have neither messages nor bids that were never sent
  (`WhoIsGone`), so that a winner that is not running has ended.
  `TakenByTheLowest` goes back to `LowestBidIsLowest`: the first of the lowest
  bids exists.
* `VisionRecords`: while no result was read during a write, the handlers write
  one after the other (`OneAfterTheOther`), and who writes last announces
  (`SomebodyTells`).

`GroundProofs` brings these together: a behaviour of `MCGround` in which a part
moves is a behaviour of that component (`InteropRuns` and the others), so that
each invariant of the run `ground` follows from the components' theorems, and
so do the action properties `NothingIsLost` (`NothingIsEverLost`) and
`OnlyTheShownIsSent` (`OnlyTheShownIsEverSent`). `GroundAlwaysTyped` collects the types,
each from its component's inductive invariant. Proving `PlanRuns` showed that
`MCGround` had used one variable for the history of both `Interop` and
`PlanSync`, so that in its part `plan` no changes could cross; they have one each
now, and the run explores those behaviours.

The library's induction theorems take an operator as a parameter and cannot be
used. `NaturalsFromZero` (of `MapProofs`, and with it `NaturalsDownwards`, of
`VisionProofs`) is induction over sets of numbers instead, from the
well-foundedness of `<`; the least and the greatest of a set
(`LeastOf`, `GreatestOf`) and `FlattenSeq` rest on it.

Every invariant and every action property of the passing runs is a theorem.
Only model-checked is liveness, which needs fairness and ENABLED and is out of
the prover's reach: `MissionCompletes`, `ArmingSucceeds`, `OffboardSucceeds`,
the deployment's `CutEnds` and `ResetRelatches`, and the three properties of
`ground_liveness`.

## 5. What is not modelled

* Positions are places, altitudes three values; distances, headings, yaw and
  the conversion of setpoints are left out.
* The vehicle's state is sampled at once. In the code each field comes from the
  last message of its own topic and may lag (RosToProto), and three callbacks
  there misuse their mutex.
* The build for simulation (`RASPI_DEPLOYMENT` undefined), which sets the run
  switch itself and writes no actuators.
* `IO::Quit`, start-up order, alarm, gimbal, camera, LED strip.
* Ground2DroneVisitor: what it compiles a command to is a value in
  `MissionUpload`, and gives the programs of the sleep runs.
* Of the ground station: layout, styles, texts, graphs, protobuf encoding and
  the views that show one value; the tracker, the vision server's and the
  setpoint relays, which pass a message on; the processes `ground.py` starts.
* JavaScript runs each handler to its end, so a handler is one step; its
  answers, timers and events are steps of their own. React's state changes that
  a handler causes are part of its step, as React applies them before it
  returns to the event loop.
* Careful operators (`Careful` or `Patient`) wait for what they asked for, and
  `Apart` keeps two threads of the archived station from overlapping. Where a
  property needs one of these, the code has no guard that ensures it.
* Everything listed as `not_modelled` in `PROJECT.json`, with its reason: the
  concurrent libraries of `src/lib` remain to be modelled; numeric image
  processing, drivers, generated and vendored code are out of reach or without
  decisions.

## 6. Plan

Done: the flight software with IO and the autopilot, the deployment and the UGV,
the ground station of this commit and the archived one, the vision server's
auctions and records, with the theorems above. Next, in this order:

1. `RosToProto`: the per-topic callbacks as threads with the two mutexes, and
   validity by the oldest topic.
2. Libraries with concurrency: `MissionManager` (lost updates),
   `MissionMessageQueue` (late replies), `ProtoComms`, `Semaphore`, `Alarm`.
3. `Ground2Drone` as a pure compiler against a reference; which vision task
   asks for which next one, and what becomes of one whose client ended.
