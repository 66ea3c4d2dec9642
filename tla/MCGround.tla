------------------------------ MODULE MCGround -------------------------------
(***************************************************************************)
(* The ground station's components side by side: its server, the pages of  *)
(* its interface and those of the archived one, and the vision server.  A  *)
(* behaviour chooses one of them and only that one moves.  They share no   *)
(* state, so that nothing is lost: a property of one component holds of    *)
(* them together if it holds of the behaviours in which it moves.          *)
(*                                                                         *)
(* The bounds of each are the constants of its instance.  Where a theorem  *)
(* is about them, they are constants here and Ground.cfg gives the bounds. *)
(***************************************************************************)
EXTENDS Naturals, Sequences, FiniteSets

CONSTANTS
  \* Interop
  MaxAttempts, MaxPosts,
  \* MissionUpload
  Browsers, FieldKnown, UploadEdits, UploadOrders, UploadQueue,
  \* TelemetryRelay
  PilotModes, FakeFrames, PanelQueue,
  \* TelemetryView
  FileFrames, MostRecorded, MostReplays,
  \* UiConnection
  Servers, DefaultServer, MaxTransmitted,
  \* Tagging
  Images, Entries,
  \* MissionEditor
  EditorPositions, EditorAltitudes, WaypointHeight, HomeHeight,
  CommandsAtOnce, CommandsEver, FewCommandsAtOnce, MoreCommandsEver,
  \* UgvDrive
  DriveWait, DriveTimers,
  \* UgvOrders
  OrdersWait, OrdersTimers, DialogsLeft,
  \* ArchiveApp
  StationMissions, BrowserQueue, AppTimers,
  \* PlanRange and PlanFields
  PlanIds, PlanPlaces, OriginPlace, HomePlace, AreaPlace,
  \* RunMission
  MissionBytes, MissionLength,
  \* PlanLinks
  NumberedPoints, NamedPoints, AreaObject,
  MapLocations, PlanOnMap, FewMapLocations, LongPlanOnMap,
  \* CommandPath
  PathPositions, PathCommands, StrayLines,
  \* DroneOnMap
  DronePlaces, FieldCenter, PathStep, PathJump, FollowMargin, PathPoints,
  \* MapDrawings
  DrawnPlaces, ObstacleRadii, MostObstacles, MostDroneCommands, MostPoints,
  \* VisionAuctions
  VisionClients, ImagesAuctioned, RecordsAtOnce,
  \* GroundProgram
  FieldLongitudes, FieldLatitudes, ZoneCorners, MostZones,
  \* PlanSync
  Agreeing, SharedPlan, SharedEdits, PageChanges,
  \* several of them
  Nowhere, Absent

VARIABLES
  part,   \* the component that moves
  \* Interop
  made, stage, interopClient, interopData, interopTelemetry,
  intervalHandle, telemetryCanUpload, posts, imageSubmission,
  ui_connected, ui_data, overlapped,
  \* MissionUpload
  storeCommands, missionCompiled, missionUploaded, droneProgram,
  storeModal, uiConnected, outbox, inbox, fieldKnown, drone_program,
  topic, echo, storeEdits, orders, published, authors, orderly,
  \* TelemetryRelay
  protobufLoaded, sensors, flightControllerState, droneArmed,
  droppyReady, drone_connected, controls, fakeIndex, panel, panelWire,
  panelState, panelReady, missed,
  \* TelemetryView
  droneTelemetry, playback, recording, telemetryData, usingLoaded,
  isPaused, file, readers, replays, viewPage, received,
  \* UiConnection
  gndServerIp, connectedGndServerIp, gndServerConnected, socketIp,
  connected, sendBuffer, wire, closing, given, shownFor, executed,
  resetSince,
  \* MissionEditor
  editorCommands, defaultAltitude, commandAnimate, stops, mapCenter,
  homeKnown, nextId,
  \* GroundProgram
  fieldData, fieldSent, serverUp, shown,
  \* Tagging
  selectedImage, croppedImagePath, croppedAreaPixels, displayCropper,
  formValues, annValues, reads, crops, disk, submission, chosen,
  \* UgvDrive
  droveUgv, ugvDriveTimer, left, called_off, resets,
  \* UgvOrders
  page, dialog, message, action, orphans, ordersSent, ugv_connected,
  ugv_order, ugv_target, disabled,
  \* PlanSync
  home, toServer, toUi, plan, edits, remounts, editors,
  changesOverlapped, reshaped,
  \* PlanLinks
  mission, points, linkCommands, invalidCommands, cutShort,
  \* PlanRange
  rangeCommands, green, popup, clicked, partly,
  \* PlanFields
  command,
  \* CommandPath
  positions, markers, commands_path, map, firstChanged,
  \* DroneOnMap
  path, marker, center, followDrone, telemetry,
  \* MapDrawings
  obstacles, circles, droneCommands, current, paths,
  \* ArchiveApp
  interop, station, refresh, connect, broadcast, appToUi, ui,
  \* RunMission
  typedMission, missionSent,
  \* VisionAuctions
  task_queue, asked, announcing, active_auctions, bids, due,
  taken_auctions, running, toClient, bidsToServer, work_queue, begun,
  \* VisionRecords
  info, step, copy, announced, crossed

-----------------------------------------------------------------------------
Server == INSTANCE GroundServerProofs WITH
  Uis <- Browsers, Fields <- FieldKnown, MaxEdits <- UploadEdits,
  MaxOrders <- UploadOrders, MaxQueue <- UploadQueue, States <- PilotModes,
  FakeLength <- FakeFrames, MaxWire <- PanelQueue,
  ugvWaitTimeAfterCut <- DriveWait, MaxTimers <- DriveTimers,
  MaxOrphans <- DialogsLeft, submission <- imageSubmission,
  commands <- storeCommands, modal <- storeModal, connected <- uiConnected,
  edits <- storeEdits, wire <- panelWire, sent <- ordersSent

HurriedUi == INSTANCE UiProofs WITH
  FileLength <- FileFrames, MaxRecorded <- MostRecorded,
  MaxReplays <- MostReplays, Default <- DefaultServer,
  MaxOrders <- MaxTransmitted, Fields <- Entries, None <- Absent,
  Careful <- TRUE, Missions <- StationMissions, Empty <- Absent,
  MaxMessages <- BrowserQueue, MaxTimers <- AppTimers, Apart <- TRUE,
  Positions <- EditorPositions, Altitudes <- EditorAltitudes,
  WaypointAMSL <- WaypointHeight, Home <- HomeHeight,
  MaxCommands <- FewCommandsAtOnce, MaxIds <- MoreCommandsEver,
  Patient <- FALSE, page <- viewPage, toUi <- appToUi,
  commands <- editorCommands

Ui == INSTANCE UiProofs WITH
  FileLength <- FileFrames, MaxRecorded <- MostRecorded,
  MaxReplays <- MostReplays, Default <- DefaultServer,
  MaxOrders <- MaxTransmitted, Fields <- Entries, None <- Absent,
  Careful <- TRUE, Missions <- StationMissions, Empty <- Absent,
  MaxMessages <- BrowserQueue, MaxTimers <- AppTimers, Apart <- TRUE,
  Positions <- EditorPositions, Altitudes <- EditorAltitudes,
  WaypointAMSL <- WaypointHeight, Home <- HomeHeight,
  MaxCommands <- CommandsAtOnce, MaxIds <- CommandsEver, Patient <- TRUE,
  page <- viewPage, toUi <- appToUi, commands <- editorCommands

Map == INSTANCE MapProofs WITH
  Waypoints <- NumberedPoints, Goals <- NamedPoints,
  SearchArea <- AreaObject, Locations <- MapLocations,
  MaxLength <- PlanOnMap, Positions <- PathPositions, NoPosition <- Nowhere,
  MaxPlan <- PathCommands, MaxStray <- StrayLines, Places <- DronePlaces,
  Field <- FieldCenter, Step <- PathStep, Jump <- PathJump,
  Margin <- FollowMargin, MaxPath <- PathPoints, Spots <- DrawnPlaces,
  Radii <- ObstacleRadii, MaxObstacles <- MostObstacles,
  MaxCommands <- MostDroneCommands, MaxPoints <- MostPoints,
  Points <- FieldLongitudes \X FieldLatitudes, MaxCorners <- ZoneCorners,
  MaxZones <- MostZones, commands <- linkCommands, interopData <- fieldData,
  sent <- fieldSent

Orders == INSTANCE GroundServerProofs WITH
  Uis <- Browsers, Fields <- FieldKnown, MaxEdits <- UploadEdits,
  MaxOrders <- UploadOrders, MaxQueue <- UploadQueue, States <- PilotModes,
  FakeLength <- FakeFrames, MaxWire <- PanelQueue,
  ugvWaitTimeAfterCut <- OrdersWait, MaxTimers <- OrdersTimers,
  MaxOrphans <- DialogsLeft, submission <- imageSubmission,
  commands <- storeCommands, modal <- storeModal, connected <- uiConnected,
  edits <- storeEdits, wire <- panelWire, sent <- ordersSent

Plan == INSTANCE PlanProofs WITH
  UIs <- Browsers, MaxLength <- SharedPlan, MaxEdits <- SharedEdits,
  MaxRemounts <- PageChanges, overlapped <- changesOverlapped

LongMap == INSTANCE MapProofs WITH
  Waypoints <- NumberedPoints, Goals <- NamedPoints,
  SearchArea <- AreaObject, Locations <- FewMapLocations,
  MaxLength <- LongPlanOnMap, Positions <- PathPositions,
  NoPosition <- Nowhere, MaxPlan <- PathCommands, MaxStray <- StrayLines,
  Places <- DronePlaces, Field <- FieldCenter, Step <- PathStep,
  Jump <- PathJump, Margin <- FollowMargin, MaxPath <- PathPoints,
  Spots <- DrawnPlaces, Radii <- ObstacleRadii,
  MaxObstacles <- MostObstacles, MaxCommands <- MostDroneCommands,
  MaxPoints <- MostPoints, Points <- FieldLongitudes \X FieldLatitudes,
  MaxCorners <- ZoneCorners, MaxZones <- MostZones, commands <- linkCommands,
  interopData <- fieldData, sent <- fieldSent

HurriedPlanner == INSTANCE PlannerProofs WITH
  Ids <- PlanIds, Places <- PlanPlaces, Origin <- OriginPlace,
  Home <- HomePlace, Area <- AreaPlace, Bytes <- MissionBytes,
  MaxLength <- MissionLength, Careful <- FALSE, commands <- rangeCommands,
  mission <- typedMission, sent <- missionSent

Planner == INSTANCE PlannerProofs WITH
  Ids <- PlanIds, Places <- PlanPlaces, Origin <- OriginPlace,
  Home <- HomePlace, Area <- AreaPlace, Bytes <- MissionBytes,
  MaxLength <- MissionLength, Careful <- TRUE, commands <- rangeCommands,
  mission <- typedMission, sent <- missionSent

Vision == INSTANCE VisionProofs WITH
  Clients <- VisionClients, MaxAuctions <- ImagesAuctioned,
  MaxRecords <- RecordsAtOnce, Unreadable <- Absent, toServer <- bidsToServer

-----------------------------------------------------------------------------
\* Each component's assumption about its constants.
ASSUME GroundAssumption ==
  /\ Server!InteropAssumption
  /\ Server!UploadAssumption
  /\ Server!RelayAssumption
  /\ HurriedUi!ViewAssumption
  /\ Ui!ViewAssumption
  /\ Ui!ConnectionAssumption
  /\ Ui!EditorAssumption
  /\ HurriedUi!EditorAssumption
  /\ Map!GroundProgramAssumption
  /\ Ui!TaggingAssumption
  /\ Server!DriveAssumption
  /\ Orders!OrdersAssumption
  /\ Plan!PlanSyncAssumption
  /\ Map!LinksAssumption
  /\ LongMap!LinksAssumption
  /\ HurriedPlanner!RangeAssumption
  /\ Planner!RangeAssumption
  /\ Planner!FieldsAssumption
  /\ Map!PathAssumption
  /\ Map!DroneOnMapAssumption
  /\ Map!DrawingsAssumption
  /\ Ui!ArchiveAssumption
  /\ Planner!RunMissionAssumption
  /\ Vision!AuctionsAssumption
  /\ Vision!RecordsAssumption

Parts ==
  {"interop", "upload", "relay", "view", "careful view", "connection",
   "editor", "long editor", "field", "tagging", "drive", "orders", "plan",
   "links", "long links", "range", "careful range", "fields", "path", "map",
   "drawings", "app", "run", "vision", "records"}

\* The variables of each component.
interopVars == <<made, stage, interopClient, interopData, interopTelemetry,
  intervalHandle, telemetryCanUpload, posts, imageSubmission, ui_connected,
  ui_data, overlapped>>
missionUploadVars == <<storeCommands, missionCompiled, missionUploaded,
  droneProgram, storeModal, uiConnected, outbox, inbox, fieldKnown,
  drone_program, topic, echo, storeEdits, orders, published, authors,
  orderly>>
telemetryRelayVars == <<protobufLoaded, sensors, flightControllerState,
  droneArmed, droppyReady, drone_connected, controls, fakeIndex, panel,
  panelWire, panelState, panelReady, missed>>
telemetryViewVars == <<droneTelemetry, playback, recording, telemetryData,
  usingLoaded, isPaused, file, readers, replays, viewPage, received>>
uiConnectionVars == <<gndServerIp, connectedGndServerIp,
  gndServerConnected, socketIp, connected, sendBuffer, wire, closing,
  given, shownFor, executed, resetSince>>
missionEditorVars == <<editorCommands, defaultAltitude, commandAnimate,
  stops, mapCenter, homeKnown, nextId>>
groundProgramVars == <<fieldData, fieldSent, serverUp, shown>>
taggingVars == <<selectedImage, croppedImagePath, croppedAreaPixels,
  displayCropper, formValues, annValues, reads, crops, disk, submission,
  chosen>>
ugvDriveVars == <<droveUgv, ugvDriveTimer, left, called_off, resets>>
ugvOrdersVars == <<ugvDriveVars, page, dialog, message, action, orphans,
  ordersSent, ugv_connected, ugv_order, ugv_target, disabled>>
planSyncVars == <<home, toServer, toUi, plan, edits, remounts, editors,
  changesOverlapped, reshaped>>
planLinksVars == <<mission, points, linkCommands, invalidCommands, cutShort>>
planRangeVars == <<rangeCommands, green, popup, clicked, partly>>
planFieldsVars == <<command>>
commandPathVars == <<positions, markers, commands_path, map, firstChanged>>
droneOnMapVars == <<path, marker, center, followDrone, telemetry>>
mapDrawingsVars == <<obstacles, circles, droneCommands, current, paths>>
archiveAppVars == <<interop, station, refresh, connect, broadcast, appToUi,
  ui>>
runMissionVars == <<typedMission, missionSent>>
visionAuctionsVars == <<task_queue, asked, announcing, active_auctions,
  bids, due, taken_auctions, running, toClient, bidsToServer, work_queue,
  begun>>
visionRecordsVars == <<info, step, copy, announced, crossed>>

Init ==
  /\ part \in Parts
  /\ Server!InteropInit
  /\ Server!UploadInit
  /\ Server!RelayInit
  /\ HurriedUi!ViewInit
  /\ Ui!Init
  /\ Ui!EditorInit
  /\ Map!Init
  /\ Ui!TaggingInit
  /\ Orders!OrdersInit
  /\ Plan!PlanInit
  /\ Map!LinksInit
  /\ HurriedPlanner!RangeInit
  /\ Planner!FieldsInit
  /\ Map!PathInit
  /\ Map!MapInit
  /\ Map!DrawingsInit
  /\ Ui!ArchiveInit
  /\ Planner!RunInit
  /\ Vision!AuctionsInit
  /\ Vision!RecordsInit
  /\ part # "app" => interop = [missions |-> Absent, up |-> FALSE]

\* The variables of each program.
serverVars == <<interopVars, missionUploadVars, telemetryRelayVars,
  ugvOrdersVars>>
pageVars == <<telemetryViewVars, uiConnectionVars, missionEditorVars,
  groundProgramVars, taggingVars>>
stationVars == <<planSyncVars, planLinksVars, planRangeVars,
  planFieldsVars, commandPathVars, droneOnMapVars, mapDrawingsVars,
  archiveAppVars, runMissionVars>>
visionVars == <<visionAuctionsVars, visionRecordsVars>>
vars == <<part, serverVars, pageVars, stationVars, visionVars>>

\* The server and the orders that it relays.
ServerMoves ==
  /\ \/ part = "interop" /\ Server!InteropNext
     \/ part = "upload" /\ Server!UploadNext
     \/ part = "relay" /\ Server!RelayNext
     \/ /\ part = "drive" /\ Server!DriveNext
        /\ UNCHANGED <<page, dialog, message, action, orphans, ordersSent,
                       ugv_connected, ugv_order, ugv_target, disabled>>
     \/ part = "orders" /\ Orders!OrdersNext
  /\ part # "interop" => UNCHANGED interopVars
  /\ part # "upload" => UNCHANGED missionUploadVars
  /\ part # "relay" => UNCHANGED telemetryRelayVars
  /\ part \notin {"drive", "orders"} => UNCHANGED ugvOrdersVars

\* The pages of the interface.
PagesMove ==
  /\ \/ part = "view" /\ HurriedUi!ViewNext
     \/ part = "careful view" /\ Ui!ViewNext
     \/ part = "connection" /\ Ui!Next
     \/ part = "editor" /\ Ui!EditorNext
     \/ part = "long editor" /\ HurriedUi!EditorNext
     \/ part = "field" /\ Map!Next
     \/ part = "tagging" /\ Ui!TaggingNext
  /\ part \notin {"view", "careful view"} => UNCHANGED telemetryViewVars
  /\ part # "connection" => UNCHANGED uiConnectionVars
  /\ part \notin {"editor", "long editor"} => UNCHANGED missionEditorVars
  /\ part # "field" => UNCHANGED groundProgramVars
  /\ part # "tagging" => UNCHANGED taggingVars

\* The archived station and its interface.
StationMoves ==
  /\ \/ part = "plan" /\ Plan!PlanNext
     \/ part = "links" /\ Map!LinksNext
     \/ part = "long links" /\ LongMap!LinksNext
     \/ part = "range" /\ HurriedPlanner!RangeNext
     \/ part = "careful range" /\ Planner!RangeNext
     \/ part = "fields" /\ Planner!FieldsNext
     \/ part = "path" /\ Map!BoundedNext
     \/ part = "map" /\ Map!MapNext
     \/ part = "drawings" /\ Map!DrawingsNext
     \/ part = "app" /\ Ui!ArchiveNext
     \/ part = "run" /\ Planner!RunNext
  /\ part # "plan" => UNCHANGED planSyncVars
  /\ part \notin {"links", "long links"} => UNCHANGED planLinksVars
  /\ part \notin {"range", "careful range"} => UNCHANGED planRangeVars
  /\ part # "fields" => UNCHANGED planFieldsVars
  /\ part # "path" => UNCHANGED commandPathVars
  /\ part # "map" => UNCHANGED droneOnMapVars
  /\ part # "drawings" => UNCHANGED mapDrawingsVars
  /\ part # "app" => UNCHANGED archiveAppVars
  /\ part # "run" => UNCHANGED runMissionVars

\* The vision server.
VisionMoves ==
  /\ \/ part = "vision" /\ Vision!AuctionsNext
     \/ part = "records" /\ Vision!RecordsNext
  /\ part # "vision" => UNCHANGED visionAuctionsVars
  /\ part # "records" => UNCHANGED visionRecordsVars

Next ==
  \/ ServerMoves /\ UNCHANGED <<part, pageVars, stationVars, visionVars>>
  \/ PagesMove /\ UNCHANGED <<part, serverVars, stationVars, visionVars>>
  \/ StationMoves /\ UNCHANGED <<part, serverVars, pageVars, visionVars>>
  \/ VisionMoves /\ UNCHANGED <<part, serverVars, pageVars, stationVars>>
  \/ part = "plan" /\ Plan!Quiet /\ UNCHANGED vars  \* no edit is left
  \/ part = "records" /\ Vision!Over /\ UNCHANGED vars

Spec == Init /\ [][Next]_vars

-----------------------------------------------------------------------------
\* Every component's variables have their types; what more each means by that
\* is said in its module.
GroundTypeOK ==
  /\ part = "interop" => Server!InteropTypeOK
  /\ part = "upload" => Server!UploadTypeOK
  /\ part = "relay" => Server!RelayTypeOK
  /\ part = "view" => HurriedUi!ViewTypeOK
  /\ part = "careful view" => Ui!ViewTypeOK
  /\ part = "connection" => Ui!ConnectionTypeOK
  /\ part = "editor" => Ui!EditorTypeOK
  /\ part = "long editor" => HurriedUi!EditorTypeOK
  /\ part = "tagging" => Ui!TaggingTypeOK
  /\ part = "drive" => Server!DriveTypeOK
  /\ part = "orders" => Orders!OrdersTypeOK
  /\ part = "plan" => Plan!PlanTypeOK
  /\ part = "links" => Map!LinksTypeOK
  /\ part = "long links" => LongMap!LinksTypeOK
  /\ part = "range" => HurriedPlanner!RangeTypeOK
  /\ part = "careful range" => Planner!RangeTypeOK
  /\ part = "path" => Map!PathTypeOK
  /\ part = "map" => Map!DroneOnMapTypeOK
  /\ part = "app" => Ui!ArchiveTypeOK
  /\ part = "vision" => Vision!AuctionsTypeOK
  /\ part = "records" => Vision!RecordsTypeOK

\* The mission that plans are compiled with, the one a UI shows and the client
\* that telemetry and images go to are of one server, when no two connections
\* overlap; an interval runs exactly while there is telemetry to post.
InteropAgrees ==
  part = "interop" =>
    /\ Server!MissionOfClient
    /\ Server!UiShowsServersMission
    /\ Server!ImageFollowsObject
    /\ Server!IntervalRunsForTelemetry

\* What a UI calls compiled is its plan, although answers cross edits; what is
\* uploaded is the program that was shown to the operator; and what a UI calls
\* uploaded was published.
UploadAsShown ==
  part = "upload" =>
    /\ Server!CompiledIsThePlan
    /\ Server!UploadsTheShown
    /\ Server!UploadedWasPublished

\* The button panel tells the drone's state once it has read its messages; a
\* recording holds what was shown while it was made; and live telemetry is
\* hidden exactly while a file is read or played, for a careful operator.
TelemetryAsShown ==
  /\ part = "relay" => Server!PanelShowsTheDrone /\ Server!PanelShowsReadiness
  /\ part = "view" => HurriedUi!SavesWhatWasShown
  /\ part = "careful view" => Ui!PlaybackIsBusy

\* The server that the Settings page names is the one the socket is connected
\* to, unless the store was reset since; no other server executes an order than
\* the one shown when it was given, and none is executed twice.
OrdersReachTheServerShown ==
  part = "connection" =>
    /\ Ui!ShowsTheConnection
    /\ Ui!ExecutedWhereShown
    /\ Ui!ExecutedOnce

\* A command's marker stands where the drone will be sent, through changes of
\* type and drags.
MarkersAreCompiled ==
  /\ part = "editor" => Ui!MarkersAreCompiled
  /\ part = "long editor" => HurriedUi!MarkersAreCompiled

\* The field that programs are compiled for is the largest zone and the one on
\* the map; it is a hole in what is shaded, as every zone of the archived map
\* is, whichever way they turn; only a mission without zones is not compiled.
FieldAsShown ==
  part = "field" =>
    /\ Map!ShoelaceIsTheArea
    /\ Map!SentFieldIsShown
    /\ Map!FieldIsAHole
    /\ Map!EveryZoneIsAHole
    /\ Map!CompilesUnlessNoZone

\* What is submitted is the selected image's crop with its own description, by
\* an operator who waits for the files.
SubmitsTheSelected ==
  part = "tagging" => Ui!SubmitsTheSelected /\ Ui!SubmitsItsDescription

\* A drive of the UGV that was called off does not begin, unless the latch was
\* reset in between, and at most one begins for each reset of the latch.
DrivesUnlessCalledOff ==
  part = "drive" =>
    Server!CallingOffStopsDriveUnlessReset /\ Server!OneDrivePerReset

\* Browsers that edit one plan show the server's when no changes crossed, and
\* merge changes that crossed when they are of different commands; a browser's
\* error about a plan is never sent to the others.
PlansAgree ==
  part = "plan" => Plan!PlansAgree /\ Plan!EditsMerge /\ Plan!ErrorStaysHere

\* One command starts the range that is sent and one ends it, and the rows
\* drawn green are those in between.  The window of a row acts on the command
\* that was clicked, when only the list changes the plan while it is open.  A
\* command has only fields of its type, and is at the object it is linked to.
PlannerTellsThePlan ==
  /\ part = "range" =>
       HurriedPlanner!OneStartOneEnd /\ HurriedPlanner!GreenIsSent
  /\ part = "careful range" => Planner!WindowIsForTheClicked
  /\ part = "fields" => Planner!FieldsAreOfTheType /\ Planner!LinkedIsThere

\* The markers on the map are the plan's, and so is the path, until another
\* command is the first with a position; the window of an object offers to add
\* or to remove it as the plan has it, until an error cut a removal short.  The
\* drone's path ends at the drone, and a map that follows the drone has it in
\* view; the circles are the obstacles; the current command's line is a part of
\* the announced path.
MapTellsPlanAndFlight ==
  /\ part = "path" => Map!MarkersAreThePlan /\ Map!PathFollowsThePlan
  /\ part = "links" => Map!ButtonsTellThePlan
  /\ part = "long links" => LongMap!ButtonsTellThePlan
  /\ part = "map" => Map!PathEndsAtTheDrone /\ Map!FollowedIsInView
  /\ part = "drawings" =>
       Map!CirclesAreTheObstacles /\ Map!CurrentIsPartOfThePath

\* A browser with nothing left to read tells whether the drone is connected,
\* and has the station's missions although only changes are sent.
BrowserTellsTheStation ==
  part = "app" => Ui!StateTellsTheDrone /\ Ui!MissionsOfTheStation

\* Every image that the vision server is to have processed waits for bidders,
\* is auctioned or is taken, though bids come at any time; a timeout in the
\* queue finds its auction; and the client that won, which was the least busy
\* of those heard in time, works on it once.  An image is said to be classified
\* after all its results came, and they are in its file unless they crossed.
ImagesAreServed ==
  /\ part = "vision" =>
       /\ Vision!TimeoutFindsItsAuction
       /\ Vision!NoAuctionIsLost
       /\ Vision!WorkIsTheWinners
       /\ Vision!TakenIsWorkedOnOnce
  /\ part = "records" =>
       Vision!AnnouncedWasClassified /\ Vision!ResultsAreKept

\* Only what the dialog on the screen names is sent to the UGV, a disabled UGV
\* stays so while no drive is pending, and a mission is sent in base64.
OnlyTheShownIsSent ==
  [][/\ part = "orders" => Orders!SendsWhatIsOnScreen /\ Orders!KeepsDisabled
     /\ part = "run" => Planner!SendsBase64]_vars

\* A change between types that have a position keeps it, in both planners; a
\* plan that agrees with the mission is shown with its links; and a recorded
\* flight never takes the place of the drone's telemetry.
NothingIsLost ==
  [][/\ part = "long editor" => HurriedUi!KeepsLocation
     /\ part = "fields" => Planner!KeepsPlace
     /\ part = "links" => Map!ShowsAgreeingPlan
     /\ part = "long links" => LongMap!ShowsAgreeingPlan
     /\ part = "relay" => Server!KeepsTheDrone]_vars
=============================================================================
