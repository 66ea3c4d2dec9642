---------------------------- MODULE GroundProofs ----------------------------
(***************************************************************************)
(* Theorems about the ground station's components as MCGround puts them    *)
(* side by side, for every value of its constants.  The components bring   *)
(* their own theorems in (GroundServerProofs, UiProofs, PlanProofs,        *)
(* PlannerProofs, MapProofs, VisionProofs); what is shown here is that a   *)
(* behaviour in which a component moves is one of that component's.        *)
(***************************************************************************)
EXTENDS MCGround, TLAPS

-----------------------------------------------------------------------------
(* A behaviour is one component's.                                         *)

LEMMA PartStays ==
  ASSUME NEW CONSTANT p, [Next]_vars
  PROVE  part = p <=> (part = p)'
  BY DEF Next, ServerMoves, PagesMove, StationMoves, VisionMoves, serverVars,
         pageVars, stationVars, visionVars, vars

-----------------------------------------------------------------------------
(* The ground server's connections to interop.                             *)

LEMMA InteropRuns == Spec => []~(part = "interop") \/ Server!InteropSpec
<1>1. Init => Server!InteropInit
  BY DEF Init
<1>2. [Next]_vars => (part = "interop" <=> (part = "interop")')
  BY PartStays
<1>3. part = "interop" /\ [Next]_vars
      => [Server!InteropNext]_Server!interopVars
  BY DEF Next, ServerMoves, PagesMove, StationMoves, VisionMoves, serverVars,
         pageVars, stationVars, visionVars, vars, interopVars, Server!interopVars,
         Server!clientVars, Server!uiVars
<1>4. QED
  BY <1>1, <1>2, <1>3, PTL DEF Spec, Server!InteropSpec

\* The server's clients, the plans it compiles and the screens agree on the
\* interop server, for any number of attempts to connect and of images.
THEOREM InteropAlwaysAgrees == Spec => []InteropAgrees
<1>1. Server!InteropAssumption
  BY GroundAssumption
<1>2. Server!InteropSpec => []Server!MissionOfClient
  BY <1>1, Server!MissionIsTheClients, PTL
<1>3. Server!InteropSpec => []Server!UiShowsServersMission
  BY <1>1, Server!UiMissionIsTheServers, PTL
<1>4. Server!InteropSpec => []Server!ImageFollowsObject
  BY <1>1, Server!ImagesFollowObjects, PTL
<1>5. Server!InteropSpec => []Server!IntervalRunsForTelemetry
  BY <1>1, Server!IntervalsRunForTelemetry, PTL
<1>6. ~(part = "interop") => InteropAgrees
  BY DEF InteropAgrees
<1>7. /\ Server!MissionOfClient /\ Server!UiShowsServersMission
      /\ Server!ImageFollowsObject /\ Server!IntervalRunsForTelemetry
      => InteropAgrees
  BY DEF InteropAgrees
<1>8. QED
  BY <1>2, <1>3, <1>4, <1>5, <1>6, <1>7, InteropRuns, PTL

-----------------------------------------------------------------------------
(* The timers of the ground server that drive the UGV.                     *)

LEMMA DriveRuns == Spec => []~(part = "drive") \/ Server!DriveSpec
<1>1. Init => Server!DriveInit
  BY DEF Init, Orders!OrdersInit, Orders!DriveInit, Server!DriveInit,
         Server!NoTimer, Orders!NoTimer
<1>2. [Next]_vars => (part = "drive" <=> (part = "drive")')
  BY PartStays
<1>3. part = "drive" /\ [Next]_vars => [Server!DriveNext]_Server!driveVars
  BY DEF Next, ServerMoves, PagesMove, StationMoves, VisionMoves, serverVars,
         pageVars, stationVars, visionVars, vars, ugvOrdersVars, ugvDriveVars,
         Server!driveVars
<1>4. QED
  BY <1>1, <1>2, <1>3, PTL DEF Spec, Server!DriveSpec

\* A drive that was called off does not begin unless the latch was reset in
\* between, and at most one begins for each reset, for every waiting time.
THEOREM DrivesOnlyUnlessCalledOff == Spec => []DrivesUnlessCalledOff
<1>1. Server!DriveAssumption
  BY GroundAssumption
<1>2. Server!DriveSpec => []Server!CallingOffStopsDriveUnlessReset
  BY <1>1, Server!CallingOffStops, PTL
<1>3. Server!DriveSpec => []Server!OneDrivePerReset
  BY <1>1, Server!OneDriveForEachReset, PTL
<1>4. ~(part = "drive") => DrivesUnlessCalledOff
  BY DEF DrivesUnlessCalledOff
<1>5. Server!CallingOffStopsDriveUnlessReset /\ Server!OneDrivePerReset
      => DrivesUnlessCalledOff
  BY DEF DrivesUnlessCalledOff
<1>6. QED
  BY <1>2, <1>3, <1>4, <1>5, DriveRuns, PTL

-----------------------------------------------------------------------------
(* The UI's connection.                                                    *)

LEMMA ConnectionRuns == Spec => []~(part = "connection") \/ Ui!Spec
<1>1. Init => Ui!Init
  BY DEF Init
<1>2. [Next]_vars => (part = "connection" <=> (part = "connection")')
  BY PartStays
<1>3. part = "connection" /\ [Next]_vars => [Ui!Next]_Ui!vars
  BY DEF Next, ServerMoves, PagesMove, StationMoves, VisionMoves, serverVars,
         pageVars, stationVars, visionVars, vars, uiConnectionVars, Ui!vars,
         Ui!settings, Ui!socket, Ui!orders
<1>4. QED
  BY <1>1, <1>2, <1>3, PTL DEF Spec, Ui!Spec

\* Orders reach the server that the Settings page shows, and each reaches at
\* most one, once, for any servers and any number of orders.
THEOREM OrdersReachWhatIsShown == Spec => []OrdersReachTheServerShown
<1>1. Ui!ConnectionAssumption
  BY GroundAssumption
<1>2. Ui!Spec => [](/\ Ui!ShowsTheConnection /\ Ui!ExecutedWhereShown
                    /\ Ui!ExecutedOnce)
  BY <1>1, Ui!OrdersReachTheShown, PTL
<1>3. ~(part = "connection") => OrdersReachTheServerShown
  BY DEF OrdersReachTheServerShown
<1>4. Ui!ShowsTheConnection /\ Ui!ExecutedWhereShown /\ Ui!ExecutedOnce
      => OrdersReachTheServerShown
  BY DEF OrdersReachTheServerShown
<1>5. QED
  BY <1>2, <1>3, <1>4, ConnectionRuns, PTL

-----------------------------------------------------------------------------
(* The mission editor.                                                     *)

LEMMA EditorRuns == Spec => []~(part = "editor") \/ Ui!EditorSpec
<1>1. Init => Ui!EditorInit
  BY DEF Init
<1>2. [Next]_vars => (part = "editor" <=> (part = "editor")')
  BY PartStays
<1>3. part = "editor" /\ [Next]_vars => [Ui!EditorNext]_Ui!editorVars
  BY DEF Next, ServerMoves, PagesMove, StationMoves, VisionMoves, serverVars,
         pageVars, stationVars, visionVars, vars, missionEditorVars, Ui!editorVars,
         Ui!editing, Ui!showing
<1>4. QED
  BY <1>1, <1>2, <1>3, PTL DEF Spec, Ui!EditorSpec

LEMMA LongEditorRuns ==
  Spec => []~(part = "long editor") \/ HurriedUi!EditorSpec
<1>1. Init => HurriedUi!EditorInit
  BY DEF Init, Ui!EditorInit, HurriedUi!EditorInit, Ui!Origin,
         HurriedUi!Origin, Ui!InitialAltitude, HurriedUi!InitialAltitude
<1>2. [Next]_vars => (part = "long editor" <=> (part = "long editor")')
  BY PartStays
<1>3. part = "long editor" /\ [Next]_vars
      => [HurriedUi!EditorNext]_HurriedUi!editorVars
  BY DEF Next, ServerMoves, PagesMove, StationMoves, VisionMoves, serverVars,
         pageVars, stationVars, visionVars, vars, missionEditorVars,
         HurriedUi!editorVars, HurriedUi!editing, HurriedUi!showing
<1>4. QED
  BY <1>1, <1>2, <1>3, PTL DEF Spec, HurriedUi!EditorSpec

\* A command's marker stands where the drone will be sent, for any places and
\* altitudes and any number of commands.
THEOREM MarkersAlwaysStandWhereCompiled == Spec => []MarkersAreCompiled
<1>1. Ui!EditorAssumption /\ HurriedUi!EditorAssumption
  BY GroundAssumption
<1>2. Ui!EditorSpec => []Ui!MarkersAreCompiled
  BY <1>1, Ui!MarkersStandWhereCompiled, PTL
<1>3. HurriedUi!EditorSpec => []HurriedUi!MarkersAreCompiled
  BY <1>1, HurriedUi!MarkersStandWhereCompiled, PTL
<1>4. Spec => [](part = "editor" => Ui!MarkersAreCompiled)
  BY <1>2, EditorRuns, PTL
<1>5. Spec => [](part = "long editor" => HurriedUi!MarkersAreCompiled)
  BY <1>3, LongEditorRuns, PTL
<1>6. /\ part = "editor" => Ui!MarkersAreCompiled
      /\ part = "long editor" => HurriedUi!MarkersAreCompiled
      => MarkersAreCompiled
  BY DEF MarkersAreCompiled
<1>7. QED
  BY <1>4, <1>5, <1>6, PTL

-----------------------------------------------------------------------------
(* The Tagging page.                                                       *)

LEMMA TaggingRuns == Spec => []~(part = "tagging") \/ Ui!TaggingSpec
<1>1. Init => Ui!TaggingInit
  BY DEF Init
<1>2. [Next]_vars => (part = "tagging" <=> (part = "tagging")')
  BY PartStays
<1>3. part = "tagging" /\ [Next]_vars => [Ui!TaggingNext]_Ui!taggingVars
  BY DEF Next, ServerMoves, PagesMove, StationMoves, VisionMoves, serverVars,
         pageVars, stationVars, visionVars, vars, taggingVars, Ui!taggingVars,
         Ui!cropVars, Ui!formVars
<1>4. QED
  BY <1>1, <1>2, <1>3, PTL DEF Spec, Ui!TaggingSpec

\* The image that is submitted is the selected one's crop and its description,
\* for any images and any fields of the description.
THEOREM AlwaysSubmitsTheSelected == Spec => []SubmitsTheSelected
<1>1. Ui!TaggingAssumption
  BY GroundAssumption
<1>2. Ui!TaggingSpec
      => [](Ui!SubmitsTheSelected /\ Ui!SubmitsItsDescription)
  BY <1>1, Ui!SubmissionsAreOfTheSelected, PTL
<1>3. ~(part = "tagging") => SubmitsTheSelected
  BY DEF SubmitsTheSelected
<1>4. Ui!SubmitsTheSelected /\ Ui!SubmitsItsDescription => SubmitsTheSelected
  BY DEF SubmitsTheSelected
<1>5. QED
  BY <1>2, <1>3, <1>4, TaggingRuns, PTL

-----------------------------------------------------------------------------
(* The archived interface's application and its station.                   *)

LEMMA AppRuns == Spec => []~(part = "app") \/ Ui!ArchiveSpec
<1>1. Init => Ui!ArchiveInit
  BY DEF Init
<1>2. [Next]_vars => (part = "app" <=> (part = "app")')
  BY PartStays
<1>3. part = "app" /\ [Next]_vars => [Ui!ArchiveNext]_Ui!archiveVars
  BY DEF Next, ServerMoves, PagesMove, StationMoves, VisionMoves, serverVars,
         pageVars, stationVars, visionVars, vars, archiveAppVars, Ui!archiveVars
<1>4. QED
  BY <1>1, <1>2, <1>3, PTL DEF Spec, Ui!ArchiveSpec

\* A browser that has read everything tells the drone's state and has the
\* station's missions, for any missions and any number of messages.
THEOREM BrowserAlwaysTells == Spec => []BrowserTellsTheStation
<1>1. Ui!ArchiveAssumption
  BY GroundAssumption
<1>2. Ui!ArchiveSpec => [](Ui!StateTellsTheDrone /\ Ui!MissionsOfTheStation)
  BY <1>1, Ui!BrowserKnowsTheStation, PTL
<1>3. ~(part = "app") => BrowserTellsTheStation
  BY DEF BrowserTellsTheStation
<1>4. Ui!StateTellsTheDrone /\ Ui!MissionsOfTheStation
      => BrowserTellsTheStation
  BY DEF BrowserTellsTheStation
<1>5. QED
  BY <1>2, <1>3, <1>4, AppRuns, PTL

-----------------------------------------------------------------------------
(* Missions on their way from the UIs to the drone.                        *)

LEMMA UploadRuns == Spec => []~(part = "upload") \/ Server!UploadSpec
<1>1. Init => Server!UploadInit
  BY DEF Init
<1>2. [Next]_vars => (part = "upload" <=> (part = "upload")')
  BY PartStays
<1>3. part = "upload" /\ [Next]_vars
      => [Server!UploadNext]_Server!uploadVars
  BY DEF Next, ServerMoves, PagesMove, StationMoves, VisionMoves, serverVars,
         pageVars, stationVars, visionVars, vars, missionUploadVars, Server!uploadVars,
         Server!storeVars, Server!queueVars, Server!rosVars
<1>4. QED
  BY <1>1, <1>2, <1>3, PTL DEF Spec, Server!UploadSpec

\* What a UI calls compiled is its plan, what is uploaded was shown, and what
\* is called uploaded was published, for any number of UIs and of edits.
THEOREM AlwaysUploadAsShown == Spec => []UploadAsShown
<1>1. Server!UploadAssumption
  BY GroundAssumption
<1>2. Server!UploadSpec
      => [](Server!CompiledIsThePlan /\ Server!UploadsTheShown)
  BY <1>1, Server!UploadsAreShown, PTL
<1>3. Server!UploadSpec => []Server!UploadedWasPublished
  BY <1>1, Server!UploadedIsPublished, PTL
<1>4. ~(part = "upload") => UploadAsShown
  BY DEF UploadAsShown
<1>5. /\ Server!CompiledIsThePlan /\ Server!UploadsTheShown
      /\ Server!UploadedWasPublished
      => UploadAsShown
  BY DEF UploadAsShown
<1>6. QED
  BY <1>2, <1>3, <1>4, <1>5, UploadRuns, PTL

-----------------------------------------------------------------------------
(* The button panel, and the page that records and plays back.             *)

LEMMA RelayRuns == Spec => []~(part = "relay") \/ Server!RelaySpec
<1>1. Init => Server!RelayInit
  BY DEF Init
<1>2. [Next]_vars => (part = "relay" <=> (part = "relay")')
  BY PartStays
<1>3. part = "relay" /\ [Next]_vars => [Server!RelayNext]_Server!relayVars
  BY DEF Next, ServerMoves, PagesMove, StationMoves, VisionMoves, serverVars,
         pageVars, stationVars, visionVars, vars, telemetryRelayVars, Server!relayVars,
         Server!server
<1>4. QED
  BY <1>1, <1>2, <1>3, PTL DEF Spec, Server!RelaySpec

\* The page of an operator of any kind.
LEMMA ViewRuns == Spec => []~(part = "view") \/ HurriedUi!ViewSpec
<1>1. Init => HurriedUi!ViewInit
  BY DEF Init
<1>2. [Next]_vars => (part = "view" <=> (part = "view")')
  BY PartStays
<1>3. part = "view" /\ [Next]_vars
      => [HurriedUi!ViewNext]_HurriedUi!viewVars
  BY DEF Next, ServerMoves, PagesMove, StationMoves, VisionMoves, serverVars,
         pageVars, stationVars, visionVars, vars, telemetryViewVars, HurriedUi!viewVars,
         HurriedUi!reducer, HurriedUi!pageVars
<1>4. QED
  BY <1>1, <1>2, <1>3, PTL DEF Spec, HurriedUi!ViewSpec

\* The page of a careful one, which begins in the same state.
LEMMA CarefulViewRuns == Spec => []~(part = "careful view") \/ Ui!ViewSpec
<1>1. Init => Ui!ViewInit
  BY DEF Init, HurriedUi!ViewInit, Ui!ViewInit, HurriedUi!NoFrame, Ui!NoFrame
<1>2. [Next]_vars => (part = "careful view" <=> (part = "careful view")')
  BY PartStays
<1>3. part = "careful view" /\ [Next]_vars => [Ui!ViewNext]_Ui!viewVars
  BY DEF Next, ServerMoves, PagesMove, StationMoves, VisionMoves, serverVars,
         pageVars, stationVars, visionVars, vars, telemetryViewVars, Ui!viewVars,
         Ui!reducer, Ui!pageVars
<1>4. QED
  BY <1>1, <1>2, <1>3, PTL DEF Spec, Ui!ViewSpec

\* The panel ends with the drone's state and readiness, a recording holds what
\* was shown while it was made, and a careful operator's playback hides live
\* telemetry no longer than it takes: for any lengths of recordings and queues.
THEOREM TelemetryAlwaysAsShown == Spec => []TelemetryAsShown
<1>1. Server!RelayAssumption /\ HurriedUi!ViewAssumption /\ Ui!ViewAssumption
  BY GroundAssumption
<1>2. Server!RelaySpec
      => [](Server!PanelShowsTheDrone /\ Server!PanelShowsReadiness)
  BY <1>1, Server!PanelIsInformed, PTL
<1>3. HurriedUi!ViewSpec => []HurriedUi!SavesWhatWasShown
  BY <1>1, HurriedUi!RecordingIsComplete, PTL
<1>4. Ui!ViewSpec => []Ui!PlaybackIsBusy
  BY <1>1, Ui!PlaybackHidesLive, PTL
<1>5. Spec => [](part = "relay" => /\ Server!PanelShowsTheDrone
                                  /\ Server!PanelShowsReadiness)
  BY <1>2, RelayRuns, PTL
<1>6. Spec => [](part = "view" => HurriedUi!SavesWhatWasShown)
  BY <1>3, ViewRuns, PTL
<1>7. Spec => [](part = "careful view" => Ui!PlaybackIsBusy)
  BY <1>4, CarefulViewRuns, PTL
<1>8. /\ part = "relay" => /\ Server!PanelShowsTheDrone
                           /\ Server!PanelShowsReadiness
      /\ part = "view" => HurriedUi!SavesWhatWasShown
      /\ part = "careful view" => Ui!PlaybackIsBusy
      => TelemetryAsShown
  BY DEF TelemetryAsShown
<1>9. QED
  BY <1>5, <1>6, <1>7, <1>8, PTL

-----------------------------------------------------------------------------
(* The mission planner of the archived interface.                          *)

LEMMA RangeRuns == Spec => []~(part = "range") \/ HurriedPlanner!RangeSpec
<1>1. Init => HurriedPlanner!RangeInit
  BY DEF Init
<1>2. [Next]_vars => (part = "range" <=> (part = "range")')
  BY PartStays
<1>3. part = "range" /\ [Next]_vars
      => [HurriedPlanner!RangeNext]_HurriedPlanner!rangeVars
  BY DEF Next, ServerMoves, PagesMove, StationMoves, VisionMoves, serverVars,
         pageVars, stationVars, visionVars, vars, planRangeVars, HurriedPlanner!rangeVars
<1>4. QED
  BY <1>1, <1>2, <1>3, PTL DEF Spec, HurriedPlanner!RangeSpec

\* A plan that nothing but the list changes while a window is open.
LEMMA CarefulRangeRuns ==
  Spec => []~(part = "careful range") \/ Planner!RangeSpec
<1>1. Init => Planner!RangeInit
  BY DEF Init, HurriedPlanner!RangeInit, Planner!RangeInit,
         HurriedPlanner!Nobody, Planner!Nobody
<1>2. [Next]_vars => (part = "careful range" <=> (part = "careful range")')
  BY PartStays
<1>3. part = "careful range" /\ [Next]_vars
      => [Planner!RangeNext]_Planner!rangeVars
  BY DEF Next, ServerMoves, PagesMove, StationMoves, VisionMoves, serverVars,
         pageVars, stationVars, visionVars, vars, planRangeVars, Planner!rangeVars
<1>4. QED
  BY <1>1, <1>2, <1>3, PTL DEF Spec, Planner!RangeSpec

LEMMA FieldsRuns == Spec => []~(part = "fields") \/ Planner!FieldsSpec
<1>1. Init => Planner!FieldsInit
  BY DEF Init
<1>2. [Next]_vars => (part = "fields" <=> (part = "fields")')
  BY PartStays
<1>3. part = "fields" /\ [Next]_vars
      => [Planner!FieldsNext]_Planner!fieldsVars
  BY DEF Next, ServerMoves, PagesMove, StationMoves, VisionMoves, serverVars,
         pageVars, stationVars, visionVars, vars, planFieldsVars, Planner!fieldsVars
<1>4. QED
  BY <1>1, <1>2, <1>3, PTL DEF Spec, Planner!FieldsSpec

\* One start, one end and green rows between them; a window for the command
\* that was clicked; and fields of the command's type where its link is: for
\* any number of commands and any places.
THEOREM PlannerAlwaysTellsThePlan == Spec => []PlannerTellsThePlan
<1>1. /\ HurriedPlanner!RangeAssumption /\ Planner!RangeAssumption
      /\ Planner!FieldsAssumption
  BY GroundAssumption
<1>2. HurriedPlanner!RangeSpec => []HurriedPlanner!OneStartOneEnd
  BY <1>1, HurriedPlanner!OneStartAndOneEnd, PTL
<1>3. HurriedPlanner!RangeSpec => []HurriedPlanner!GreenIsSent
  BY <1>1, HurriedPlanner!GreenRowsAreSent, PTL
<1>4. Planner!RangeSpec => []Planner!WindowIsForTheClicked
  BY <1>1, Planner!WindowActsOnTheClicked, PTL
<1>5. Planner!FieldsSpec
      => [](Planner!FieldsAreOfTheType /\ Planner!LinkedIsThere)
  BY <1>1, Planner!LinkedCommandsStay, PTL
<1>6. Spec => [](part = "range" => /\ HurriedPlanner!OneStartOneEnd
                                  /\ HurriedPlanner!GreenIsSent)
  BY <1>2, <1>3, RangeRuns, PTL
<1>7. Spec => [](part = "careful range" => Planner!WindowIsForTheClicked)
  BY <1>4, CarefulRangeRuns, PTL
<1>8. Spec => [](part = "fields" => /\ Planner!FieldsAreOfTheType
                                   /\ Planner!LinkedIsThere)
  BY <1>5, FieldsRuns, PTL
<1>9. /\ part = "range" => /\ HurriedPlanner!OneStartOneEnd
                           /\ HurriedPlanner!GreenIsSent
      /\ part = "careful range" => Planner!WindowIsForTheClicked
      /\ part = "fields" => /\ Planner!FieldsAreOfTheType
                            /\ Planner!LinkedIsThere
      => PlannerTellsThePlan
  BY DEF PlannerTellsThePlan
<1>10. QED
  BY <1>6, <1>7, <1>8, <1>9, PTL

-----------------------------------------------------------------------------
(* The map of the archived interface.                                      *)

LEMMA LinksRuns == Spec => []~(part = "links") \/ Map!LinksSpec
<1>1. Init => Map!LinksInit
  BY DEF Init
<1>2. [Next]_vars => (part = "links" <=> (part = "links")')
  BY PartStays
<1>3. part = "links" /\ [Next]_vars => [Map!LinksNext]_Map!linkVars
  BY DEF Next, ServerMoves, PagesMove, StationMoves, VisionMoves, serverVars,
         pageVars, stationVars, visionVars, vars, planLinksVars, Map!linkVars
<1>4. QED
  BY <1>1, <1>2, <1>3, PTL DEF Spec, Map!LinksSpec

\* Longer plans, of objects that are at fewer places.
LEMMA LongLinksRuns == Spec => []~(part = "long links") \/ LongMap!LinksSpec
<1>1. Init => LongMap!LinksInit
  BY DEF Init, Map!LinksInit, LongMap!LinksInit, Map!NotDrawn, LongMap!NotDrawn,
         Map!Objects, LongMap!Objects
<1>2. [Next]_vars => (part = "long links" <=> (part = "long links")')
  BY PartStays
<1>3. part = "long links" /\ [Next]_vars => [LongMap!LinksNext]_LongMap!linkVars
  BY DEF Next, ServerMoves, PagesMove, StationMoves, VisionMoves, serverVars,
         pageVars, stationVars, visionVars, vars, planLinksVars, LongMap!linkVars
<1>4. QED
  BY <1>1, <1>2, <1>3, PTL DEF Spec, LongMap!LinksSpec

LEMMA PathRuns == Spec => []~(part = "path") \/ Map!PathSpec
<1>1. Init => Map!PathInit
  BY DEF Init
<1>2. [Next]_vars => (part = "path" <=> (part = "path")')
  BY PartStays
<1>3. part = "path" /\ [Next]_vars => [Map!BoundedNext]_Map!pathVars
  BY DEF Next, ServerMoves, PagesMove, StationMoves, VisionMoves, serverVars,
         pageVars, stationVars, visionVars, vars, commandPathVars, Map!pathVars
<1>4. QED
  BY <1>1, <1>2, <1>3, PTL DEF Spec, Map!PathSpec

LEMMA MapRuns == Spec => []~(part = "map") \/ Map!MapSpec
<1>1. Init => Map!MapInit
  BY DEF Init
<1>2. [Next]_vars => (part = "map" <=> (part = "map")')
  BY PartStays
<1>3. part = "map" /\ [Next]_vars => [Map!MapNext]_Map!mapVars
  BY DEF Next, ServerMoves, PagesMove, StationMoves, VisionMoves, serverVars,
         pageVars, stationVars, visionVars, vars, droneOnMapVars, Map!mapVars
<1>4. QED
  BY <1>1, <1>2, <1>3, PTL DEF Spec, Map!MapSpec

LEMMA DrawingsRuns == Spec => []~(part = "drawings") \/ Map!DrawingsSpec
<1>1. Init => Map!DrawingsInit
  BY DEF Init
<1>2. [Next]_vars => (part = "drawings" <=> (part = "drawings")')
  BY PartStays
<1>3. part = "drawings" /\ [Next]_vars => [Map!DrawingsNext]_Map!drawingVars
  BY DEF Next, ServerMoves, PagesMove, StationMoves, VisionMoves, serverVars,
         pageVars, stationVars, visionVars, vars, mapDrawingsVars, Map!drawingVars
<1>4. QED
  BY <1>1, <1>2, <1>3, PTL DEF Spec, Map!DrawingsSpec

\* The markers, the path and the buttons are the plan's, the drone's path and
\* the obstacles' circles are those last told, for any objects and places and
\* any lengths of plans and of paths.
THEOREM MapAlwaysTells == Spec => []MapTellsPlanAndFlight
<1>1. /\ Map!LinksAssumption /\ LongMap!LinksAssumption
      /\ Map!DroneOnMapAssumption /\ Map!DrawingsAssumption
  BY GroundAssumption
<1>2. Spec => [](part = "links" => Map!ButtonsTellThePlan)
  BY <1>1, Map!WindowsTellThePlan, LinksRuns, PTL
<1>3. Spec => [](part = "long links" => LongMap!ButtonsTellThePlan)
  BY <1>1, LongMap!WindowsTellThePlan, LongLinksRuns, PTL
<1>4. Spec => [](part = "path" => /\ Map!MarkersAreThePlan
                                 /\ Map!PathFollowsThePlan)
  BY Map!PathShowsThePlan, PathRuns, PTL
<1>5. Spec => [](part = "map" => Map!PathEndsAtTheDrone /\ Map!FollowedIsInView)
  BY <1>1, Map!MapShowsTheDrone, MapRuns, PTL
<1>6. Spec => [](part = "drawings" => /\ Map!CirclesAreTheObstacles
                                     /\ Map!CurrentIsPartOfThePath)
  BY <1>1, Map!DrawingsAreTheData, DrawingsRuns, PTL
<1>7. /\ part = "path" => Map!MarkersAreThePlan /\ Map!PathFollowsThePlan
      /\ part = "links" => Map!ButtonsTellThePlan
      /\ part = "long links" => LongMap!ButtonsTellThePlan
      /\ part = "map" => Map!PathEndsAtTheDrone /\ Map!FollowedIsInView
      /\ part = "drawings" =>
           Map!CirclesAreTheObstacles /\ Map!CurrentIsPartOfThePath
      => MapTellsPlanAndFlight
  BY DEF MapTellsPlanAndFlight
<1>8. QED
  BY <1>2, <1>3, <1>4, <1>5, <1>6, <1>7, PTL

-----------------------------------------------------------------------------
(* The vision server.                                                      *)

LEMMA VisionRuns == Spec => []~(part = "vision") \/ Vision!AuctionsSpec
<1>1. Init => Vision!AuctionsInit
  BY DEF Init
<1>2. [Next]_vars => (part = "vision" <=> (part = "vision")')
  BY PartStays
<1>3. part = "vision" /\ [Next]_vars
      => [Vision!AuctionsNext]_Vision!auctionsVars
  BY DEF Next, ServerMoves, PagesMove, StationMoves, VisionMoves, serverVars,
         pageVars, stationVars, visionVars, vars, visionAuctionsVars,
         Vision!auctionsVars, Vision!serverVars, Vision!clientVars
<1>4. QED
  BY <1>1, <1>2, <1>3, PTL DEF Spec, Vision!AuctionsSpec

LEMMA RecordsRun == Spec => []~(part = "records") \/ Vision!RecordsSpec
<1>1. Init => Vision!RecordsInit
  BY DEF Init
<1>2. [Next]_vars => (part = "records" <=> (part = "records")')
  BY PartStays
<1>3. part = "records" /\ [Next]_vars
      => [Vision!RecordsNext]_Vision!recordsVars
  BY DEF Next, ServerMoves, PagesMove, StationMoves, VisionMoves, serverVars,
         pageVars, stationVars, visionVars, vars, visionRecordsVars,
         Vision!recordsVars
<1>4. QED
  BY <1>1, <1>2, <1>3, PTL DEF Spec, Vision!RecordsSpec

\* No auction is lost, each is worked on once by its winner, and results that
\* do not cross are kept: for any clients and any numbers of auctions and of
\* other tasks in the queue.
THEOREM ImagesAreAlwaysServed == Spec => []ImagesAreServed
<1>1. Vision!AuctionsAssumption /\ Vision!RecordsAssumption
  BY GroundAssumption
<1>2. Vision!AuctionsSpec => [](Vision!TimeoutFindsItsAuction
                                /\ Vision!NoAuctionIsLost)
  BY <1>1, Vision!TimeoutsFindTheirAuctions, Vision!AuctionsAreNotLost, PTL
<1>3. Vision!AuctionsSpec => [](Vision!WorkIsTheWinners
                                /\ Vision!TakenIsWorkedOnOnce)
  BY <1>1, Vision!WinnersWork, Vision!WorkIsDoneOnce, PTL
<1>4. Vision!RecordsSpec => [](Vision!AnnouncedWasClassified
                               /\ Vision!ResultsAreKept)
  BY <1>1, Vision!AnnouncedIsClassified, Vision!ResultsAreAlwaysKept, PTL
<1>5. Spec => [](part = "vision" => /\ Vision!TimeoutFindsItsAuction
                                   /\ Vision!NoAuctionIsLost
                                   /\ Vision!WorkIsTheWinners
                                   /\ Vision!TakenIsWorkedOnOnce)
  BY <1>2, <1>3, VisionRuns, PTL
<1>6. Spec => [](part = "records" => /\ Vision!AnnouncedWasClassified
                                    /\ Vision!ResultsAreKept)
  BY <1>4, RecordsRun, PTL
<1>7. /\ part = "vision" => /\ Vision!TimeoutFindsItsAuction
                            /\ Vision!NoAuctionIsLost
                            /\ Vision!WorkIsTheWinners
                            /\ Vision!TakenIsWorkedOnOnce
      /\ part = "records" => /\ Vision!AnnouncedWasClassified
                             /\ Vision!ResultsAreKept
      => ImagesAreServed
  BY DEF ImagesAreServed
<1>8. QED
  BY <1>5, <1>6, <1>7, PTL

-----------------------------------------------------------------------------
(* What no step of any component does.                                     *)

LEMMA EditorLosesNoPlace ==
  Spec => [][part = "long editor" => HurriedUi!KeepsLocation]_vars
<1>1. HurriedUi!EditorAssumption
  BY GroundAssumption
<1>2. HurriedUi!EditorSpec => [][HurriedUi!KeepsLocation]_HurriedUi!editorVars
  BY <1>1, HurriedUi!TypesKeepLocation, PTL DEF HurriedUi!LocationKeptBetweenLocations
<1>3. [Next]_vars /\ [HurriedUi!KeepsLocation]_HurriedUi!editorVars
      => [part = "long editor" => HurriedUi!KeepsLocation]_vars
  BY DEF Next, ServerMoves, PagesMove, StationMoves, VisionMoves, serverVars,
         pageVars, stationVars, visionVars, vars, missionEditorVars, HurriedUi!editorVars,
         HurriedUi!editing, HurriedUi!showing
<1>4. QED
  BY <1>2, <1>3, LongEditorRuns, PTL DEF Spec

LEMMA FieldsLoseNoPlace ==
  Spec => [][part = "fields" => Planner!KeepsPlace]_vars
<1>1. Planner!FieldsAssumption
  BY GroundAssumption
<1>2. Planner!FieldsSpec => [][Planner!KeepsPlace]_Planner!fieldsVars
  BY <1>1, Planner!TypeChangesKeepPlace, PTL DEF Planner!PlaceKept
<1>3. [Next]_vars /\ [Planner!KeepsPlace]_Planner!fieldsVars
      => [part = "fields" => Planner!KeepsPlace]_vars
  BY DEF Next, ServerMoves, PagesMove, StationMoves, VisionMoves, serverVars,
         pageVars, stationVars, visionVars, vars, planFieldsVars, Planner!fieldsVars
<1>4. QED
  BY <1>2, <1>3, FieldsRuns, PTL DEF Spec

LEMMA LinksLoseNoPlan ==
  Spec => [][part = "links" => Map!ShowsAgreeingPlan]_vars
<1>1. Map!LinksAssumption
  BY GroundAssumption
<1>2. Map!LinksSpec => [][Map!ShowsAgreeingPlan]_Map!linkVars
  BY <1>1, Map!AgreeingPlansAreShown, PTL DEF Map!AgreeingPlanIsShown
<1>3. [Next]_vars /\ [Map!ShowsAgreeingPlan]_Map!linkVars
      => [part = "links" => Map!ShowsAgreeingPlan]_vars
  BY DEF Next, ServerMoves, PagesMove, StationMoves, VisionMoves, serverVars,
         pageVars, stationVars, visionVars, vars, planLinksVars, Map!linkVars
<1>4. QED
  BY <1>2, <1>3, LinksRuns, PTL DEF Spec

LEMMA LongLinksLoseNoPlan ==
  Spec => [][part = "long links" => LongMap!ShowsAgreeingPlan]_vars
<1>1. LongMap!LinksAssumption
  BY GroundAssumption
<1>2. LongMap!LinksSpec => [][LongMap!ShowsAgreeingPlan]_LongMap!linkVars
  BY <1>1, LongMap!AgreeingPlansAreShown, PTL DEF LongMap!AgreeingPlanIsShown
<1>3. [Next]_vars /\ [LongMap!ShowsAgreeingPlan]_LongMap!linkVars
      => [part = "long links" => LongMap!ShowsAgreeingPlan]_vars
  BY DEF Next, ServerMoves, PagesMove, StationMoves, VisionMoves, serverVars,
         pageVars, stationVars, visionVars, vars, planLinksVars, LongMap!linkVars
<1>4. QED
  BY <1>2, <1>3, LongLinksRuns, PTL DEF Spec

LEMMA RelayLosesNoReading ==
  Spec => [][part = "relay" => Server!KeepsTheDrone]_vars
<1>1. Server!RelayAssumption
  BY GroundAssumption
<1>2. Server!RelaySpec => [][Server!KeepsTheDrone]_Server!relayVars
  BY <1>1, Server!RecordingStaysAside, PTL DEF Server!RecordingNeverHidesTheDrone
<1>3. [Next]_vars /\ [Server!KeepsTheDrone]_Server!relayVars
      => [part = "relay" => Server!KeepsTheDrone]_vars
  BY DEF Next, ServerMoves, PagesMove, StationMoves, VisionMoves, serverVars,
         pageVars, stationVars, visionVars, vars, telemetryRelayVars, Server!relayVars,
         Server!server
<1>4. QED
  BY <1>2, <1>3, RelayRuns, PTL DEF Spec

\* A change of type keeps the position, a plan that agrees with the mission is
\* shown with its links, and a recording never hides the drone, for any
\* positions, objects and lengths of plans.
THEOREM NothingIsEverLost == Spec => NothingIsLost
<1>1. /\ [part = "long editor" => HurriedUi!KeepsLocation]_vars
      /\ [part = "fields" => Planner!KeepsPlace]_vars
      /\ [part = "links" => Map!ShowsAgreeingPlan]_vars
      /\ [part = "long links" => LongMap!ShowsAgreeingPlan]_vars
      /\ [part = "relay" => Server!KeepsTheDrone]_vars
      => [/\ part = "long editor" => HurriedUi!KeepsLocation
          /\ part = "fields" => Planner!KeepsPlace
          /\ part = "links" => Map!ShowsAgreeingPlan
          /\ part = "long links" => LongMap!ShowsAgreeingPlan
          /\ part = "relay" => Server!KeepsTheDrone]_vars
  OBVIOUS
<1>2. QED
  BY <1>1, EditorLosesNoPlace, FieldsLoseNoPlace, LinksLoseNoPlan,
     LongLinksLoseNoPlan, RelayLosesNoReading, PTL DEF NothingIsLost

LEMMA OrdersRun == Spec => []~(part = "orders") \/ Orders!OrdersSpec
<1>1. Init => Orders!OrdersInit
  BY DEF Init
<1>2. [Next]_vars => (part = "orders" <=> (part = "orders")')
  BY PartStays
<1>3. part = "orders" /\ [Next]_vars
      => [Orders!OrdersNext]_Orders!ordersVars
  BY DEF Next, ServerMoves, PagesMove, StationMoves, VisionMoves, serverVars,
         pageVars, stationVars, visionVars, vars, ugvOrdersVars, ugvDriveVars,
         Orders!ordersVars, Orders!driveVars, Orders!dialogVars, Orders!ugvVars
<1>4. QED
  BY <1>1, <1>2, <1>3, PTL DEF Spec, Orders!OrdersSpec

LEMMA RunRuns == Spec => []~(part = "run") \/ Planner!RunSpec
<1>1. Init => Planner!RunInit
  BY DEF Init
<1>2. [Next]_vars => (part = "run" <=> (part = "run")')
  BY PartStays
<1>3. part = "run" /\ [Next]_vars => [Planner!RunNext]_Planner!runVars
  BY DEF Next, ServerMoves, PagesMove, StationMoves, VisionMoves, serverVars,
         pageVars, stationVars, visionVars, vars, runMissionVars,
         Planner!runVars
<1>4. QED
  BY <1>1, <1>2, <1>3, PTL DEF Spec, Planner!RunSpec

LEMMA OrdersAreOnScreen ==
  Spec => [][part = "orders" => /\ Orders!SendsWhatIsOnScreen
                                /\ Orders!KeepsDisabled]_vars
<1>1. Orders!OrdersAssumption
  BY GroundAssumption
<1>2. Orders!OrdersSpec => [][Orders!SendsWhatIsOnScreen]_Orders!ordersVars
  BY <1>1, Orders!OnlyScreenIsSent, PTL DEF Orders!OnlyOrdersOnScreen
<1>3. Orders!OrdersSpec => [][Orders!KeepsDisabled]_Orders!ordersVars
  BY <1>1, Orders!DisabledStays, PTL
  DEF Orders!DisabledStaysDisabledWithoutTimer
<1>4. /\ [Next]_vars /\ [Orders!SendsWhatIsOnScreen]_Orders!ordersVars
      /\ [Orders!KeepsDisabled]_Orders!ordersVars
      => [part = "orders" => /\ Orders!SendsWhatIsOnScreen
                             /\ Orders!KeepsDisabled]_vars
  BY DEF Next, ServerMoves, PagesMove, StationMoves, VisionMoves, serverVars,
         pageVars, stationVars, visionVars, vars, ugvOrdersVars, ugvDriveVars,
         Orders!ordersVars, Orders!driveVars, Orders!dialogVars, Orders!ugvVars
<1>5. QED
  BY <1>2, <1>3, <1>4, OrdersRun, PTL DEF Spec

LEMMA MissionsAreBase64 ==
  Spec => [][part = "run" => Planner!SendsBase64]_vars
<1>1. Planner!RunMissionAssumption
  BY GroundAssumption
<1>2. Planner!RunSpec => [][Planner!SendsBase64]_Planner!runVars
  BY <1>1, Planner!MissionsAreSentInBase64, PTL DEF Planner!SentIsBase64
<1>3. [Next]_vars /\ [Planner!SendsBase64]_Planner!runVars
      => [part = "run" => Planner!SendsBase64]_vars
  BY DEF Next, ServerMoves, PagesMove, StationMoves, VisionMoves, serverVars,
         pageVars, stationVars, visionVars, vars, runMissionVars,
         Planner!runVars
<1>4. QED
  BY <1>2, <1>3, RunRuns, PTL DEF Spec

\* An order to the UGV is the one on the screen, a UGV that was disabled while
\* no drive was pending does not drive by itself, and a mission is sent in
\* base64: for any waiting time, numbers of timers and of dialogs left open,
\* bytes and length.
THEOREM OnlyTheShownIsEverSent == Spec => OnlyTheShownIsSent
<1>1. /\ [part = "orders" => /\ Orders!SendsWhatIsOnScreen
                             /\ Orders!KeepsDisabled]_vars
      /\ [part = "run" => Planner!SendsBase64]_vars
      => [/\ part = "orders" => /\ Orders!SendsWhatIsOnScreen
                                /\ Orders!KeepsDisabled
          /\ part = "run" => Planner!SendsBase64]_vars
  OBVIOUS
<1>2. QED
  BY <1>1, OrdersAreOnScreen, MissionsAreBase64, PTL DEF OnlyTheShownIsSent

-----------------------------------------------------------------------------
(* The field.                                                              *)

LEMMA FieldRuns == Spec => []~(part = "field") \/ Map!Spec
<1>1. Init => Map!Init
  BY DEF Init
<1>2. [Next]_vars => (part = "field" <=> (part = "field")')
  BY PartStays
<1>3. part = "field" /\ [Next]_vars => [Map!Next]_Map!vars
  BY DEF Next, ServerMoves, PagesMove, StationMoves, VisionMoves, serverVars,
         pageVars, stationVars, visionVars, vars, groundProgramVars, Map!vars
<1>4. QED
  BY <1>1, <1>2, <1>3, PTL DEF Spec, Map!Spec

\* The field of the drone's program is the largest zone and the one on the
\* operator's map, and a hole in what is shaded, for any zones.
THEOREM FieldIsAlwaysAsShown == Spec => []FieldAsShown
<1>1. Map!GroundProgramAssumption
  BY GroundAssumption
<1>2. Map!Spec => [](/\ Map!ShoelaceIsTheArea /\ Map!SentFieldIsShown
                     /\ Map!FieldIsAHole /\ Map!EveryZoneIsAHole
                     /\ Map!CompilesUnlessNoZone)
  BY <1>1, Map!FieldIsTheZoneShown, PTL
<1>3. ~(part = "field") => FieldAsShown
  BY DEF FieldAsShown
<1>4. /\ Map!ShoelaceIsTheArea /\ Map!SentFieldIsShown
      /\ Map!FieldIsAHole /\ Map!EveryZoneIsAHole /\ Map!CompilesUnlessNoZone
      => FieldAsShown
  BY DEF FieldAsShown
<1>5. QED
  BY <1>2, <1>3, <1>4, FieldRuns, PTL

-----------------------------------------------------------------------------
(* The plan that the browsers of the archived interface share.             *)

LEMMA PlanRuns == Spec => []~(part = "plan") \/ Plan!PlanSpec
<1>1. Init => Plan!PlanInit
  BY DEF Init
<1>2. [Next]_vars => (part = "plan" <=> (part = "plan")')
  BY PartStays
<1>3. part = "plan" /\ [Next]_vars => [Plan!PlanNext]_Plan!planVars
  BY DEF Next, ServerMoves, PagesMove, StationMoves, VisionMoves, serverVars,
         pageVars, stationVars, visionVars, vars, planSyncVars, Plan!planVars
<1>4. QED
  BY <1>1, <1>2, <1>3, PTL DEF Spec, Plan!PlanSpec

\* Browsers whose changes did not cross agree with the server, those whose
\* changes of different commands crossed with each other, and the error that
\* stands for a plan which cannot be shown is never sent.
THEOREM PlansAlwaysAgree == Spec => []PlansAgree
<1>1. Plan!PlanSyncAssumption
  BY GroundAssumption
<1>2. Plan!PlanSpec => []Plan!PlansAgree
  BY <1>1, Plan!BrowsersAgree, PTL
<1>3. Plan!PlanSpec => []Plan!EditsMerge
  BY <1>1, Plan!CrossedEditsMerge, PTL
<1>4. Plan!PlanSpec => []Plan!ErrorStaysHere
  BY <1>1, Plan!ErrorsStay, PTL
<1>5. ~(part = "plan") => PlansAgree
  BY DEF PlansAgree
<1>6. Plan!PlansAgree /\ Plan!EditsMerge /\ Plan!ErrorStaysHere => PlansAgree
  BY DEF PlansAgree
<1>7. QED
  BY <1>2, <1>3, <1>4, <1>5, <1>6, PlanRuns, PTL

-----------------------------------------------------------------------------
(* Types.                                                                  *)

\* The ground server's.
ServerTypes ==
  /\ part = "interop" => Server!InteropTypeOK
  /\ part = "upload" => Server!UploadTypeOK
  /\ part = "relay" => Server!RelayTypeOK
  /\ part = "drive" => Server!DriveTypeOK
  /\ part = "orders" => Orders!OrdersTypeOK

LEMMA ServerTypesHold == Spec => []ServerTypes
<1>1. Spec => [](part = "interop" => Server!InteropTypeOK)
  BY GroundAssumption, Server!InteropTypeCorrect, InteropRuns, PTL
<1>2. Spec => [](part = "upload" => Server!UploadTypeOK)
  BY GroundAssumption, Server!UploadTypeCorrect, UploadRuns, PTL
<1>3. Spec => [](part = "relay" => Server!RelayTypeOK)
  BY GroundAssumption, Server!RelayTypeCorrect, RelayRuns, PTL
<1>4. Spec => [](part = "drive" => Server!DriveTypeOK)
  BY GroundAssumption, Server!DriveTypeCorrect, DriveRuns, PTL
<1>5. Spec => [](part = "orders" => Orders!OrdersTypeOK)
  BY GroundAssumption, Orders!OrdersTypeCorrect, OrdersRun, PTL
<1>6. /\ part = "interop" => Server!InteropTypeOK
      /\ part = "upload" => Server!UploadTypeOK
      /\ part = "relay" => Server!RelayTypeOK
      /\ part = "drive" => Server!DriveTypeOK
      /\ part = "orders" => Orders!OrdersTypeOK
      => ServerTypes
  BY DEF ServerTypes
<1>7. QED
  BY <1>1, <1>2, <1>3, <1>4, <1>5, <1>6, PTL

\* The pages', of the archived interface too.
PageTypes ==
  /\ part = "view" => HurriedUi!ViewTypeOK
  /\ part = "careful view" => Ui!ViewTypeOK
  /\ part = "connection" => Ui!ConnectionTypeOK
  /\ part = "editor" => Ui!EditorTypeOK
  /\ part = "long editor" => HurriedUi!EditorTypeOK
  /\ part = "tagging" => Ui!TaggingTypeOK
  /\ part = "app" => Ui!ArchiveTypeOK

LEMMA PageTypesHold == Spec => []PageTypes
<1>1. Spec => [](part = "view" => HurriedUi!ViewTypeOK)
  BY GroundAssumption, HurriedUi!ViewTypeCorrect, ViewRuns, PTL
<1>2. Spec => [](part = "careful view" => Ui!ViewTypeOK)
  BY GroundAssumption, Ui!ViewTypeCorrect, CarefulViewRuns, PTL
<1>3. Spec => [](part = "connection" => Ui!ConnectionTypeOK)
  BY GroundAssumption, Ui!ConnectionTypeCorrect, ConnectionRuns, PTL
<1>4. Spec => [](part = "editor" => Ui!EditorTypeOK)
  BY GroundAssumption, Ui!EditorTypeCorrect, EditorRuns, PTL
<1>5. Spec => [](part = "long editor" => HurriedUi!EditorTypeOK)
  BY GroundAssumption, HurriedUi!EditorTypeCorrect, LongEditorRuns, PTL
<1>6. Spec => [](part = "tagging" => Ui!TaggingTypeOK)
  BY GroundAssumption, Ui!TaggingTypeCorrect, TaggingRuns, PTL
<1>7. Spec => [](part = "app" => Ui!ArchiveTypeOK)
  BY GroundAssumption, Ui!ArchiveTypeCorrect, AppRuns, PTL
<1>8. /\ part = "view" => HurriedUi!ViewTypeOK
      /\ part = "careful view" => Ui!ViewTypeOK
      /\ part = "connection" => Ui!ConnectionTypeOK
      /\ part = "editor" => Ui!EditorTypeOK
      /\ part = "long editor" => HurriedUi!EditorTypeOK
      /\ part = "tagging" => Ui!TaggingTypeOK
      /\ part = "app" => Ui!ArchiveTypeOK
      => PageTypes
  BY DEF PageTypes
<1>9. QED
  BY <1>1, <1>2, <1>3, <1>4, <1>5, <1>6, <1>7, <1>8, PTL

\* The archived interface's plan and map.
StationTypes ==
  /\ part = "plan" => Plan!PlanTypeOK
  /\ part = "range" => HurriedPlanner!RangeTypeOK
  /\ part = "careful range" => Planner!RangeTypeOK
  /\ part = "links" => Map!LinksTypeOK
  /\ part = "long links" => LongMap!LinksTypeOK
  /\ part = "path" => Map!PathTypeOK
  /\ part = "map" => Map!DroneOnMapTypeOK

LEMMA StationTypesHold == Spec => []StationTypes
<1>1. Spec => [](part = "plan" => Plan!PlanTypeOK)
  BY GroundAssumption, Plan!PlansAreTyped, PlanRuns, PTL
<1>2. Spec => [](part = "range" => HurriedPlanner!RangeTypeOK)
  BY GroundAssumption, HurriedPlanner!RangeTypeCorrect, RangeRuns, PTL
<1>3. Spec => [](part = "careful range" => Planner!RangeTypeOK)
  BY GroundAssumption, Planner!RangeTypeCorrect, CarefulRangeRuns, PTL
<1>4. Spec => [](part = "links" => Map!LinksTypeOK)
  BY GroundAssumption, Map!LinksTypeCorrect, LinksRuns, PTL
<1>5. Spec => [](part = "long links" => LongMap!LinksTypeOK)
  BY GroundAssumption, LongMap!LinksTypeCorrect, LongLinksRuns, PTL
<1>6. Spec => [](part = "path" => Map!PathTypeOK)
  BY GroundAssumption, Map!PathTypeCorrect, PathRuns, PTL
<1>7. Spec => [](part = "map" => Map!DroneOnMapTypeOK)
  BY GroundAssumption, Map!DroneOnMapTypeCorrect, MapRuns, PTL
<1>8. /\ part = "plan" => Plan!PlanTypeOK
      /\ part = "range" => HurriedPlanner!RangeTypeOK
      /\ part = "careful range" => Planner!RangeTypeOK
      /\ part = "links" => Map!LinksTypeOK
      /\ part = "long links" => LongMap!LinksTypeOK
      /\ part = "path" => Map!PathTypeOK
      /\ part = "map" => Map!DroneOnMapTypeOK
      => StationTypes
  BY DEF StationTypes
<1>9. QED
  BY <1>1, <1>2, <1>3, <1>4, <1>5, <1>6, <1>7, <1>8, PTL

\* The vision server's.
VisionTypes ==
  /\ part = "vision" => Vision!AuctionsTypeOK
  /\ part = "records" => Vision!RecordsTypeOK

LEMMA VisionTypesHold == Spec => []VisionTypes
<1>1. Spec => [](part = "vision" => Vision!AuctionsTypeOK)
  BY GroundAssumption, Vision!AuctionsTypeCorrect, VisionRuns, PTL
<1>2. Spec => [](part = "records" => Vision!RecordsTypeOK)
  BY GroundAssumption, Vision!RecordsTypeCorrect, RecordsRun, PTL
<1>3. /\ part = "vision" => Vision!AuctionsTypeOK
      /\ part = "records" => Vision!RecordsTypeOK
      => VisionTypes
  BY DEF VisionTypes
<1>4. QED
  BY <1>1, <1>2, <1>3, PTL

\* Every component's variables have their types, whichever of them moves, for
\* any bounds of each.
THEOREM GroundAlwaysTyped == Spec => []GroundTypeOK
<1>1. ServerTypes /\ PageTypes /\ StationTypes /\ VisionTypes => GroundTypeOK
  BY DEF ServerTypes, PageTypes, StationTypes, VisionTypes, GroundTypeOK
<1>2. QED
  BY <1>1, ServerTypesHold, PageTypesHold, StationTypesHold, VisionTypesHold,
     PTL
=============================================================================
