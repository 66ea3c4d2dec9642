---------------------------- MODULE MCGroundLive -----------------------------
(***************************************************************************)
(* The components of the ground station that owe an answer, as in MCGround *)
(* one at a time: a post to interop, the answer to an order, the end of a  *)
(* playback, the orders a socket kept, a button's text, and an image to a  *)
(* client that bid for it.                                                 *)
(*                                                                         *)
(* Fairness is of the component that moves: a conjunct names its part.     *)
(* Nothing of a client to interop depends on the images or on a UI: their  *)
(* steps are left to MCGround.                                             *)
(***************************************************************************)
EXTENDS Naturals, Sequences, FiniteSets

CONSTANTS Browsers, Absent

VARIABLES
  part,   \* the component that moves
  \* Interop
  made, stage, interopClient, interopData, interopTelemetry,
  intervalHandle, telemetryCanUpload, posts, submission, ui_connected,
  ui_data, overlapped,
  \* MissionUpload
  storeCommands, missionCompiled, missionUploaded, droneProgram,
  storeModal, uiConnected, outbox, inbox, fieldKnown, drone_program,
  topic, echo, storeEdits, orders, published, authors, orderly,
  \* TelemetryView
  droneTelemetry, playback, recording, telemetryData, usingLoaded,
  isPaused, file, readers, replays, viewPage, received,
  \* UiConnection
  gndServerIp, connectedGndServerIp, gndServerConnected, socketIp,
  connected, sendBuffer, wire, closing, given, shownFor, executed,
  resetSince,
  \* ArchiveApp
  judges, station, refresh, connect, broadcast, toUi, ui,
  \* VisionAuctions
  task_queue, asked, announcing, active_auctions, bids, due,
  taken_auctions, running, toClient, bidsToServer, work_queue, begun

-----------------------------------------------------------------------------
Judges == INSTANCE Interop WITH
  MaxAttempts <- 2, MaxPosts <- 1

Upload == INSTANCE MissionUpload WITH
  Uis <- Browsers, Fields <- {FALSE}, MaxEdits <- 1, MaxOrders <- 2,
  MaxQueue <- 1, commands <- storeCommands, modal <- storeModal,
  connected <- uiConnected, edits <- storeEdits

View == INSTANCE TelemetryView WITH
  FileLength <- 2, MaxRecorded <- 2, MaxReplays <- 1, Patient <- TRUE,
  page <- viewPage

Connection == INSTANCE UiConnection WITH
  Servers <- {"localhost:8081", "192.168.1.10:8081"},
  Default <- "localhost:8081", MaxOrders <- 1

App == INSTANCE ArchiveApp WITH
  Missions <- {}, Empty <- Absent, MaxMessages <- 1, MaxTimers <- 1,
  Apart <- FALSE, interop <- judges

Vision == INSTANCE VisionAuctions WITH
  Clients <- {1}, MaxAuctions <- 3, MaxRecords <- 0, toServer <- bidsToServer

-----------------------------------------------------------------------------
\* Each component's assumption about its constants.
ASSUME GroundLiveAssumption ==
  /\ Judges!InteropAssumption
  /\ Upload!UploadAssumption
  /\ View!ViewAssumption
  /\ Connection!ConnectionAssumption
  /\ App!ArchiveAssumption
  /\ Vision!AuctionsAssumption

Parts ==
  {"interop", "upload", "view", "connection", "app", "vision"}

\* The variables of each component.
interopVars == <<made, stage, interopClient, interopData, interopTelemetry,
  intervalHandle, telemetryCanUpload, posts, submission, ui_connected,
  ui_data, overlapped>>
missionUploadVars == <<storeCommands, missionCompiled, missionUploaded,
  droneProgram, storeModal, uiConnected, outbox, inbox, fieldKnown,
  drone_program, topic, echo, storeEdits, orders, published, authors,
  orderly>>
telemetryViewVars == <<droneTelemetry, playback, recording, telemetryData,
  usingLoaded, isPaused, file, readers, replays, viewPage, received>>
uiConnectionVars == <<gndServerIp, connectedGndServerIp,
  gndServerConnected, socketIp, connected, sendBuffer, wire, closing,
  given, shownFor, executed, resetSince>>
archiveAppVars == <<judges, station, refresh, connect, broadcast, toUi, ui>>
visionAuctionsVars == <<task_queue, asked, announcing, active_auctions,
  bids, due, taken_auctions, running, toClient, bidsToServer, work_queue,
  begun>>

Init ==
  /\ part \in Parts
  /\ Judges!InteropInit
  /\ Upload!UploadInit
  /\ View!ViewInit
  /\ Connection!Init
  /\ App!ArchiveInit
  /\ Vision!AuctionsInit
  /\ part # "app" => judges = [missions |-> Absent, up |-> FALSE]

\* The others stay as they are.
OthersUnchanged ==
  /\ UNCHANGED part
  /\ part # "interop" => UNCHANGED interopVars
  /\ part # "upload" => UNCHANGED missionUploadVars
  /\ part # "view" => UNCHANGED telemetryViewVars
  /\ part # "connection" => UNCHANGED uiConnectionVars
  /\ part # "app" => UNCHANGED archiveAppVars
  /\ part # "vision" => UNCHANGED visionAuctionsVars

\* The connections to interop and what their clients do.
ClientsNext ==
  \/ Judges!ConnectToInterop \/ Judges!AttemptAnswered
  \/ Judges!NewTelemetry \/ Judges!ClientNext
  \/ Judges!ServerRestarts

vars == <<part, interopVars, missionUploadVars, telemetryViewVars,
          uiConnectionVars, archiveAppVars, visionAuctionsVars>>

Next ==
  \/ part = "interop" /\ ClientsNext /\ OthersUnchanged
  \/ part = "upload" /\ Upload!UploadNext /\ OthersUnchanged
  \/ part = "view" /\ View!ViewNext /\ OthersUnchanged
  \/ part = "connection" /\ Connection!Next /\ OthersUnchanged
  \/ part = "app" /\ App!ArchiveNext /\ OthersUnchanged
  \/ part = "vision" /\ Vision!AuctionsNext /\ OthersUnchanged
  \/ part = "vision" /\ Vision!Quiet /\ UNCHANGED vars

Spec == Init /\ [][Next]_vars

-----------------------------------------------------------------------------
\* Intervals keep firing, and every post is answered or times out.
JudgesFairness ==
  \A k \in Judges!Attempts :
    /\ WF_vars(/\ part = "interop" /\ Judges!UploadTick(k)
               /\ OthersUnchanged)
    /\ WF_vars(/\ part = "interop"
               /\ \E ok \in BOOLEAN : Judges!TelemetryPosted(k, ok)
               /\ OthersUnchanged)

\* Sockets reconnect, and every process handles what it is sent.
UploadFairness ==
  /\ WF_vars(part = "upload" /\ Upload!DroneProgramReceived /\ OthersUnchanged)
  /\ WF_vars(part = "upload" /\ Upload!FlightLoopReceives /\ OthersUnchanged)
  /\ \A u \in Browsers :
       /\ WF_vars(part = "upload" /\ Upload!Connect(u) /\ OthersUnchanged)
       /\ WF_vars(/\ part = "upload" /\ (Upload!Compile(u) \/ Upload!Upload(u))
                  /\ OthersUnchanged)
       /\ WF_vars(/\ part = "upload"
                  /\ (Upload!Compiled(u) \/ Upload!Uploaded(u))
                  /\ OthersUnchanged)

\* The browser ends every read and runs every timer, and the server goes on to
\* send telemetry.
ViewFairness ==
  /\ WF_vars(part = "view" /\ View!FileRead /\ OthersUnchanged)
  /\ WF_vars(part = "view" /\ View!Replays /\ OthersUnchanged)
  /\ WF_vars(/\ part = "view"
             /\ \E live \in View!Live : View!ReceiveTelemetry(live)
             /\ OthersUnchanged)

\* A socket tries again until it connects.
ConnectionFairness ==
  WF_vars(part = "connection" /\ Connection!SocketConnects /\ OthersUnchanged)

\* The station's threads go on.  Fairness is strong where the bound on a
\* channel, which the code has not, may stand in the way.
AppFairness ==
  /\ WF_vars(part = "app" /\ App!RefreshAsks /\ OthersUnchanged)
  /\ SF_vars(part = "app" /\ App!RefreshAnswered /\ OthersUnchanged)
  /\ SF_vars(part = "app" /\ App!ConnectToInterop /\ OthersUnchanged)
  /\ SF_vars(part = "app" /\ App!ConnectAnswered /\ OthersUnchanged)
  /\ SF_vars(part = "app" /\ App!Broadcast /\ OthersUnchanged)
  /\ WF_vars(part = "app" /\ App!Receive /\ OthersUnchanged)
  /\ WF_vars(part = "app" /\ App!TimerFires /\ OthersUnchanged)

\* The worker of the vision server goes on, and so does the time.  This is weak
\* fairness with its ENABLED written out, which TLC is slow to find.
VisionFairness ==
  /\ \/ []<>~(part = "vision" /\ Vision!WorkerReady)
     \/ []<><<part = "vision" /\ Vision!WorkerNext>>_vars
  /\ \A n \in Vision!Auctions :
       \/ []<>~(part = "vision" /\ n \in active_auctions \ due)
       \/ []<><<n \in due' \ due>>_vars

FairSpec ==
  /\ Spec
  /\ JudgesFairness /\ UploadFairness /\ ViewFairness /\ ConnectionFairness
  /\ AppFairness /\ VisionFairness

-----------------------------------------------------------------------------
\* New telemetry is posted to interop, and a client that was replaced stops
\* posting.
InteropIsServed == Judges!TelemetryIsPosted /\ Judges!ReplacedClientStops

\* What an operator asked for is answered, or lost with a connection; what was
\* given without one is sent at the next or dropped; and an image that a client
\* bid for is given to a client, unless more than three tasks wait.
OrdersAreSettled ==
  Upload!OrdersAreSettled /\ Connection!KeptOrdersLeave /\ Vision!BiddersWin

\* What is shown becomes true again: a playback ends unless it is paused, and
\* while interop stays connected the button says so again and again.
ShownAgain == View!PlaybackEnds /\ App!ConnectedIsShown
=============================================================================
