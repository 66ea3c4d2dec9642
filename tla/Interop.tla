------------------------------ MODULE Interop ------------------------------
(***************************************************************************)
(* The ground server's connection to the judges' interoperability server:  *)
(* connectToInterop and the upload of images in ground_server.js, the      *)
(* client with its upload interval in src/interop_client.js, and what a UI *)
(* learns of the connection.                                               *)
(*                                                                         *)
(* Every call of connectToInterop is an attempt, numbered from 1.  An      *)
(* attempt that logs in creates a client, which has the attempt's number;  *)
(* a mission has the number of the attempt that fetched it.  Answers come  *)
(* in any order.  A message to a UI is handled in the step that emits it,  *)
(* and lost when the UI is not connected.                                  *)
(***************************************************************************)
EXTENDS Naturals

CONSTANTS
  MaxAttempts,   \* bound on the calls of connectToInterop
  MaxPosts       \* posts a client may have unanswered: timeout / sendInterval

InteropAssumption ==
  /\ MaxAttempts \in Nat
  /\ MaxPosts \in Nat \ {0}

Attempts == 1 .. MaxAttempts
None     == 0

VARIABLES
  made,                \* attempts made so far
  stage,               \* what each attempt waits for
  interopClient, interopData,
  interopTelemetry, intervalHandle, telemetryCanUpload, posts, \* per client
  submission,          \* the image that is being submitted
  ui_connected,        \* the UI's socket is connected
  ui_data,             \* the UI's interopData
  overlapped           \* an attempt began while another one was pending
                       \* (history)

clientVars  == <<interopTelemetry, intervalHandle, telemetryCanUpload, posts>>
uiVars      == <<ui_connected, ui_data>>
interopVars == <<made, stage, interopClient, interopData, clientVars,
                 submission, uiVars, overlapped>>

\* No image is being submitted.
NoSubmission ==
  [step |-> "none", details |-> None, image |-> None, quiet |-> FALSE]

\* What every client's field holds before the client exists, and after its
\* server was restarted.
NewClients(value) == [k \in Attempts |-> value]

InteropInit ==
  /\ made = 0
  /\ stage = [k \in Attempts |-> "idle"]
  /\ interopClient = None /\ interopData = None
  /\ interopTelemetry = NewClients("none")
  /\ intervalHandle = NewClients(FALSE)
  /\ telemetryCanUpload = NewClients(TRUE)
  /\ posts = NewClients(0)
  /\ submission = NoSubmission
  /\ ui_connected = FALSE /\ ui_data = None
  /\ overlapped = FALSE

Unanswered(k) == stage[k] \in {"login", "mission"}
Settled    == \A k \in Attempts : ~Unanswered(k)

-----------------------------------------------------------------------------
(* connectToInterop.                                                       *)

\* ui_io.emit('INTEROP_DATA', interopData)
EmitInteropData(data) ==
  /\ ui_data' = IF ui_connected THEN data ELSE ui_data
  /\ UNCHANGED ui_connected

ConnectToInterop ==
  /\ made < MaxAttempts
  /\ made' = made + 1
  /\ interopClient' = None
  /\ stage' = [stage EXCEPT ![made + 1] = "login"]
  /\ overlapped' = (overlapped \/ ~Settled)
  /\ submission' = [submission EXCEPT !.quiet = FALSE]
  /\ UNCHANGED <<interopData, clientVars, uiVars>>

LoginSucceeds(k) ==
  /\ stage[k] = "login"
  /\ interopClient' = k
  /\ stage' = [stage EXCEPT ![k] = "mission"]
  /\ UNCHANGED <<made, interopData, clientVars, submission, uiVars, overlapped>>

\* Mutant of LoginFails: the mission of the replaced client stays.
LoginFailsKeeping(k) ==
  /\ stage[k] = "login"
  /\ EmitInteropData(interopData)
  /\ stage' = [stage EXCEPT ![k] = "over"]
  /\ UNCHANGED <<made, interopClient, interopData, clientVars, submission,
                 overlapped>>

LoginFails(k) ==
  /\ stage[k] = "login"
  /\ interopData' = None
  /\ EmitInteropData(None)
  /\ stage' = [stage EXCEPT ![k] = "over"]
  /\ UNCHANGED <<made, interopClient, clientVars, submission, overlapped>>

\* getMission is answered.
MissionRetrieved(k, data) ==
  /\ stage[k] = "mission"
  /\ data \in {k, None}
  /\ interopData' = data
  /\ EmitInteropData(data)
  /\ stage' = [stage EXCEPT ![k] = "over"]
  /\ UNCHANGED <<made, interopClient, clientVars, submission, overlapped>>

-----------------------------------------------------------------------------
(* InteropClient: telemetry.                                               *)

\* Sensors arrive from the drone.
NewTelemetry ==
  /\ interopClient # None
  /\ interopTelemetry' = [interopTelemetry EXCEPT ![interopClient] = "new"]
  /\ intervalHandle' = [intervalHandle EXCEPT ![interopClient] = TRUE]
  /\ UNCHANGED <<made, stage, interopClient, interopData, telemetryCanUpload,
                 posts, submission, uiVars, overlapped>>

\* Mutant of UploadTick: the interval is never cleared.
UploadTickForever(k) ==
  /\ intervalHandle[k]
  /\ interopTelemetry[k] = "new" /\ posts[k] < MaxPosts
  /\ posts' = [posts EXCEPT ![k] = posts[k] + 1]
  /\ interopTelemetry' = [interopTelemetry EXCEPT ![k] = "sent"]
  /\ UNCHANGED <<made, stage, interopClient, interopData, intervalHandle,
                 telemetryCanUpload, submission, uiVars, overlapped>>

\* The interval of setUploadInterval fires.
UploadTick(k) ==
  /\ intervalHandle[k]
  /\ \/ /\ interopTelemetry[k] = "new" /\ posts[k] < MaxPosts
        /\ posts' = [posts EXCEPT ![k] = posts[k] + 1]
        /\ interopTelemetry' = [interopTelemetry EXCEPT ![k] = "sent"]
        /\ UNCHANGED intervalHandle
     \/ /\ interopTelemetry[k] = "sent"
        /\ interopTelemetry' = [interopTelemetry EXCEPT ![k] = "none"]
        /\ intervalHandle' = [intervalHandle EXCEPT ![k] = FALSE]
        /\ UNCHANGED posts
  /\ UNCHANGED <<made, stage, interopClient, interopData, telemetryCanUpload,
                 submission, uiVars, overlapped>>

\* A post is answered, fails or times out.
TelemetryPosted(k, ok) ==
  /\ posts[k] > 0
  /\ posts' = [posts EXCEPT ![k] = posts[k] - 1]
  /\ telemetryCanUpload' = [telemetryCanUpload EXCEPT ![k] = ok]
  /\ UNCHANGED <<made, stage, interopClient, interopData, interopTelemetry,
                 intervalHandle, submission, uiVars, overlapped>>

-----------------------------------------------------------------------------
(* UPLOAD_IMAGE: the object's details first, then its image.               *)

UploadImage ==
  /\ submission.step = "none"
  /\ ui_connected
  /\ interopClient # None /\ interopData # None
  /\ submission' =
       [step |-> "details", details |-> interopClient, image |-> None,
        quiet |-> \A k \in Attempts : stage[k] # "login"]
  /\ UNCHANGED <<made, stage, interopClient, interopData, clientVars, uiVars,
                 overlapped>>

\* postObjectDetails succeeds; the image goes to the client of this moment.
DetailsPosted ==
  /\ submission.step = "details"
  /\ submission' = IF interopClient = None THEN NoSubmission
                   ELSE [submission EXCEPT !.step = "image",
                                           !.image = interopClient]
  /\ UNCHANGED <<made, stage, interopClient, interopData, clientVars, uiVars,
                 overlapped>>

\* postObjectDetails fails, or postObjectImage is answered or fails.
SubmissionEnds ==
  /\ submission.step # "none"
  /\ submission' = NoSubmission
  /\ UNCHANGED <<made, stage, interopClient, interopData, clientVars, uiVars,
                 overlapped>>

-----------------------------------------------------------------------------
(* The UI's socket, and the server's process.                              *)

UiConnects ==
  /\ ~ui_connected
  /\ ui_connected' = TRUE
  /\ ui_data' = IF interopData # None THEN interopData ELSE ui_data
  /\ UNCHANGED <<made, stage, interopClient, interopData, clientVars,
                 submission, overlapped>>

UiDisconnects ==
  /\ ui_connected
  /\ ui_connected' = FALSE
  /\ UNCHANGED <<made, stage, interopClient, interopData, clientVars,
                 submission, ui_data, overlapped>>

\* The UI's store is reset.
ResetReduxState ==
  /\ ui_data # None
  /\ ui_data' = None
  /\ UNCHANGED <<made, stage, interopClient, interopData, clientVars,
                 submission, ui_connected, overlapped>>

ServerRestarts ==
  /\ stage' = [k \in Attempts |-> IF Unanswered(k) THEN "over" ELSE stage[k]]
  /\ interopClient' = None /\ interopData' = None
  /\ interopTelemetry' = NewClients("none")
  /\ intervalHandle' = NewClients(FALSE)
  /\ telemetryCanUpload' = NewClients(TRUE)
  /\ posts' = NewClients(0)
  /\ submission' = NoSubmission
  /\ ui_connected' = FALSE
  /\ UNCHANGED <<made, ui_data, overlapped>>

-----------------------------------------------------------------------------

AttemptAnswered ==
  \E k \in Attempts :
    \/ LoginSucceeds(k) \/ LoginFails(k)
    \/ \E data \in {k, None} : MissionRetrieved(k, data)

ClientNext ==
  \E k \in Attempts :
    UploadTick(k) \/ \E ok \in BOOLEAN : TelemetryPosted(k, ok)

InteropNext ==
  \/ ConnectToInterop \/ AttemptAnswered
  \/ NewTelemetry \/ ClientNext
  \/ UploadImage \/ DetailsPosted \/ SubmissionEnds
  \/ UiConnects \/ UiDisconnects \/ ResetReduxState
  \/ ServerRestarts

InteropSpec == InteropInit /\ [][InteropNext]_interopVars

-----------------------------------------------------------------------------

\* Types; no client has more posts unanswered than its time for them allows.
InteropTypeOK ==
  /\ made \in 0 .. MaxAttempts
  /\ stage \in [Attempts -> {"idle", "login", "mission", "over"}]
  /\ {interopClient, interopData, ui_data} \subseteq 0 .. made
  /\ interopTelemetry \in [Attempts -> {"none", "new", "sent"}]
  /\ intervalHandle \in [Attempts -> BOOLEAN]
  /\ telemetryCanUpload \in [Attempts -> BOOLEAN]
  /\ posts \in [Attempts -> 0 .. MaxPosts]
  /\ submission \in [step : {"none", "details", "image"}, details : 0 .. made,
                     image : 0 .. made, quiet : BOOLEAN]
  /\ {ui_connected, overlapped} \subseteq BOOLEAN

\* A client has an interval exactly while it has telemetry: none is left
\* without an interval to post it, and no interval runs for nothing.
IntervalRunsForTelemetry ==
  \A k \in Attempts : intervalHandle[k] <=> interopTelemetry[k] # "none"

\* When no two attempts overlapped and none is pending, the mission that the
\* server compiles with is the one of the client it uploads to.
MissionOfClient ==
  Settled /\ ~overlapped => interopData \in {None, interopClient}

\* A connected UI shows the mission that the server compiles with, or nothing
\* after a reset, and never another one while the server has one.
UiShowsServersMission ==
  ui_connected /\ interopData # None => ui_data \in {None, interopData}

\* An image goes to the server that holds its object, unless a login was
\* pending, or a connection was asked for, since the object was posted.
ImageFollowsObject ==
  submission.step = "image" /\ submission.quiet
    => submission.image = submission.details

\* New telemetry is posted, or its server process ends.
TelemetryIsPosted ==
  \A k \in Attempts : interopTelemetry[k] = "new" ~> interopTelemetry[k] # "new"

\* A client that was replaced stops posting.
ReplacedClientStops ==
  \A k \in Attempts :
    interopClient # k ~> (interopClient = k \/ ~intervalHandle[k])
=============================================================================
