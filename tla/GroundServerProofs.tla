------------------------- MODULE GroundServerProofs -------------------------
(***************************************************************************)
(* Proofs about five parts of the ground server that share no state: the   *)
(* connection to interop, for any number of attempts and of posts that a   *)
(* client may have unanswered, and any order of answers; the timers that   *)
(* drive the UGV, for every waiting time and every sequence of             *)
(* confirmations; the orders that a dialog sends it, whatever was left     *)
(* open; what the button panel is told, for any readings; and the missions *)
(* on their way from the UIs through the server to the drone, for any      *)
(* number of UIs, edits and dialogs and any length of the queues.          *)
(***************************************************************************)
EXTENDS Interop, UgvOrders, TelemetryRelay, MissionUpload, FiniteSetTheorems,
        SequenceTheorems, TLAPS

-----------------------------------------------------------------------------
(* The connection to interop.                                              *)

\* While attempts have not overlapped, only the newest one can be pending; it
\* has no client before it logged in, and is the client from then on.
OnlyTheNewestAttempt ==
  ~overlapped =>
    \A k \in Attempts :
      /\ Unanswered(k) => k = made
      /\ stage[k] = "login" => interopClient = None
      /\ stage[k] = "mission" => interopClient = k

\* An object is posted to the server's client, and while no other one can log
\* in that is the client its image will go to.
QuietSubmission ==
  submission.step # "none" /\ submission.quiet =>
    /\ \A k \in Attempts : stage[k] # "login"
    /\ submission.step = "details" => interopClient = submission.details
    /\ submission.step = "image" => submission.image = submission.details

\* Attempts that were not made are idle.
OnlyTheMade == \A k \in Attempts : stage[k] # "idle" => k <= made

\* The inductive invariant.
InteropInv ==
  /\ InteropTypeOK
  /\ OnlyTheMade
  /\ IntervalRunsForTelemetry
  /\ OnlyTheNewestAttempt
  /\ MissionOfClient
  /\ UiShowsServersMission
  /\ QuietSubmission


-----------------------------------------------------------------------------
(* Types.                                                                  *)

\* The types of connections, of clients and of submissions.
ConnectionTypes ==
  /\ made \in 0 .. MaxAttempts
  /\ stage \in [Attempts -> {"idle", "login", "mission", "over"}]
  /\ interopClient \in 0 .. made /\ interopData \in 0 .. made
  /\ ui_data \in 0 .. made
  /\ ui_connected \in BOOLEAN /\ overlapped \in BOOLEAN
ClientTypes ==
  /\ interopTelemetry \in [Attempts -> {"none", "new", "sent"}]
  /\ intervalHandle \in [Attempts -> BOOLEAN]
  /\ telemetryCanUpload \in [Attempts -> BOOLEAN]
  /\ posts \in [Attempts -> 0 .. MaxPosts]
SubmissionTypes(most) ==
  submission \in [step : {"none", "details", "image"}, details : 0 .. most,
                  image : 0 .. most, quiet : BOOLEAN]

LEMMA TypesByPart ==
  InteropTypeOK <=> ConnectionTypes /\ ClientTypes /\ SubmissionTypes(made)
  BY DEF InteropTypeOK, ConnectionTypes, ClientTypes, SubmissionTypes

LEMMA ConnectionTypesKept ==
  ASSUME InteropInv, InteropAssumption, InteropNext
  PROVE  ConnectionTypes' /\ OnlyTheMade' /\ made <= made'
<1>1. ConnectionTypes /\ OnlyTheMade /\ MaxAttempts \in Nat /\ made \in Nat
  BY TypesByPart DEF InteropInv, InteropAssumption, ConnectionTypes
<1> USE DEF ConnectionTypes, OnlyTheMade, None
<1>2. CASE ConnectToInterop
  <2>1. /\ made' = made + 1 /\ made < MaxAttempts
        /\ stage' = [stage EXCEPT ![made + 1] = "login"]
        /\ interopClient' = 0
        /\ UNCHANGED <<interopData, ui_data, ui_connected>>
        /\ overlapped' \in BOOLEAN
    BY <1>1, <1>2 DEF ConnectToInterop, uiVars
  <2>2. made' \in 0 .. MaxAttempts /\ made <= made'
    BY <1>1, <2>1
  <2>3. stage' \in [Attempts -> {"idle", "login", "mission", "over"}]
    BY <1>1, <2>1
  <2>4. interopClient' \in 0 .. made'
    BY <1>1, <2>1
  <2>5. interopData' \in 0 .. made' /\ ui_data' \in 0 .. made'
    BY <1>1, <2>1
  <2>6. \A k \in Attempts : stage'[k] # "idle" => k <= made'
    BY <1>1, <2>1 DEF Attempts
  <2> QED
    BY <1>1, <2>1, <2>2, <2>3, <2>4, <2>5, <2>6
<1>3. CASE AttemptAnswered
  <2>1. PICK k \in Attempts :
          \/ LoginSucceeds(k) \/ LoginFails(k)
          \/ \E data \in {k, None} : MissionRetrieved(k, data)
    BY <1>3 DEF AttemptAnswered
  <2>2. stage[k] # "idle" /\ made' = made /\ overlapped' = overlapped
    BY <2>1 DEF LoginSucceeds, LoginFails, MissionRetrieved
  <2>3. k \in 0 .. made /\ 0 \in 0 .. made
    BY <1>1, <2>1, <2>2 DEF Attempts
  <2>4. \E new \in {"mission", "over"} : stage' = [stage EXCEPT ![k] = new]
    BY <2>1 DEF LoginSucceeds, LoginFails, MissionRetrieved
  <2>5. /\ interopClient' \in {interopClient, k}
        /\ interopData' \in {interopData, k, 0}
        /\ ui_data' \in {ui_data, k, 0}
        /\ ui_connected' = ui_connected
    BY <2>1
    DEF LoginSucceeds, LoginFails, MissionRetrieved, EmitInteropData, uiVars
  <2> QED
    BY <1>1, <2>2, <2>3, <2>4, <2>5
<1>4. CASE UiConnects \/ UiDisconnects \/ ResetReduxState
  <2>1. /\ UNCHANGED <<made, stage, interopClient, interopData, overlapped>>
        /\ ui_data' \in {ui_data, interopData, 0}
        /\ ui_connected' \in BOOLEAN
    BY <1>1, <1>4 DEF UiConnects, UiDisconnects, ResetReduxState
  <2>2. ui_data' \in 0 .. made
    BY <1>1, <2>1
  <2> QED
    BY <1>1, <2>1, <2>2
<1>5. CASE ServerRestarts
  <2>1. /\ UNCHANGED <<made, ui_data, overlapped>>
        /\ interopClient' = 0 /\ interopData' = 0 /\ ui_connected' = FALSE
        /\ stage' = [k \in Attempts |->
                        IF Unanswered(k) THEN "over" ELSE stage[k]]
    BY <1>5 DEF ServerRestarts
  <2>2. stage' \in [Attempts -> {"idle", "login", "mission", "over"}]
    BY <1>1, <2>1 DEF Unanswered
  <2>3. \A k \in Attempts : stage'[k] # "idle" => stage[k] # "idle"
    BY <2>1 DEF Unanswered
  <2>4. interopClient' \in 0 .. made' /\ interopData' \in 0 .. made'
    BY <1>1, <2>1
  <2>5. ConnectionTypes'
    BY <1>1, <2>1, <2>2, <2>4
  <2>6. OnlyTheMade'
    BY <1>1, <2>1, <2>3
  <2> QED
    BY <1>1, <2>1, <2>5, <2>6
<1>6. CASE UNCHANGED <<made, stage, interopClient, interopData, uiVars,
                       overlapped>>
  BY <1>1, <1>6 DEF uiVars
<1> QED
  BY <1>2, <1>3, <1>4, <1>5, <1>6
  DEF InteropNext, NewTelemetry, ClientNext, UploadTick, TelemetryPosted,
      UploadImage, DetailsPosted, SubmissionEnds

LEMMA ClientTypesKept ==
  ASSUME InteropInv, InteropAssumption, InteropNext
  PROVE  ClientTypes'
<1>1. ClientTypes /\ MaxPosts \in Nat
  BY TypesByPart DEF InteropInv, InteropAssumption
<1> USE DEF ClientTypes
<1>2. CASE NewTelemetry
  BY <1>1, <1>2 DEF NewTelemetry
<1>3. CASE ClientNext
  <2>1. PICK k \in Attempts :
          UploadTick(k) \/ \E ok \in BOOLEAN : TelemetryPosted(k, ok)
    BY <1>3 DEF ClientNext
  <2>2. posts[k] \in 0 .. MaxPosts
    BY <1>1, <2>1
  <2>3. CASE UploadTick(k)
    <3>1. posts' = posts \/ (/\ posts[k] + 1 \in 0 .. MaxPosts
                             /\ posts' = [posts EXCEPT ![k] = posts[k] + 1])
      BY <1>1, <2>2, <2>3 DEF UploadTick
    <3>2. posts' \in [Attempts -> 0 .. MaxPosts]
      BY <1>1, <3>1
    <3>3. /\ interopTelemetry' \in [Attempts -> {"none", "new", "sent"}]
          /\ intervalHandle' \in [Attempts -> BOOLEAN]
          /\ telemetryCanUpload' = telemetryCanUpload
      BY <1>1, <2>3 DEF UploadTick
    <3> QED
      BY <1>1, <3>2, <3>3
  <2>4. CASE \E ok \in BOOLEAN : TelemetryPosted(k, ok)
    <3>1. /\ posts[k] - 1 \in 0 .. MaxPosts
          /\ posts' = [posts EXCEPT ![k] = posts[k] - 1]
      BY <1>1, <2>2, <2>4 DEF TelemetryPosted
    <3>2. posts' \in [Attempts -> 0 .. MaxPosts]
      BY <1>1, <3>1
    <3>3. /\ telemetryCanUpload' \in [Attempts -> BOOLEAN]
          /\ UNCHANGED <<interopTelemetry, intervalHandle>>
      BY <1>1, <2>4 DEF TelemetryPosted
    <3> QED
      BY <1>1, <3>2, <3>3
  <2> QED
    BY <2>1, <2>3, <2>4
<1>4. CASE ServerRestarts
  BY <1>1, <1>4 DEF ServerRestarts, NewClients
<1>5. CASE UNCHANGED clientVars
  BY <1>1, <1>5 DEF clientVars
<1> QED
  BY <1>2, <1>3, <1>4, <1>5
  DEF InteropNext, ConnectToInterop, AttemptAnswered, LoginSucceeds,
      LoginFails, MissionRetrieved, UploadImage, DetailsPosted,
      SubmissionEnds, UiConnects, UiDisconnects, ResetReduxState

LEMMA SubmissionTypesKept ==
  ASSUME InteropInv, InteropAssumption, InteropNext
  PROVE  SubmissionTypes(made)'
<1>1. /\ SubmissionTypes(made) /\ made \in Nat /\ made' \in Nat
      /\ interopClient \in 0 .. made /\ made <= made'
  BY TypesByPart, ConnectionTypesKept
  DEF InteropInv, InteropAssumption, ConnectionTypes
<1>2. \A n \in 0 .. made : n \in 0 .. made'
  BY <1>1
<1>3. SubmissionTypes(made')
  BY <1>1, <1>2 DEF SubmissionTypes
<1>4. 0 \in 0 .. made' /\ interopClient \in 0 .. made'
  BY <1>1, <1>2
<1> USE DEF SubmissionTypes, NoSubmission, None
<1>5. CASE ConnectToInterop
  BY <1>3, <1>5 DEF ConnectToInterop
<1>6. CASE UploadImage
  BY <1>4, <1>6 DEF UploadImage
<1>7. CASE DetailsPosted
  BY <1>3, <1>4, <1>7 DEF DetailsPosted
<1>8. CASE SubmissionEnds \/ ServerRestarts
  <2>1. submission' = [step |-> "none", details |-> 0, image |-> 0,
                       quiet |-> FALSE]
    BY <1>8 DEF SubmissionEnds, ServerRestarts
  <2> QED
    BY <1>4, <2>1
<1>9. CASE UNCHANGED submission
  BY <1>3, <1>9
<1> QED
  BY <1>5, <1>6, <1>7, <1>8, <1>9
  DEF InteropNext, AttemptAnswered, LoginSucceeds, LoginFails,
      MissionRetrieved, NewTelemetry, ClientNext, UploadTick,
      TelemetryPosted, UiConnects, UiDisconnects, ResetReduxState

LEMMA TypesKept ==
  ASSUME InteropInv, InteropAssumption, InteropNext
  PROVE  InteropTypeOK' /\ OnlyTheMade'
<1>1. InteropTypeOK'
        <=> ConnectionTypes' /\ ClientTypes' /\ SubmissionTypes(made)'
  BY DEF InteropTypeOK, ConnectionTypes, ClientTypes, SubmissionTypes
<1>2. SubmissionTypes(made)'
  BY SubmissionTypesKept DEF SubmissionTypes
<1> QED
  BY <1>1, <1>2, ConnectionTypesKept, ClientTypesKept

-----------------------------------------------------------------------------
(* The other parts, by what disturbs them.                                 *)

LEMMA IntervalsKept ==
  ASSUME InteropInv, InteropAssumption, InteropNext
  PROVE  IntervalRunsForTelemetry'
<1> USE DEF IntervalRunsForTelemetry, Attempts
<1>1. CASE NewTelemetry
  BY <1>1 DEF InteropInv, InteropTypeOK, NewTelemetry
<1>2. CASE ClientNext
  <2>1. PICK k \in Attempts :
          UploadTick(k) \/ \E ok \in BOOLEAN : TelemetryPosted(k, ok)
    BY <1>2 DEF ClientNext
  <2>2. CASE UploadTick(k)
    <3>1. /\ interopTelemetry \in [Attempts -> {"none", "new", "sent"}]
          /\ intervalHandle \in [Attempts -> BOOLEAN]
          /\ IntervalRunsForTelemetry
      BY DEF InteropInv, InteropTypeOK
    <3>2. \/ /\ intervalHandle[k]
             /\ interopTelemetry' = [interopTelemetry EXCEPT ![k] = "sent"]
             /\ intervalHandle' = intervalHandle
          \/ /\ interopTelemetry' = [interopTelemetry EXCEPT ![k] = "none"]
             /\ intervalHandle' = [intervalHandle EXCEPT ![k] = FALSE]
      BY <2>2 DEF UploadTick
    <3>3. \A j \in Attempts : j # k =>
            /\ interopTelemetry'[j] = interopTelemetry[j]
            /\ intervalHandle'[j] = intervalHandle[j]
      BY <2>1, <3>1, <3>2
    <3>4. intervalHandle'[k] <=> interopTelemetry'[k] # "none"
      BY <2>1, <3>1, <3>2
    <3> QED
      BY <3>1, <3>3, <3>4
  <2>3. CASE \E ok \in BOOLEAN : TelemetryPosted(k, ok)
    BY <2>3 DEF InteropInv, TelemetryPosted
  <2> QED
    BY <2>1, <2>2, <2>3
<1>3. CASE ServerRestarts
  BY <1>3 DEF ServerRestarts, NewClients
<1>4. CASE UNCHANGED <<interopTelemetry, intervalHandle>>
  BY <1>4 DEF InteropInv
<1> QED
  BY <1>1, <1>2, <1>3, <1>4
  DEF InteropNext, ConnectToInterop, AttemptAnswered, LoginSucceeds,
      LoginFails, MissionRetrieved, UploadImage, DetailsPosted,
      SubmissionEnds, UiConnects, UiDisconnects, ResetReduxState, clientVars

\* What the answer of an attempt means for the missions.
LEMMA AnswersKeepMissions ==
  ASSUME InteropInv, InteropAssumption, InteropTypeOK', AttemptAnswered
  PROVE  OnlyTheNewestAttempt' /\ MissionOfClient' /\ UiShowsServersMission'
<1> USE DEF InteropInv, InteropTypeOK, OnlyTheNewestAttempt, MissionOfClient,
            UiShowsServersMission, Unanswered, Settled, Attempts, None
<1>1. PICK k \in Attempts :
        \/ LoginSucceeds(k) \/ LoginFails(k)
        \/ \E data \in {k, None} : MissionRetrieved(k, data)
  BY DEF AttemptAnswered
<1>2. CASE LoginSucceeds(k)
  BY <1>2 DEF LoginSucceeds, uiVars
<1>3. CASE LoginFails(k)
  BY <1>3 DEF LoginFails, EmitInteropData
<1>4. CASE \E data \in {k, None} : MissionRetrieved(k, data)
  BY <1>4 DEF MissionRetrieved, EmitInteropData
<1> QED
  BY <1>1, <1>2, <1>3, <1>4

LEMMA MissionsKept ==
  ASSUME InteropInv, InteropAssumption, InteropTypeOK', InteropNext
  PROVE  OnlyTheNewestAttempt' /\ MissionOfClient' /\ UiShowsServersMission'
<1>1. CASE AttemptAnswered
  BY <1>1, AnswersKeepMissions
<1> USE DEF InteropInv, OnlyTheNewestAttempt, MissionOfClient,
            UiShowsServersMission, Unanswered, Settled
<1>2. CASE ConnectToInterop
  <2>1. made + 1 \in Attempts /\ stage'[made + 1] = "login"
    BY <1>2 DEF ConnectToInterop, InteropTypeOK, InteropAssumption, Attempts
  <2>2. ~overlapped' => \A k \in Attempts : Unanswered(k)' => k = made'
    BY <1>2 DEF ConnectToInterop, InteropTypeOK
  <2>3. interopClient' = None
        /\ UNCHANGED <<interopData, ui_connected, ui_data>>
    BY <1>2 DEF ConnectToInterop, uiVars
  <2>4. ~overlapped' => \A k \in Attempts : stage'[k] # "mission"
    BY <1>2 DEF ConnectToInterop, InteropTypeOK
  <2> QED
    BY <2>1, <2>2, <2>3, <2>4
<1>3. CASE UiConnects \/ UiDisconnects \/ ResetReduxState
  BY <1>3 DEF UiConnects, UiDisconnects, ResetReduxState, InteropTypeOK
<1>4. CASE ServerRestarts
  BY <1>4 DEF ServerRestarts, InteropTypeOK
<1>5. CASE UNCHANGED <<made, stage, interopClient, interopData, uiVars,
                       overlapped>>
  BY <1>5 DEF uiVars
<1> QED
  BY <1>1, <1>2, <1>3, <1>4, <1>5
  DEF InteropNext, NewTelemetry, ClientNext, UploadTick, TelemetryPosted,
      UploadImage, DetailsPosted, SubmissionEnds

LEMMA SubmissionKept ==
  ASSUME InteropInv, InteropAssumption, InteropTypeOK', InteropNext
  PROVE  QuietSubmission'
<1> USE DEF InteropInv, InteropTypeOK, QuietSubmission, NoSubmission
<1>1. CASE ConnectToInterop
  BY <1>1 DEF ConnectToInterop
<1>2. CASE AttemptAnswered
  <2>1. PICK k \in Attempts :
          \/ LoginSucceeds(k) \/ LoginFails(k)
          \/ \E data \in {k, None} : MissionRetrieved(k, data)
    BY <1>2 DEF AttemptAnswered
  <2>2. CASE LoginSucceeds(k)
    BY <2>2 DEF LoginSucceeds
  <2>3. CASE LoginFails(k)
    BY <2>3 DEF LoginFails
  <2>4. CASE \E data \in {k, None} : MissionRetrieved(k, data)
    BY <2>4 DEF MissionRetrieved
  <2> QED
    BY <2>1, <2>2, <2>3, <2>4
<1>3. CASE UploadImage
  BY <1>3 DEF UploadImage
<1>4. CASE DetailsPosted
  BY <1>4 DEF DetailsPosted
<1>5. CASE SubmissionEnds
  BY <1>5 DEF SubmissionEnds
<1>6. CASE ServerRestarts
  BY <1>6 DEF ServerRestarts
<1>7. CASE UNCHANGED <<stage, interopClient, submission>>
  BY <1>7
<1> QED
  BY <1>1, <1>2, <1>3, <1>4, <1>5, <1>6, <1>7
  DEF InteropNext, NewTelemetry, ClientNext, UploadTick, TelemetryPosted,
      UiConnects, UiDisconnects, ResetReduxState

LEMMA InteropInvHolds ==
  ASSUME InteropAssumption
  PROVE  InteropSpec => []InteropInv
<1>1. InteropInit => InteropInv
  <2> SUFFICES ASSUME InteropInit
               PROVE  InteropInv
    OBVIOUS
  <2> USE DEF InteropInit, NewClients, NoSubmission, None
  <2>1. InteropTypeOK
    <3>1. MaxAttempts \in Nat /\ MaxPosts \in Nat /\ 0 \in 0 .. made
      BY DEF InteropAssumption
    <3>2. ConnectionTypes
      <4>1. made \in 0 .. MaxAttempts
        BY <3>1
      <4>2. stage \in [Attempts -> {"idle", "login", "mission", "over"}]
        OBVIOUS
      <4>3. /\ interopClient \in 0 .. made /\ interopData \in 0 .. made
            /\ ui_data \in 0 .. made
        BY <3>1
      <4> QED
        BY <4>1, <4>2, <4>3 DEF ConnectionTypes
    <3>3. ClientTypes
      BY <3>1 DEF ClientTypes
    <3>4. SubmissionTypes(made)
      BY <3>1 DEF SubmissionTypes
    <3> QED
      BY <3>2, <3>3, <3>4, TypesByPart
  <2>2. OnlyTheMade /\ IntervalRunsForTelemetry /\ QuietSubmission
    BY DEF OnlyTheMade, IntervalRunsForTelemetry, QuietSubmission
  <2>3. OnlyTheNewestAttempt /\ MissionOfClient /\ UiShowsServersMission
    BY DEF OnlyTheNewestAttempt, MissionOfClient, UiShowsServersMission,
         Unanswered
  <2> QED
    BY <2>1, <2>2, <2>3 DEF InteropInv
<1>2. InteropInv /\ [InteropNext]_interopVars => InteropInv'
  <2> SUFFICES ASSUME InteropInv, [InteropNext]_interopVars
               PROVE  InteropInv'
    OBVIOUS
  <2>1. CASE InteropNext
    <3>1. InteropTypeOK' /\ OnlyTheMade'
      BY <2>1, TypesKept
    <3> QED
      BY <2>1, <3>1, IntervalsKept, MissionsKept, SubmissionKept
      DEF InteropInv
  <2>2. CASE UNCHANGED interopVars
    BY <2>2 DEF interopVars, clientVars, uiVars, InteropInv, InteropTypeOK,
         OnlyTheMade, IntervalRunsForTelemetry, OnlyTheNewestAttempt,
         MissionOfClient, UiShowsServersMission, QuietSubmission, Unanswered,
         Settled
  <2> QED
    BY <2>1, <2>2
<1> QED
  BY <1>1, <1>2, PTL DEF InteropSpec

-----------------------------------------------------------------------------

\* Types: a client, a mission and what a UI shows are of an attempt that was
\* made (ground_server.js:83).
THEOREM InteropTypeCorrect ==
  ASSUME InteropAssumption
  PROVE  InteropSpec => []InteropTypeOK
<1>1. InteropInv => InteropTypeOK
  BY DEF InteropInv
<1> QED
  BY <1>1, InteropInvHolds, PTL

\* A client's interval runs exactly while it has telemetry to post, however
\* many clients there were before it (interop_client.js:28).
THEOREM IntervalsRunForTelemetry ==
  ASSUME InteropAssumption
  PROVE  InteropSpec => []IntervalRunsForTelemetry
<1>1. InteropInv => IntervalRunsForTelemetry
  BY DEF InteropInv
<1> QED
  BY <1>1, InteropInvHolds, PTL

\* Without overlapping attempts plans are compiled with the mission of the
\* client that is uploaded to (ground_server.js:83).
THEOREM MissionIsTheClients ==
  ASSUME InteropAssumption
  PROVE  InteropSpec => []MissionOfClient
<1>1. InteropInv => MissionOfClient
  BY DEF InteropInv
<1> QED
  BY <1>1, InteropInvHolds, PTL

\* A UI never shows another mission than the server's, also when attempts
\* overlap, sockets break and the server restarts (ground_server.js:67).
THEOREM UiMissionIsTheServers ==
  ASSUME InteropAssumption
  PROVE  InteropSpec => []UiShowsServersMission
<1>1. InteropInv => UiShowsServersMission
  BY DEF InteropInv
<1> QED
  BY <1>1, InteropInvHolds, PTL

\* An image follows its object to one server while no one else can log in
\* (ground_server.js:310).
THEOREM ImagesFollowObjects ==
  ASSUME InteropAssumption
  PROVE  InteropSpec => []ImageFollowsObject
<1>1. InteropInv => ImageFollowsObject
  BY DEF InteropInv, QuietSubmission, ImageFollowsObject
<1> QED
  BY <1>1, InteropInvHolds, PTL

-----------------------------------------------------------------------------
(* The timers that drive the UGV.                                          *)

\* While no pending drive was reset, only the newest timer is pending, and the
\* server knows that it is.
OnlyTheNewestTimer ==
  /\ Pending = {} => resets = 0
  /\ resets = 0 => Pending \subseteq {ugvDriveTimer}
  /\ resets = 0 /\ Pending # {} => droveUgv /\ ~called_off

\* Each reset accounts for one timer beside the newest, and for the newest too
\* when the server may set another.
ResetsAccount ==
  /\ Cardinality(Pending \ {ugvDriveTimer}) <= resets
  /\ ~droveUgv => Cardinality(Pending) <= resets

\* The inductive invariant.
DriveInv == DriveTypeOK /\ OnlyTheNewestTimer /\ ResetsAccount

-----------------------------------------------------------------------------

\* Timers are counted, and no more of them are pending than were set.
LEMMA PendingFinite ==
  ASSUME DriveTypeOK, DriveAssumption
  PROVE  /\ IsFiniteSet(Pending)
         /\ Cardinality(Pending) \in Nat
         /\ Cardinality(Pending) <= ugvDriveTimer
<1>1. ugvDriveTimer \in Nat /\ Pending \subseteq 1 .. ugvDriveTimer
  BY DEF DriveTypeOK, DriveAssumption
<1>2. /\ IsFiniteSet(1 .. ugvDriveTimer)
      /\ Cardinality(1 .. ugvDriveTimer) = ugvDriveTimer
  BY <1>1, FS_Interval
<1> QED
  BY <1>1, <1>2, FS_Subset, FS_CardinalityType

\* Fewer timers are counted as fewer.
LEMMA FewerPending ==
  ASSUME DriveTypeOK, DriveAssumption, NEW S \in SUBSET Pending
  PROVE  /\ Cardinality(S) \in Nat
         /\ Cardinality(S) <= Cardinality(Pending)
         /\ IsFiniteSet(S)
  BY PendingFinite, FS_Subset, FS_CardinalityType

\* Taking the newest timer away takes at most one away.
LEMMA AllButTheNewest ==
  ASSUME DriveTypeOK, DriveAssumption
  PROVE  /\ Cardinality(Pending \ {ugvDriveTimer}) \in Nat
         /\ Cardinality(Pending) <= Cardinality(Pending \ {ugvDriveTimer}) + 1
         /\ Cardinality(Pending \ {ugvDriveTimer}) <= Cardinality(Pending)
<1>1. CASE ugvDriveTimer \in Pending
  BY <1>1, PendingFinite, FewerPending, FS_RemoveElement
<1>2. CASE ugvDriveTimer \notin Pending
  <2>1. Pending \ {ugvDriveTimer} = Pending
    BY <1>2
  <2>2. Cardinality(Pending) \in Nat
    BY PendingFinite
  <2>3. \A n \in Nat : n <= n + 1 /\ n <= n
    OBVIOUS
  <2> QED
    BY <2>1, <2>2, <2>3
<1> QED
  BY <1>1, <1>2

-----------------------------------------------------------------------------
(* What each step does to the invariant.                                   *)

LEMMA ClearPreservesTypes ==
  ASSUME DriveTypeOK, DriveAssumption, NEW timer, Clear(timer)
  PROVE  /\ Pending' = Pending \ {timer}
         /\ \A t \in Pending' : left'[t] \in 0 .. ugvWaitTimeAfterCut
         /\ resets' \in 0 .. MaxTimers
  BY DEF DriveTypeOK, DriveAssumption, Clear, Pending

LEMMA ResetLatchPreserves ==
  ASSUME DriveInv, DriveAssumption, ResetLatch
  PROVE  DriveInv'
<1>1. /\ left' = left /\ ugvDriveTimer' = ugvDriveTimer
      /\ called_off' = called_off /\ droveUgv' = FALSE
      /\ resets' = IF Pending = {} \/ resets = MaxTimers THEN resets
                   ELSE resets + 1
  BY DEF ResetLatch
<1>2. Pending' = Pending
  BY <1>1 DEF Pending
<1>3. /\ resets \in 0 .. MaxTimers /\ MaxTimers \in Nat
      /\ ugvDriveTimer \in 0 .. MaxTimers
      /\ Pending \subseteq 1 .. ugvDriveTimer
  BY DEF DriveInv, DriveTypeOK, DriveAssumption
<1>4. /\ resets' \in 0 .. MaxTimers
      /\ Pending # {} => resets' # 0
  <2>1. CASE Pending = {} \/ resets = MaxTimers
    <3>1. ASSUME NEW t \in Pending PROVE MaxTimers # 0
      <4>1. t \in 1 .. ugvDriveTimer
        BY <1>3
      <4> QED
        BY <1>3, <4>1
    <3> QED
      BY <1>1, <1>3, <2>1, <3>1
  <2>2. CASE ~(Pending = {} \/ resets = MaxTimers)
    BY <1>1, <1>3, <2>2
  <2> QED
    BY <2>1, <2>2
<1>5. DriveTypeOK'
  BY <1>1, <1>2, <1>4 DEF DriveInv, DriveTypeOK
<1>6. OnlyTheNewestTimer'
  <2>1. Pending # {} => resets' # 0
    BY <1>4
  <2> QED
    BY <1>1, <1>2, <2>1 DEF DriveInv, OnlyTheNewestTimer
<1>7. Cardinality(Pending) <= resets'
  <2>1. /\ Cardinality(Pending) \in Nat
        /\ Cardinality(Pending) <= ugvDriveTimer
        /\ Cardinality(Pending) <= Cardinality(Pending \ {ugvDriveTimer}) + 1
        /\ Cardinality(Pending \ {ugvDriveTimer}) \in Nat
        /\ Cardinality(Pending \ {ugvDriveTimer}) <= resets
    BY PendingFinite, AllButTheNewest DEF DriveInv, ResetsAccount
  <2>2. Pending = {} => Cardinality(Pending) = 0
    BY FS_EmptySet
  <2> QED
    BY <1>1, <1>3, <2>1, <2>2
<1>8. ResetsAccount'
  <2>1. /\ Cardinality(Pending \ {ugvDriveTimer}) \in Nat
        /\ Cardinality(Pending \ {ugvDriveTimer}) <= Cardinality(Pending)
        /\ Cardinality(Pending) \in Nat
    BY PendingFinite, AllButTheNewest DEF DriveInv
  <2>2. resets' \in Nat
    BY <1>1, <1>3
  <2>3. Cardinality(Pending \ {ugvDriveTimer}) <= resets'
    BY <1>7, <2>1, <2>2
  <2> QED
    BY <1>1, <1>2, <1>7, <2>3 DEF ResetsAccount
<1> QED
  BY <1>5, <1>6, <1>8 DEF DriveInv

LEMMA CallOffPreserves ==
  ASSUME DriveInv, DriveAssumption, CallOff
  PROVE  DriveInv'
<1>1. called_off' = TRUE /\ ugvDriveTimer' = ugvDriveTimer
  BY DEF CallOff
<1>2. /\ ugvDriveTimer \in Nat /\ Pending \subseteq 1 .. ugvDriveTimer
      /\ resets \in Nat
  BY DEF DriveInv, DriveTypeOK, DriveAssumption
<1>3. CASE ugvDriveTimer = NoTimer
  <2>1. UNCHANGED <<left, droveUgv, resets>>
    BY <1>3 DEF CallOff
  <2>2. Pending = {} /\ Pending' = {}
    <3>1. 1 .. ugvDriveTimer = {}
      BY <1>3 DEF NoTimer
    <3>2. Pending = {}
      BY <1>2, <3>1
    <3> QED
      BY <2>1, <3>2 DEF Pending
  <2>3. DriveTypeOK'
    BY <1>1, <2>1, <2>2 DEF DriveInv, DriveTypeOK, Pending
  <2> QED
    BY <1>1, <2>1, <2>2, <2>3
    DEF DriveInv, OnlyTheNewestTimer, ResetsAccount
<1>4. CASE ugvDriveTimer # NoTimer
  <2>1. Clear(ugvDriveTimer) /\ droveUgv' = FALSE
    BY <1>4 DEF CallOff
  <2>2. /\ Pending' = Pending \ {ugvDriveTimer}
        /\ \A t \in Pending' : left'[t] \in 0 .. ugvWaitTimeAfterCut
        /\ resets' \in 0 .. MaxTimers
    BY <2>1, ClearPreservesTypes DEF DriveInv
  <2>3. resets' = IF Pending' = {} THEN 0 ELSE resets
    BY <2>1, <2>2 DEF Clear
  <2>4. DriveTypeOK'
    BY <1>1, <2>1, <2>2 DEF DriveInv, DriveTypeOK
  <2>5. OnlyTheNewestTimer'
    BY <1>1, <2>2, <2>3 DEF DriveInv, OnlyTheNewestTimer
  <2>6. Cardinality(Pending') <= resets'
    <3>1. CASE Pending' = {}
      BY <2>3, <3>1, FS_EmptySet
    <3>2. CASE Pending' # {}
      BY <2>2, <2>3, <3>2 DEF DriveInv, ResetsAccount
    <3> QED
      BY <3>1, <3>2
  <2>7. Pending' \ {ugvDriveTimer'} = Pending'
    BY <1>1, <2>2
  <2> QED
    BY <2>4, <2>5, <2>6, <2>7 DEF DriveInv, ResetsAccount
<1> QED
  BY <1>3, <1>4

LEMMA CutLinePreserves ==
  ASSUME DriveInv, DriveAssumption, CutLine
  PROVE  DriveInv'
<1>1. called_off' = FALSE /\ resets' = resets
  BY DEF CutLine
<1>2. CASE droveUgv /\ UNCHANGED <<droveUgv, ugvDriveTimer, left>>
  <2>1. Pending' = Pending
    BY <1>2 DEF Pending
  <2> QED
    BY <1>1, <1>2, <2>1 DEF DriveInv, DriveTypeOK, OnlyTheNewestTimer,
         ResetsAccount
<1>3. CASE /\ ~droveUgv /\ ugvDriveTimer < MaxTimers
           /\ droveUgv' = TRUE
           /\ ugvDriveTimer' = ugvDriveTimer + 1
           /\ left' = [t \in Pending \cup {ugvDriveTimer + 1} |->
                         IF t \in Pending THEN left[t] ELSE ugvWaitTimeAfterCut]
  <2>1. Pending' = Pending \cup {ugvDriveTimer'}
    BY <1>3 DEF Pending
  <2>2. /\ ugvDriveTimer \in Nat /\ MaxTimers \in Nat /\ resets \in Nat
        /\ ugvWaitTimeAfterCut \in Nat
        /\ Pending \subseteq 1 .. ugvDriveTimer
        /\ \A t \in Pending : left[t] \in 0 .. ugvWaitTimeAfterCut
    BY DEF DriveInv, DriveTypeOK, DriveAssumption
  <2>3. ugvDriveTimer' \notin Pending
    BY <1>3, <2>2
  <2>4. DriveTypeOK'
    <3>1. Pending' \subseteq 1 .. ugvDriveTimer'
      BY <1>3, <2>1, <2>2
    <3>2. \A t \in Pending' : left'[t] \in 0 .. ugvWaitTimeAfterCut
      BY <1>3, <2>1, <2>2
    <3>3. ugvDriveTimer' \in 0 .. MaxTimers
      BY <1>3, <2>2
    <3> QED
      BY <1>1, <1>3, <3>1, <3>2, <3>3 DEF DriveInv, DriveTypeOK
  <2>5. resets = 0 => Pending = {}
    BY <1>3 DEF DriveInv, OnlyTheNewestTimer
  <2>6. OnlyTheNewestTimer'
    BY <1>1, <1>3, <2>1, <2>5 DEF OnlyTheNewestTimer
  <2>7. Pending' \ {ugvDriveTimer'} = Pending
    BY <2>1, <2>3
  <2> QED
    BY <1>1, <1>3, <2>4, <2>6, <2>7 DEF DriveInv, ResetsAccount
<1> QED
  BY <1>2, <1>3 DEF CutLine

LEMMA DriveStepPreserves ==
  ASSUME DriveInv, DriveAssumption, NEW timer \in Pending, Drive(timer)
  PROVE  DriveInv'
<1>1. Clear(timer) /\ UNCHANGED <<droveUgv, ugvDriveTimer, called_off>>
  BY DEF Drive
<1>2. /\ Pending' = Pending \ {timer}
      /\ \A t \in Pending' : left'[t] \in 0 .. ugvWaitTimeAfterCut
      /\ resets' \in 0 .. MaxTimers
  BY <1>1, ClearPreservesTypes DEF DriveInv
<1>3. resets' = IF Pending' = {} THEN 0 ELSE resets
  BY <1>1, <1>2 DEF Clear
<1>4. DriveTypeOK'
  BY <1>1, <1>2 DEF DriveInv, DriveTypeOK
<1>5. OnlyTheNewestTimer'
  BY <1>1, <1>2, <1>3 DEF DriveInv, OnlyTheNewestTimer
<1>6. ResetsAccount'
  <2>1. CASE Pending' = {}
    BY <1>3, <2>1, FS_EmptySet DEF ResetsAccount
  <2>2. CASE Pending' # {}
    <3>1. resets' = resets /\ resets \in Nat
      BY <1>3, <2>2 DEF DriveInv, DriveTypeOK
    <3>2. /\ Cardinality(Pending') \in Nat
          /\ Cardinality(Pending') <= Cardinality(Pending)
          /\ Cardinality(Pending) \in Nat
      BY <1>2, PendingFinite, FewerPending DEF DriveInv
    <3>3. ~droveUgv' => Cardinality(Pending') <= resets'
      BY <1>1, <3>1, <3>2 DEF DriveInv, ResetsAccount
    <3>4. /\ IsFiniteSet(Pending \ {ugvDriveTimer})
          /\ Cardinality(Pending \ {ugvDriveTimer}) \in Nat
      BY FewerPending DEF DriveInv
    <3>5. Pending' \ {ugvDriveTimer} \subseteq Pending \ {ugvDriveTimer}
      BY <1>2
    <3>6. /\ Cardinality(Pending' \ {ugvDriveTimer}) \in Nat
          /\ Cardinality(Pending' \ {ugvDriveTimer})
               <= Cardinality(Pending \ {ugvDriveTimer})
      BY <3>4, <3>5, FS_Subset, FS_CardinalityType
    <3>7. Cardinality(Pending' \ {ugvDriveTimer'}) <= resets'
      BY <1>1, <3>1, <3>4, <3>6 DEF DriveInv, ResetsAccount
    <3> QED
      BY <3>3, <3>7 DEF ResetsAccount
  <2> QED
    BY <2>1, <2>2
<1> QED
  BY <1>4, <1>5, <1>6 DEF DriveInv

LEMMA TickPreserves ==
  ASSUME DriveInv, DriveAssumption, Tick
  PROVE  DriveInv'
<1>1. /\ left' = [t \in Pending |-> IF left[t] > 0 THEN left[t] - 1 ELSE 0]
      /\ UNCHANGED <<droveUgv, ugvDriveTimer, called_off, resets>>
  BY DEF Tick
<1>2. Pending' = Pending
  BY <1>1 DEF Pending
<1>3. \A t \in Pending : left'[t] \in 0 .. ugvWaitTimeAfterCut
  <2>1. /\ ugvWaitTimeAfterCut \in Nat
        /\ \A t \in Pending : left[t] \in 0 .. ugvWaitTimeAfterCut
    BY DEF DriveInv, DriveTypeOK, DriveAssumption
  <2> QED
    BY <1>1, <2>1
<1> QED
  BY <1>1, <1>2, <1>3 DEF DriveInv, DriveTypeOK, OnlyTheNewestTimer,
       ResetsAccount

LEMMA DriveInvHolds ==
  ASSUME DriveAssumption
  PROVE  DriveSpec => []DriveInv
<1>1. DriveInit => DriveInv
  <2> SUFFICES ASSUME DriveInit
               PROVE  DriveInv
    OBVIOUS
  <2>1. Pending = {}
    BY DEF DriveInit, Pending
  <2>2. Cardinality(Pending) = 0
        /\ Cardinality(Pending \ {ugvDriveTimer}) = 0
    BY <2>1, FS_EmptySet
  <2>3. DriveTypeOK
    <3>1. 0 \in 0 .. MaxTimers
      BY DEF DriveAssumption
    <3>2. Pending \subseteq 1 .. ugvDriveTimer
      BY <2>1
    <3>3. \A t \in Pending : left[t] \in 0 .. ugvWaitTimeAfterCut
      BY <2>1
    <3>4. /\ droveUgv = FALSE /\ ugvDriveTimer = 0
          /\ called_off = FALSE /\ resets = 0
      BY DEF DriveInit, NoTimer
    <3> HIDE DEF Pending
    <3> QED
      BY <3>1, <3>2, <3>3, <3>4 DEF DriveTypeOK
  <2>4. OnlyTheNewestTimer /\ ResetsAccount
    <3>1. resets = 0
      BY DEF DriveInit
    <3> QED
      BY <2>1, <2>2, <3>1 DEF OnlyTheNewestTimer, ResetsAccount
  <2> QED
    BY <2>3, <2>4 DEF DriveInv
<1>2. DriveInv /\ [DriveNext]_driveVars => DriveInv'
  <2> SUFFICES ASSUME DriveInv, [DriveNext]_driveVars
               PROVE  DriveInv'
    OBVIOUS
  <2>1. CASE DriveNext
    BY <2>1, ResetLatchPreserves, CallOffPreserves, CutLinePreserves,
       DriveStepPreserves, TickPreserves DEF DriveNext
  <2>2. CASE UNCHANGED driveVars
    BY <2>2
    DEF driveVars, Pending, DriveInv, DriveTypeOK, OnlyTheNewestTimer,
        ResetsAccount
  <2> QED
    BY <2>1, <2>2
<1> QED
  BY <1>1, <1>2, PTL DEF DriveSpec

-----------------------------------------------------------------------------

\* The server's variables keep their types, and no timer fires that it did not
\* set (ground_server.js, DROPPY_COMMAND_RECEIVED).
THEOREM DriveTypeCorrect ==
  ASSUME DriveAssumption
  PROVE  DriveSpec => []DriveTypeOK
<1>1. DriveInv => DriveTypeOK
  BY DEF DriveInv
<1> QED
  BY <1>1, DriveInvHolds, PTL

\* A drive that was called off does not begin, for every waiting time, as long
\* as the latch was not reset while it was to come (ground_server.js:188).
THEOREM CallingOffStops ==
  ASSUME DriveAssumption
  PROVE  DriveSpec => []CallingOffStopsDriveUnlessReset
<1>1. DriveInv => CallingOffStopsDriveUnlessReset
  BY DEF DriveInv, OnlyTheNewestTimer, CallingOffStopsDriveUnlessReset
<1> QED
  BY <1>1, DriveInvHolds, PTL

\* Confirmed cuts set at most one timer and one for each reset of the latch
\* (ground_server.js:200).
THEOREM OneDriveForEachReset ==
  ASSUME DriveAssumption
  PROVE  DriveSpec => []OneDrivePerReset
<1>1. DriveInv => OneDrivePerReset
  <2> SUFFICES ASSUME DriveInv
               PROVE  OneDrivePerReset
    OBVIOUS
  <2>1. /\ Cardinality(Pending) \in Nat
        /\ Cardinality(Pending) <= Cardinality(Pending \ {ugvDriveTimer}) + 1
        /\ Cardinality(Pending \ {ugvDriveTimer}) \in Nat
        /\ Cardinality(Pending \ {ugvDriveTimer}) <= resets
        /\ resets \in Nat
    BY PendingFinite, AllButTheNewest
    DEF DriveInv, DriveTypeOK, ResetsAccount
  <2> QED
    BY <2>1 DEF OneDrivePerReset
<1> QED
  BY <1>1, DriveInvHolds, PTL

-----------------------------------------------------------------------------
(* What the button panel is told.                                          *)

Events ==
  [event : {"DRONE_STATE"}, data : States \cup {"DISARMED"}]
    \cup [event : {"DROPPY_READY"}, data : BOOLEAN]

\* The event kind is the last on its way, or none is, and tells v.
Tells(s, event, shown, v) ==
  LET ofKind == {i \in DOMAIN s : s[i].event = event}
  IN  IF ofKind = {} THEN shown = v
      ELSE \E i \in ofKind : s[i].data = v /\ \A j \in ofKind : j <= i

\* The server has the panel's state of the drone's last reading, and the
\* reading is not hidden.
ComparesWithTheDrone ==
  /\ sensors \in Readings =>
       /\ flightControllerState = sensors.state
       /\ droneArmed = sensors.armed
       /\ drone_connected
  /\ controls => drone_connected

\* The panel is told the state that the server compares with, once there is
\* one, and the readiness that it compares with.
PanelIsTold ==
  /\ droneArmed # Nothing /\ "DRONE_STATE" \notin missed =>
       Tells(wire, "DRONE_STATE", panelState,
             Label(flightControllerState, droneArmed))
  /\ "DROPPY_READY" \notin missed =>
       Tells(wire, "DROPPY_READY", panelReady, droppyReady)

RelayInv ==
  /\ RelayTypeOK
  /\ wire \in Seq(Events)
  /\ ComparesWithTheDrone
  /\ PanelIsTold

LEMMA OnTheWire ==
  ASSUME NEW s \in Seq(Events), NEW m \in Events
  PROVE  LET t == s \o <<m>>
         IN  /\ Append(s, m) = t /\ t \in Seq(Events)
             /\ Len(s) \in Nat /\ DOMAIN s = 1 .. Len(s)
             /\ DOMAIN t = 1 .. Len(s) + 1
             /\ \A i \in DOMAIN s : t[i] = s[i]
             /\ t[Len(s) + 1] = m
  OBVIOUS

\* What is emitted is told at last, and nothing of the other kind.
LEMMA TellsEmitted ==
  ASSUME NEW s \in Seq(Events), NEW m \in Events, NEW shown
  PROVE  /\ Append(s, m) \in Seq(Events)
         /\ Tells(Append(s, m), m.event, shown, m.data)
         /\ \A event, v : event # m.event /\ Tells(s, event, shown, v)
              => Tells(Append(s, m), event, shown, v)
<1> DEFINE t == s \o <<m>>
<1>1. /\ Append(s, m) = t /\ t \in Seq(Events)
      /\ Len(s) \in Nat /\ DOMAIN s = 1 .. Len(s)
      /\ DOMAIN t = 1 .. Len(s) + 1
      /\ \A i \in DOMAIN s : t[i] = s[i]
      /\ t[Len(s) + 1] = m
  BY OnTheWire
<1> HIDE DEF t
<1>2. /\ Len(s) + 1 \in DOMAIN t
      /\ \A i \in DOMAIN t : i <= Len(s) + 1
      /\ \A i \in DOMAIN t : i = Len(s) + 1 \/ i \in DOMAIN s
      /\ \A i \in DOMAIN s : i \in DOMAIN t
  BY <1>1
<1>3. Tells(t, m.event, shown, m.data)
  BY <1>1, <1>2 DEF Tells
<1>4. ASSUME NEW event, NEW v, event # m.event, Tells(s, event, shown, v)
      PROVE  Tells(t, event, shown, v)
  <2>1. {i \in DOMAIN t : t[i].event = event}
        = {i \in DOMAIN s : s[i].event = event}
    BY <1>1, <1>2, <1>4
  <2>2. QED
    BY <1>1, <1>4, <2>1 DEF Tells
<1>5. QED
  BY <1>1, <1>3, <1>4

\* What the panel reads it shows.
LEMMA TellsAfterReading ==
  ASSUME NEW s \in Seq(Events), s # <<>>, NEW event, NEW shown, NEW v,
         Tells(s, event, shown, v)
  PROVE  /\ Tail(s) \in Seq(Events) /\ Head(s) \in Events
         /\ Len(Tail(s)) <= Len(s)
         /\ Tells(Tail(s), event,
                  IF Head(s).event = event THEN Head(s).data ELSE shown, v)
<1> DEFINE t == Tail(s)
<1>1. /\ Len(s) \in Nat /\ DOMAIN s = 1 .. Len(s) /\ 1 \in DOMAIN s
      /\ DOMAIN t = 1 .. Len(s) - 1 /\ Len(t) = Len(s) - 1
      /\ \A i \in DOMAIN t : i + 1 \in DOMAIN s /\ t[i] = s[i + 1]
      /\ Head(s) = s[1] /\ t \in Seq(Events) /\ s[1] \in Events
  OBVIOUS
<1> HIDE DEF t
<1>2. \A j \in DOMAIN s :
        j \in Nat /\ (j = 1 \/ (j - 1 \in DOMAIN t /\ s[j] = t[j - 1]))
  BY <1>1
<1> DEFINE K == {i \in DOMAIN s : s[i].event = event}
           L == {i \in DOMAIN t : t[i].event = event}
<1>3. /\ \A j \in K : j = 1 \/ j - 1 \in L
      /\ \A i \in L : i + 1 \in K /\ i \in Nat /\ i >= 1
      /\ \A j \in K : j \in Nat
      /\ s[1].event = event <=> 1 \in K
  BY <1>1, <1>2
<1>4. CASE K = {}
  BY <1>1, <1>3, <1>4 DEF Tells, t
<1>5. CASE K # {}
  <2>1. PICK j \in K : s[j].data = v /\ \A k \in K : k <= j
    BY <1>5 DEF Tells
  <2>2. CASE j = 1
    <3>1. L = {}
      <4>1. ASSUME NEW i \in L PROVE FALSE
        BY <1>3, <2>1, <2>2
      <4>2. QED
        BY <4>1
    <3>2. QED
      BY <1>1, <1>3, <2>1, <2>2, <3>1 DEF Tells, t
  <2>3. CASE j # 1
    <3>1. /\ j - 1 \in L /\ t[j - 1].data = v
          /\ \A i \in L : i <= j - 1
      BY <1>1, <1>2, <1>3, <2>1, <2>3
    <3>2. QED
      BY <1>1, <3>1 DEF Tells, t
  <2>4. QED
    BY <2>2, <2>3
<1>6. QED
  BY <1>4, <1>5

LEMMA RelayInitially == ASSUME RelayAssumption, RelayInit PROVE RelayInv
<1>1. NoReading \notin Readings
  BY DEF NoReading, Readings
<1>2. Tells(<<>>, "DROPPY_READY", FALSE, FALSE)
  BY DEF Tells
<1>3. RelayTypeOK /\ wire \in Seq(Events)
  <2>1. Len(wire) = 0 /\ 0 <= MaxWire /\ wire \in Seq(Events)
    BY DEF RelayInit, RelayAssumption
  <2>2. 0 \in 0 .. (FakeLength - 1)
    BY DEF RelayAssumption
  <2>3. QED
    BY <2>1, <2>2 DEF RelayInit, RelayTypeOK
<1>4. QED
  BY <1>1, <1>2, <1>3
  DEF RelayInit, RelayInv, ComparesWithTheDrone, PanelIsTold

LEMMA LabelIsData ==
  ASSUME NEW reading \in Readings
  PROVE  /\ [event |-> "DRONE_STATE",
             data |-> Label(reading.state, reading.armed)] \in Events
         /\ reading.armed # Nothing
         /\ reading.state \in States /\ reading.armed \in Armings
         /\ reading \notin Fakes
  BY DEF Readings, Fakes, Armings, Nothing, Label, Events

\* Emitting an event leaves the panel told of it, or to have missed it.
LEMMA RelayEmits ==
  ASSUME RelayAssumption, RelayInv,
         NEW m \in Events, EmitToPanel(m.event, m.data), NEW shown
  PROVE  /\ wire' \in Seq(Events) /\ Len(wire') <= MaxWire
         /\ missed' \subseteq {"DRONE_STATE", "DROPPY_READY"}
         /\ m.event \notin missed' => Tells(wire', m.event, shown, m.data)
         /\ \A event, v :
              event # m.event /\ event \notin missed' =>
                /\ event \notin missed
                /\ Tells(wire, event, shown, v)
                     => Tells(wire', event, shown, v)
<1>1. m = [event |-> m.event, data |-> m.data]
      /\ m.event \in {"DRONE_STATE", "DROPPY_READY"}
  BY DEF Events
<1>2. wire \in Seq(Events) /\ missed \subseteq {"DRONE_STATE", "DROPPY_READY"}
  BY DEF RelayInv, RelayTypeOK
<1>3. CASE panel
  <2>1. /\ wire' = Append(wire, m) /\ Len(wire) < MaxWire
        /\ missed' = missed \ {m.event}
    BY <1>1, <1>3 DEF EmitToPanel
  <2>2. Len(Append(wire, m)) = Len(wire) + 1 /\ Len(wire) \in Nat
    BY <1>2
  <2>3. Len(wire') <= MaxWire
    BY <2>1, <2>2, RelayAssumption DEF RelayAssumption
  <2>4. QED
    BY <1>2, <2>1, <2>3, TellsEmitted
<1>4. CASE ~panel
  BY <1>1, <1>2, <1>4 DEF EmitToPanel, RelayInv, RelayTypeOK
<1>5. QED
  BY <1>3, <1>4

LEMMA RelayHears ==
  ASSUME RelayAssumption, RelayInv,
         NEW reading \in Readings, OnSensors(reading)
  PROVE  RelayInv'
<1> DEFINE m == [event |-> "DRONE_STATE",
                 data |-> Label(reading.state, reading.armed)]
<1>1. m \in Events /\ reading.armed # Nothing /\ reading.state \in States
      /\ reading.armed \in Armings
  BY LabelIsData
<1>2. /\ flightControllerState' = reading.state
      /\ droneArmed' = reading.armed
      /\ sensors' = reading /\ drone_connected' = drone_connected
      /\ drone_connected
      /\ UNCHANGED <<panelState, panelReady, droppyReady, controls>>
  BY DEF OnSensors, RelayInv, ComparesWithTheDrone
<1>3. CASE \/ reading.state # flightControllerState
           \/ reading.armed # droneArmed
  <2>1. EmitToPanel(m.event, m.data)
    BY <1>3 DEF OnSensors
  <2>2. m.event = "DRONE_STATE"
        /\ m.data = Label(flightControllerState', droneArmed')
    BY <1>2
  <2> HIDE DEF m
  <2>3. /\ wire' \in Seq(Events) /\ Len(wire') <= MaxWire
        /\ missed' \subseteq {"DRONE_STATE", "DROPPY_READY"}
    BY <1>1, <2>1, RelayEmits
  <2>4. "DRONE_STATE" \notin missed' =>
          Tells(wire', "DRONE_STATE", panelState',
                Label(flightControllerState', droneArmed'))
    BY <1>1, <1>2, <2>1, <2>2, RelayEmits
  <2>5. "DROPPY_READY" \notin missed' =>
          Tells(wire', "DROPPY_READY", panelReady', droppyReady')
    BY <1>1, <1>2, <2>1, <2>2, RelayEmits DEF RelayInv, PanelIsTold
  <2>6. RelayTypeOK'
    BY <1>1, <1>2, <2>3 DEF OnSensors, RelayInv, RelayTypeOK
  <2>7. QED
    BY <1>2, <2>3, <2>4, <2>5, <2>6
    DEF RelayInv, ComparesWithTheDrone, PanelIsTold
<1>4. CASE ~(\/ reading.state # flightControllerState
             \/ reading.armed # droneArmed)
  <2>1. UNCHANGED <<flightControllerState, droneArmed, wire, missed>>
    BY <1>4 DEF OnSensors
  <2>2. RelayTypeOK'
    BY <1>2, <2>1 DEF OnSensors, RelayInv, RelayTypeOK
  <2>3. QED
    BY <1>1, <1>2, <2>1, <2>2
    DEF RelayInv, ComparesWithTheDrone, PanelIsTold
<1>5. QED
  BY <1>3, <1>4

LEMMA RelayDeploys ==
  ASSUME RelayAssumption, RelayInv, NEW deploy \in BOOLEAN, OnOutput(deploy)
  PROVE  RelayInv'
<1> DEFINE m == [event |-> "DROPPY_READY", data |-> deploy]
<1>1. m \in Events
  BY DEF Events
<1>2. /\ droppyReady' = deploy
      /\ UNCHANGED <<panelState, panelReady, sensors, drone_connected,
                     controls, flightControllerState, droneArmed>>
  BY DEF OnOutput
<1>3. CASE deploy # droppyReady
  <2>1. EmitToPanel(m.event, m.data)
    BY <1>3 DEF OnOutput
  <2>2. m.event = "DROPPY_READY" /\ m.data = droppyReady'
    BY <1>2
  <2> HIDE DEF m
  <2>3. /\ wire' \in Seq(Events) /\ Len(wire') <= MaxWire
        /\ missed' \subseteq {"DRONE_STATE", "DROPPY_READY"}
    BY <1>1, <2>1, RelayEmits
  <2>4. droneArmed' # Nothing /\ "DRONE_STATE" \notin missed' =>
          Tells(wire', "DRONE_STATE", panelState',
                Label(flightControllerState', droneArmed'))
    BY <1>1, <1>2, <2>1, <2>2, RelayEmits DEF RelayInv, PanelIsTold
  <2>5. "DROPPY_READY" \notin missed' =>
          Tells(wire', "DROPPY_READY", panelReady', droppyReady')
    BY <1>1, <1>2, <2>1, <2>2, RelayEmits
  <2>6. RelayTypeOK'
    BY <1>1, <1>2, <2>3 DEF OnOutput, RelayInv, RelayTypeOK
  <2>7. QED
    BY <1>2, <2>3, <2>4, <2>5, <2>6
    DEF RelayInv, ComparesWithTheDrone, PanelIsTold
<1>4. CASE deploy = droppyReady
  <2>1. UNCHANGED <<wire, missed>>
    BY <1>4 DEF OnOutput
  <2>2. RelayTypeOK'
    BY <1>2, <2>1 DEF OnOutput, RelayInv, RelayTypeOK
  <2>3. QED
    BY <1>2, <1>4, <2>1, <2>2
    DEF RelayInv, ComparesWithTheDrone, PanelIsTold
<1>5. QED
  BY <1>3, <1>4

\* The controls, the recording and a panel that connects.
LEMMA RelayConnects ==
  ASSUME RelayAssumption, RelayInv,
         \/ ProtobufLoaded \/ ControlsConnects \/ ControlsDisconnects
         \/ FakeTelemetry \/ PanelConnects
  PROVE  RelayInv'
<1>1. UNCHANGED <<flightControllerState, droneArmed, droppyReady, wire,
                  panelState, panelReady, missed>>
  BY DEF ProtobufLoaded, ControlsConnects, ControlsDisconnects,
         FakeTelemetry, PanelConnects, server
<1>2. fakeIndex' \in 0 .. (FakeLength - 1)
  BY DEF ProtobufLoaded, ControlsConnects, ControlsDisconnects,
         FakeTelemetry, PanelConnects, server, RelayInv, RelayTypeOK,
         RelayAssumption
<1>3. /\ sensors' \in Readings \cup Fakes \cup {NoReading}
      /\ sensors' \in Readings => sensors' = sensors
  <2>1. Fakes \cap Readings = {}
    BY DEF Fakes, Readings
  <2>2. QED
    BY <2>1 DEF ProtobufLoaded, ControlsConnects, ControlsDisconnects,
           FakeTelemetry, PanelConnects, server, RelayInv, RelayTypeOK
<1>4. RelayTypeOK'
  BY <1>1, <1>2, <1>3
  DEF ProtobufLoaded, ControlsConnects, ControlsDisconnects,
      FakeTelemetry, PanelConnects, server, RelayInv, RelayTypeOK
<1>5. ComparesWithTheDrone'
  BY <1>1, <1>3
  DEF ProtobufLoaded, ControlsConnects, ControlsDisconnects,
      FakeTelemetry, PanelConnects, server, RelayInv, ComparesWithTheDrone
<1>6. QED
  BY <1>1, <1>4, <1>5 DEF RelayInv, PanelIsTold

LEMMA PanelLeaves ==
  ASSUME RelayAssumption, RelayInv, PanelDisconnects
  PROVE  RelayInv'
<1>1. /\ wire' = <<>>
      /\ missed' = missed \cup {wire[i].event : i \in DOMAIN wire}
      /\ UNCHANGED <<server, controls, fakeIndex, panelState, panelReady>>
  BY DEF PanelDisconnects
<1>2. \A i \in DOMAIN wire : wire[i].event \in {"DRONE_STATE", "DROPPY_READY"}
  <2>1. \A i \in DOMAIN wire : wire[i] \in Events
    BY DEF RelayInv
  <2>2. QED
    BY <2>1 DEF Events
<1>3. \A event, shown, v :
        event \notin missed' /\ Tells(wire, event, shown, v)
          => Tells(wire', event, shown, v)
  BY <1>1 DEF Tells
<1>4. \A event : event \notin missed' => event \notin missed
  BY <1>1
<1>5. RelayTypeOK' /\ wire' \in Seq(Events)
  <2>1. Len(wire') <= MaxWire
    <3>1. Len(wire') = 0 /\ 0 <= MaxWire
      BY <1>1, RelayAssumption DEF RelayAssumption
    <3>2. QED
      BY <3>1
  <2>3. wire' \in Seq(Events)
    BY <1>1
  <2>2. missed' \subseteq {"DRONE_STATE", "DROPPY_READY"}
    BY <1>1, <1>2 DEF RelayInv, RelayTypeOK
  <2>4. QED
    BY <1>1, <2>1, <2>2, <2>3
    DEF PanelDisconnects, RelayInv, RelayTypeOK, server
<1>6. QED
  BY <1>1, <1>3, <1>4, <1>5
  DEF RelayInv, ComparesWithTheDrone, PanelIsTold, server

LEMMA PanelReads ==
  ASSUME RelayAssumption, RelayInv, PanelReceives
  PROVE  RelayInv'
<1>1. /\ wire \in Seq(Events) /\ wire # <<>> /\ wire' = Tail(wire)
      /\ UNCHANGED <<server, controls, fakeIndex, panel, missed>>
  BY DEF PanelReceives, RelayInv
<1>2. /\ wire' \in Seq(Events) /\ Head(wire) \in Events
      /\ Len(wire') <= Len(wire)
      /\ \A event, shown, v :
           Tells(wire, event, shown, v) =>
             Tells(wire', event,
                   IF Head(wire).event = event THEN Head(wire).data
                   ELSE shown, v)
  <2>1. wire' \in Seq(Events) /\ Head(wire) \in Events
    BY <1>1
  <2>2. Len(wire') = Len(wire) - 1 /\ Len(wire) \in Nat
    BY <1>1
  <2>3. QED
    BY <1>1, <2>1, <2>2, TellsAfterReading
<1>3. /\ panelState' = IF Head(wire).event = "DRONE_STATE"
                       THEN Head(wire).data ELSE panelState
      /\ panelReady' = IF Head(wire).event = "DROPPY_READY"
                       THEN Head(wire).data ELSE panelReady
      /\ panelReady' \in BOOLEAN
  BY <1>2 DEF PanelReceives, Events, RelayInv, RelayTypeOK
<1>4. RelayTypeOK'
  <2>1. Len(wire) \in Nat /\ Len(wire') \in Nat
    BY <1>1, <1>2
  <2>2. Len(wire') <= MaxWire
    BY <1>2, <2>1, RelayAssumption DEF RelayAssumption, RelayInv, RelayTypeOK
  <2>3. QED
    BY <1>1, <1>3, <2>2 DEF RelayInv, RelayTypeOK, server
<1>5. QED
  BY <1>1, <1>2, <1>3, <1>4
  DEF RelayInv, ComparesWithTheDrone, PanelIsTold, server

LEMMA RestartForgetsThePanel ==
  ASSUME RelayAssumption, RelayInv, RelayServerRestarts
  PROVE  RelayInv'
<1>1. NoReading \notin Readings
  BY DEF NoReading, Readings
<1>2. Len(wire') = 0 /\ 0 <= MaxWire /\ wire' \in Seq(Events)
  BY RelayAssumption DEF RelayAssumption, RelayServerRestarts
<1>3. RelayTypeOK'
  BY <1>2 DEF RelayServerRestarts, RelayInv, RelayTypeOK
<1>4. QED
  BY <1>1, <1>2, <1>3
  DEF RelayServerRestarts, RelayInv, ComparesWithTheDrone, PanelIsTold

LEMMA RelayInvariant ==
  ASSUME RelayAssumption
  PROVE  RelaySpec => []RelayInv
<1>1. RelayInit => RelayInv
  BY RelayInitially
<1>2. ASSUME RelayInv, [RelayNext]_relayVars PROVE RelayInv'
  <2>1. CASE UNCHANGED relayVars
    BY <1>2, <2>1 DEF relayVars, server, RelayInv, RelayTypeOK,
                      ComparesWithTheDrone, PanelIsTold
  <2>2. QED
    BY <1>2, <2>1, RelayHears, RelayDeploys, RelayConnects, PanelLeaves,
       PanelReads, RestartForgetsThePanel DEF RelayNext
<1>3. QED
  BY <1>1, <1>2, PTL DEF RelaySpec

\* For any states of the flight controller and any length of the connection,
\* the panel shows the drone's state and the readiness to drop of the latest
\* frame, unless it missed the event or the server was restarted.
THEOREM PanelIsInformed ==
  ASSUME RelayAssumption
  PROVE  RelaySpec => [](PanelShowsTheDrone /\ PanelShowsReadiness)
<1>1. RelayInv => PanelShowsTheDrone /\ PanelShowsReadiness
  BY LabelIsData DEF RelayInv, ComparesWithTheDrone, PanelIsTold, Tells,
     EndsWith, PanelShowsTheDrone, PanelShowsReadiness
<1>2. QED
  BY <1>1, RelayInvariant, PTL

\* Recorded frames never replace those of a drone, however its connection
\* comes and goes.
THEOREM RecordingStaysAside ==
  ASSUME RelayAssumption
  PROVE  RelaySpec => RecordingNeverHidesTheDrone
<1>1. RelayInv /\ [RelayNext]_relayVars => [KeepsTheDrone]_relayVars
  <2> SUFFICES ASSUME RelayInv, RelayNext, sensors \in Readings
               PROVE  sensors' \notin Fakes
    BY DEF KeepsTheDrone
  <2>1. drone_connected /\ sensors \notin Fakes /\ NoReading \notin Fakes
    BY LabelIsData DEF RelayInv, ComparesWithTheDrone, Fakes, NoReading
  <2>2. ASSUME NEW reading \in Readings, OnSensors(reading)
        PROVE  sensors' \notin Fakes
    BY <2>2, LabelIsData DEF OnSensors
  <2>3. ASSUME NEW deploy \in BOOLEAN, OnOutput(deploy)
        PROVE  sensors' \notin Fakes
    BY <2>1, <2>3 DEF OnOutput
  <2>4. QED
    BY <2>1, <2>2, <2>3
    DEF RelayNext, ProtobufLoaded, ControlsConnects, ControlsDisconnects,
        FakeTelemetry, PanelConnects, PanelDisconnects, PanelReceives,
        RelayServerRestarts, server
<1>2. QED
  BY <1>1, RelayInvariant, PTL DEF RelaySpec, RecordingNeverHidesTheDrone

\* The variables have their types, the panel's connection holds what there is
\* room for, and only events that the panel gets are missed.
THEOREM RelayTypeCorrect ==
  ASSUME RelayAssumption
  PROVE  RelaySpec => []RelayTypeOK
<1>1. RelayInv => RelayTypeOK
  BY DEF RelayInv
<1>2. QED
  BY <1>1, RelayInvariant, PTL

-----------------------------------------------------------------------------
(* Missions on their way.  As long as the operators wait (orderly), at     *)
(* most one message or the answers to it are under way; and then what the  *)
(* one UI that asks for compilations shows, what the compiler has and what *)
(* is under way between them are one program.                              *)

LEMMA AppendIs ==
  ASSUME NEW S, NEW s \in Seq(S), NEW x \in S
  PROVE  /\ Append(s, x) \in Seq(S) /\ Append(s, x) # <<>>
         /\ Len(Append(s, x)) = Len(s) + 1 /\ Len(s) \in Nat
         /\ s = <<>> => Head(Append(s, x)) = x
         /\ \A i \in DOMAIN Append(s, x) :
              Append(s, x)[i] = x
                   \/ (i \in DOMAIN s /\ Append(s, x)[i] = s[i])
<1>1. /\ DOMAIN Append(s, x) = 1 .. Len(s) + 1 /\ DOMAIN s = 1 .. Len(s)
      /\ Len(s) \in Nat
      /\ \A i \in DOMAIN s : Append(s, x)[i] = s[i]
      /\ Append(s, x)[Len(s) + 1] = x
  OBVIOUS
<1>2. /\ Append(s, x) \in Seq(S) /\ Append(s, x) # <<>>
      /\ Len(Append(s, x)) = Len(s) + 1
      /\ s = <<>> => Head(Append(s, x)) = x
  OBVIOUS
<1>3. \A i \in 1 .. Len(s) + 1 : i \in 1 .. Len(s) \/ i = Len(s) + 1
  BY <1>1
<1>4. QED
  BY <1>1, <1>2, <1>3

LEMMA TailIs ==
  ASSUME NEW S, NEW s \in Seq(S), s # <<>>
  PROVE  /\ Tail(s) \in Seq(S) /\ Head(s) \in S
         /\ Len(s) \in Nat /\ Len(Tail(s)) = Len(s) - 1
         /\ Len(s) <= 1 => Tail(s) = <<>>
         /\ \E i \in DOMAIN s : Head(s) = s[i]
         /\ \A i \in DOMAIN Tail(s) : \E j \in DOMAIN s : Tail(s)[i] = s[j]
<1>1. /\ Tail(s) \in Seq(S) /\ Head(s) = s[1] /\ 1 \in DOMAIN s /\ s[1] \in S
      /\ Len(s) \in Nat /\ Len(Tail(s)) = Len(s) - 1
      /\ \A i \in DOMAIN Tail(s) : i + 1 \in DOMAIN s /\ Tail(s)[i] = s[i + 1]
  OBVIOUS
<1>2. Len(s) <= 1 => Tail(s) = <<>>
  OBVIOUS
<1>3. QED
  BY <1>1, <1>2

-----------------------------------------------------------------------------
\* What the compiler publishes is what it is heard to publish.
HeardWasPublished ==
  /\ \A i \in DOMAIN echo : echo[i] \in published
  /\ \A i \in DOMAIN topic : topic[i] \in published
  /\ \A u \in Uis : \A i \in DOMAIN inbox[u] :
       inbox[u][i].msg = "UPLOADED_DRONE_PROGRAM"
         => inbox[u][i].program \in published

\* The dialog that uploads is open only at a compiled plan.
DialogIsForCompiled ==
  \A u \in Uis : modal[u] = "Upload Mission" => missionCompiled[u]

\* As long as the operators wait, there is one message under way, or its
\* answers.
OneAtATime ==
  orderly =>
    /\ \A u \in Uis : Len(outbox[u]) <= 1 /\ Len(inbox[u]) <= 1
    /\ Len(echo) <= 1
    /\ \A u, w \in Uis : outbox[u] # <<>> /\ outbox[w] # <<>> => u = w
    /\ (\E u \in Uis : outbox[u] # <<>>) =>
         echo = <<>> /\ \A w \in Uis : inbox[w] = <<>>
    /\ echo # <<>> => \A w \in Uis : inbox[w] = <<>>

Has(box, msg) == box # <<>> /\ Head(box).msg = msg

\* What is known of the programs at the UI u, if no other asks for one.
KnowsPrograms(u) ==
  /\ missionCompiled[u] =>
       droneProgram[u].compiled /\ droneProgram[u].commands = commands[u]
  /\ missionCompiled[u] /\ ~Has(inbox[u], "COMPILED_DRONE_PROGRAM") =>
       drone_program \in {droneProgram[u], NoProgram}
  /\ \A w \in Uis : Has(outbox[w], "COMPILE_GROUND_PROGRAM") =>
       w = u /\ Head(outbox[w]).program.commands = commands[u]
  /\ Has(inbox[u], "COMPILED_DRONE_PROGRAM") =>
       /\ Head(inbox[u]).program.compiled
       /\ Head(inbox[u]).program.commands = commands[u]
       /\ drone_program \in {Head(inbox[u]).program, NoProgram}
  /\ Has(inbox[u], "UPLOADED_DRONE_PROGRAM") /\ missionCompiled[u] =>
       Head(inbox[u]).program = droneProgram[u]
  /\ echo # <<>> /\ missionCompiled[u] => Head(echo) = droneProgram[u]
  /\ Has(outbox[u], "UPLOAD_MISSION") =>
       drone_program \in {Head(outbox[u]).program, NoProgram}

OnlyAuthorKnows ==
  orderly => \A u \in Uis : authors \subseteq {u} => KnowsPrograms(u)

UploadInv ==
  /\ UploadTypeOK /\ HeardWasPublished /\ UploadedWasPublished
  /\ DialogIsForCompiled /\ OneAtATime /\ OnlyAuthorKnows

\* The invariant gives the properties.
LEMMA UploadInvImplies ==
  ASSUME UploadAssumption, UploadInv
  PROVE  CompiledIsThePlan /\ UploadsTheShown /\ UploadedWasPublished
<1>1. ASSUME OneCarefulOperator, NEW u \in authors
      PROVE  orderly /\ u \in Uis /\ authors \subseteq {u}
  <2>1. /\ authors \subseteq Uis /\ IsFiniteSet(authors)
        /\ Cardinality(authors) <= 1
        /\ orderly
    BY <1>1, FS_Subset DEF UploadInv, UploadTypeOK, UploadAssumption,
         OneCarefulOperator
  <2>2. ASSUME NEW w \in authors, w # u PROVE FALSE
    <3>1. IsFiniteSet({u, w}) /\ Cardinality({u, w}) = 2
      <4>1. IsFiniteSet({u}) /\ Cardinality({u}) = 1
        BY FS_Singleton
      <4>2. {u} \cup {w} = {u, w}
        OBVIOUS
      <4>3. QED
        BY <2>2, <4>1, <4>2, FS_AddElement
    <3>2. Cardinality({u, w}) <= Cardinality(authors)
      BY <2>1, FS_Subset
    <3>3. Cardinality(authors) \in Nat
      BY <2>1, FS_CardinalityType
    <3>4. QED
      BY <2>1, <3>1, <3>2, <3>3
  <2>3. QED
    BY <2>1, <2>2
<1>2. ASSUME OneCarefulOperator, NEW u \in authors
      PROVE  KnowsPrograms(u)
  BY <1>1, <1>2 DEF UploadInv, OnlyAuthorKnows
<1>3. QED
  BY <1>2 DEF UploadInv, CompiledIsThePlan, UploadsTheShown, KnowsPrograms,
       Has

LEMMA UploadTypes ==
  ASSUME UploadAssumption, UploadInv
  PROVE  /\ MaxEdits \in Nat /\ MaxOrders \in Nat /\ MaxQueue \in Nat
         /\ MaxQueue >= 1
         /\ edits \in 0 .. MaxEdits /\ orders \in 0 .. MaxOrders
         /\ \A u \in Uis : commands[u] \in 0 .. edits
         /\ \A u \in Uis :
              outbox[u] \in Seq(Messages) /\ inbox[u] \in Seq(Messages)
         /\ topic \in Seq(Programs) /\ echo \in Seq(Programs)
         /\ orderly \in BOOLEAN
<1>1. /\ MaxEdits \in Nat /\ MaxOrders \in Nat /\ MaxQueue \in Nat
      /\ MaxQueue # 0
  BY DEF UploadAssumption
<1>2. MaxQueue >= 1
  BY <1>1
<1>3. QED
  BY <1>1, <1>2 DEF UploadInv, UploadTypeOK

LEMMA UploadInitially == ASSUME UploadAssumption, UploadInit PROVE UploadInv
<1>1. << >> \in Seq(Messages) /\ << >> \in Seq(Programs) /\ Len(<< >>) = 0
        /\ DOMAIN << >> = {}
  OBVIOUS
<1>2. UploadTypeOK
  BY <1>1 DEF UploadInit, UploadTypeOK, UploadAssumption
<1>3. QED
  BY <1>1, <1>2 DEF UploadInit, UploadInv, HeardWasPublished,
       UploadedWasPublished, DialogIsForCompiled, OneAtATime, OnlyAuthorKnows,
       KnowsPrograms, Has, NoProgram

-----------------------------------------------------------------------------
(* The operators' steps.                                                   *)

LEMMA StoreStep ==
  ASSUME UploadAssumption, UploadInv, NEW u \in Uis, Edit(u) \/ ResetStore(u)
  PROVE  UploadInv'
<1>1. /\ UNCHANGED <<modal, connected, outbox, inbox, fieldKnown,
                     drone_program, topic, echo, published, orders,
                     authors>>
      /\ modal[u] = "closed" /\ orderly' = (orderly /\ Quiet)
      /\ missionCompiled' = [missionCompiled EXCEPT ![u] = FALSE]
      /\ \A w \in Uis : w # u
           => commands'[w] = commands[w] /\ droneProgram'[w] = droneProgram[w]
      /\ \A w \in Uis : missionUploaded'[w]
           => missionUploaded[w] /\ droneProgram'[w] = droneProgram[w]
  BY DEF Edit, ResetStore, queueVars, rosVars, UploadInv, UploadTypeOK
<1>2. UploadTypeOK'
  <2>1. /\ commands' \in [Uis -> 0 .. edits'] /\ edits' \in 0 .. MaxEdits
        /\ missionUploaded' \in [Uis -> BOOLEAN]
        /\ droneProgram' \in [Uis -> Programs \union {NoProgram}]
    <3>1. CASE Edit(u)
      <4>1. edits + 1 \in 0 .. MaxEdits /\ edits + 1 \in 0 .. edits + 1
              /\ 0 .. edits \subseteq 0 .. edits + 1
        <5>1. edits < MaxEdits
          BY <3>1 DEF Edit
        <5>2. QED
          BY <5>1, UploadTypes
      <4>2. QED
        BY <3>1, <4>1 DEF Edit, UploadInv, UploadTypeOK
    <3>2. CASE ResetStore(u)
      <4>1. 0 \in 0 .. edits
        BY UploadTypes
      <4>2. QED
        BY <3>2, <4>1 DEF ResetStore, UploadInv, UploadTypeOK
    <3>3. QED
      BY <3>1, <3>2
  <2>2. missionCompiled' \in [Uis -> BOOLEAN] /\ orderly' \in BOOLEAN
    BY <1>1 DEF UploadInv, UploadTypeOK
  <2>3. QED
    BY <1>1, <2>1, <2>2 DEF UploadInv, UploadTypeOK
<1>3. HeardWasPublished' /\ UploadedWasPublished' /\ OneAtATime'
  BY <1>1 DEF UploadInv, HeardWasPublished, UploadedWasPublished, OneAtATime
<1>4. DialogIsForCompiled'
  BY <1>1 DEF UploadInv, UploadTypeOK, DialogIsForCompiled
<1>5. OnlyAuthorKnows'
  <2> SUFFICES ASSUME orderly', NEW w \in Uis, authors \subseteq {w}
               PROVE  KnowsPrograms(w)'
    BY <1>1 DEF OnlyAuthorKnows
  <2>1. /\ KnowsPrograms(w) /\ Quiet
    BY <1>1 DEF UploadInv, OnlyAuthorKnows
  <2>2. /\ ~missionCompiled'[u]
        /\ w # u => missionCompiled'[w] = missionCompiled[w]
    BY <1>1 DEF UploadInv, UploadTypeOK
  <2>3. QED
    BY <1>1, <2>1, <2>2 DEF KnowsPrograms, Quiet, Has
<1>6. QED
  BY <1>2, <1>3, <1>4, <1>5 DEF UploadInv

LEMMA DialogStep ==
  ASSUME UploadAssumption, UploadInv, NEW u \in Uis,
         OpenDialog(u) \/ CancelDialog(u)
  PROVE  UploadInv'
<1>1. UNCHANGED <<commands, missionCompiled, missionUploaded, droneProgram,
                  connected, outbox, inbox, fieldKnown, drone_program, topic,
                  echo, published, edits, orders, authors, orderly>>
  BY DEF OpenDialog, CancelDialog, storeVars, queueVars, rosVars
<1>2. UploadTypeOK' /\ DialogIsForCompiled'
  BY <1>1 DEF OpenDialog, CancelDialog, UploadInv, UploadTypeOK,
       DialogIsForCompiled
<1>3. QED
  BY <1>1, <1>2 DEF UploadInv, HeardWasPublished, UploadedWasPublished,
     OneAtATime, OnlyAuthorKnows, KnowsPrograms

LEMMA ConfirmStep ==
  ASSUME UploadAssumption, UploadInv, NEW u \in Uis,
         CompileMission(u) \/ UploadMission(u)
  PROVE  UploadInv'
<1>1. PICK m \in Messages :
        /\ outbox' = [outbox EXCEPT ![u] = Append(outbox[u], m)]
        /\ \/ /\ m.msg = "COMPILE_GROUND_PROGRAM"
              /\ m.program.commands = commands[u] /\ u \in authors'
           \/ /\ m.msg = "UPLOAD_MISSION" /\ m.program = droneProgram[u]
              /\ missionCompiled[u]
  <2>1. CASE CompileMission(u)
    <3>1. CompileOf(commands[u], FALSE) \in Programs
      <4>1. commands[u] \in 0 .. MaxEdits
        BY UploadTypes
      <4>2. QED
        BY <4>1 DEF CompileOf, Programs
    <3>2. Message("COMPILE_GROUND_PROGRAM", CompileOf(commands[u], FALSE))
            \in Messages
      BY <3>1 DEF Message, Messages
    <3>3. QED
      BY <2>1, <3>2 DEF CompileMission, Confirm, Message, CompileOf
  <2>2. CASE UploadMission(u)
    <3>1. Message("UPLOAD_MISSION", droneProgram[u]) \in Messages
      BY DEF Message, Messages, UploadInv, UploadTypeOK
    <3>2. QED
      BY <2>2, <3>1 DEF UploadMission, Confirm, Message, UploadInv,
           DialogIsForCompiled
  <2>3. QED
    BY <2>1, <2>2
<1>2. /\ UNCHANGED <<commands, missionCompiled, missionUploaded, droneProgram,
                  connected, inbox, fieldKnown, drone_program,
                  topic, echo, published, edits>>
      /\ modal' = [modal EXCEPT ![u] = "closed"]
      /\ orders < MaxOrders /\ Len(outbox[u]) < MaxQueue
      /\ orders' = orders + 1
      /\ orderly' = (orderly /\ Quiet)
      /\ authors \subseteq authors' /\ authors' \subseteq Uis
  BY DEF CompileMission, UploadMission, Confirm, storeVars, rosVars,
       UploadInv, UploadTypeOK
<1> DEFINE next == Append(outbox[u], m)
<1>3. /\ next \in Seq(Messages) /\ next # <<>>
      /\ Len(next) = Len(outbox[u]) + 1
      /\ Len(outbox[u]) \in Nat
      /\ outbox[u] = <<>> => Head(next) = m
  <2>1. outbox[u] \in Seq(Messages)
    BY UploadTypes
  <2>2. QED
    BY <2>1, AppendIs
<1>4. /\ outbox' = [outbox EXCEPT ![u] = next]
      /\ outbox \in [Uis -> Seq(Messages)]
  BY <1>1 DEF UploadInv, UploadTypeOK
<1> HIDE DEF next
<1>5. UploadTypeOK'
  <2>1. orders' \in 0 .. MaxOrders /\ orderly' \in BOOLEAN
    BY <1>2, UploadTypes
  <2>2. Len(next) <= MaxQueue
    BY <1>2, <1>3, UploadTypes
  <2>3. /\ outbox' \in [Uis -> Seq(Messages)]
        /\ \A w \in Uis : Len(outbox'[w]) <= MaxQueue
    BY <1>3, <1>4, <2>2 DEF UploadInv, UploadTypeOK
  <2>4. modal' \in [Uis -> {"closed", "Compile Mission", "Upload Mission"}]
    BY <1>2 DEF UploadInv, UploadTypeOK
  <2>5. QED
    BY <1>2, <2>1, <2>3, <2>4 DEF UploadInv, UploadTypeOK
<1>6. HeardWasPublished' /\ UploadedWasPublished'
  BY <1>2 DEF UploadInv, HeardWasPublished, UploadedWasPublished
<1>7. DialogIsForCompiled'
  BY <1>2 DEF UploadInv, UploadTypeOK, DialogIsForCompiled
<1>8. orderly' => /\ orderly /\ echo = <<>>
                  /\ \A w \in Uis : outbox[w] = <<>> /\ inbox[w] = <<>>
                  /\ \A w \in Uis : w # u => outbox'[w] = <<>>
                  /\ outbox'[u] = next /\ Len(next) = 1 /\ Head(next) = m
  <2>1. Len(<< >>) = 0
    OBVIOUS
  <2>2. orderly' => orderly /\ Quiet
    BY <1>2, UploadTypes
  <2>3. /\ \A w \in Uis : w # u => outbox'[w] = outbox[w]
        /\ outbox'[u] = next
    BY <1>4
  <2>4. outbox[u] = <<>> => Len(next) = 1 /\ Head(next) = m
    BY <1>3, <2>1
  <2>5. QED
    BY <2>2, <2>3, <2>4 DEF Quiet
<1>9. OneAtATime'
  <2>1. Len(<< >>) = 0 /\ 0 <= 1 /\ 1 <= 1
    OBVIOUS
  <2>2. QED
    BY <1>2, <1>8, <2>1 DEF OneAtATime
<1>10. OnlyAuthorKnows'
  <2> SUFFICES ASSUME orderly', NEW w \in Uis, authors' \subseteq {w}
               PROVE  KnowsPrograms(w)'
    BY DEF OnlyAuthorKnows
  <2>1. KnowsPrograms(w)
    BY <1>2, <1>8 DEF UploadInv, OnlyAuthorKnows
  <2>2. \A v \in Uis : outbox'[v] # <<>> => v = u /\ Head(outbox'[v]) = m
    BY <1>8
  <2>3. m.msg = "COMPILE_GROUND_PROGRAM" => u = w
    BY <1>1
  <2>4. QED
    BY <1>1, <1>2, <1>8, <2>1, <2>2, <2>3 DEF KnowsPrograms, Has
<1>11. QED
  BY <1>5, <1>6, <1>7, <1>9, <1>10 DEF UploadInv

-----------------------------------------------------------------------------
(* The ground server and the compiler.                                     *)

\* Taking the first message out of a UI's queue.
LEMMA OneLess ==
  ASSUME NEW q \in [Uis -> Seq(Messages)], NEW u \in Uis, q[u] # <<>>,
         NEW r, r = [q EXCEPT ![u] = Tail(q[u])]
  PROVE  /\ r \in [Uis -> Seq(Messages)] /\ Head(q[u]) \in Messages
         /\ \A n \in Nat : (\A w \in Uis : Len(q[w]) <= n)
              => \A w \in Uis : Len(r[w]) <= n
         /\ \A w \in Uis : w # u => r[w] = q[w]
         /\ Len(q[u]) <= 1 => r[u] = <<>>
         /\ \A w \in Uis : \A i \in DOMAIN r[w] : \E j \in DOMAIN q[w] :
              r[w][i] = q[w][j]
         /\ \E i \in DOMAIN q[u] : Head(q[u]) = q[u][i]
<1>1. q[u] \in Seq(Messages)
  OBVIOUS
<1> DEFINE t == Tail(q[u])
<1>2. /\ t \in Seq(Messages) /\ Head(q[u]) \in Messages
      /\ Len(q[u]) \in Nat /\ Len(t) = Len(q[u]) - 1
      /\ Len(q[u]) <= 1 => t = <<>>
      /\ \E i \in DOMAIN q[u] : Head(q[u]) = q[u][i]
      /\ \A i \in DOMAIN t : \E j \in DOMAIN q[u] : t[i] = q[u][j]
  BY <1>1, TailIs
<1>3. r = [q EXCEPT ![u] = t]
  OBVIOUS
<1> HIDE DEF t
<1>4. /\ r \in [Uis -> Seq(Messages)] /\ r[u] = t
      /\ \A w \in Uis : w # u => r[w] = q[w]
  BY <1>2, <1>3
<1>5. \A n \in Nat : (\A w \in Uis : Len(q[w]) <= n)
           => \A w \in Uis : Len(r[w]) <= n
  <2> TAKE n \in Nat
  <2>1. Len(q[u]) <= n => Len(t) <= n
    BY <1>2
  <2>2. QED
    BY <1>4, <2>1
<1>6. \A w \in Uis : \A i \in DOMAIN r[w] : \E j \in DOMAIN q[w] :
           r[w][i] = q[w][j]
  <2> TAKE w \in Uis
  <2>1. CASE w = u
    BY <1>2, <1>4, <2>1
  <2>2. CASE w # u
    <3>1. r[w] = q[w]
      BY <1>4, <2>2
    <3>2. QED
      BY <3>1
  <2>3. QED
    BY <2>1, <2>2
<1>7. QED
  BY <1>2, <1>4, <1>5, <1>6

\* Sending one to all that are connected.
LEMMA OneMore ==
  ASSUME NEW m \in Messages, CanBroadcast, inbox \in [Uis -> Seq(Messages)],
         MaxQueue \in Nat, \A u \in Uis : Len(inbox[u]) <= MaxQueue,
         inbox' = Broadcast(inbox, m)
  PROVE  /\ inbox' \in [Uis -> Seq(Messages)]
         /\ \A u \in Uis : Len(inbox'[u]) <= MaxQueue
         /\ \A u \in Uis : inbox[u] = <<>> =>
              /\ Len(inbox'[u]) <= 1
              /\ inbox'[u] # <<>> => Head(inbox'[u]) = m
              /\ connected[u] => inbox'[u] # <<>>
         /\ \A u \in Uis : \A i \in DOMAIN inbox'[u] :
              inbox'[u][i] = m \/ \E j \in DOMAIN inbox[u] :
                   inbox'[u][i] = inbox[u][j]
<1>1. ASSUME NEW u \in Uis
      PROVE  /\ inbox'[u] \in Seq(Messages) /\ Len(inbox'[u]) <= MaxQueue
             /\ inbox[u] = <<>> =>
                  /\ Len(inbox'[u]) <= 1
                  /\ inbox'[u] # <<>> => Head(inbox'[u]) = m
                  /\ connected[u] => inbox'[u] # <<>>
             /\ \A i \in DOMAIN inbox'[u] :
                  inbox'[u][i] = m \/ \E j \in DOMAIN inbox[u] :
                       inbox'[u][i] = inbox[u][j]
  <2> DEFINE more == Append(inbox[u], m)
  <2>1. inbox[u] \in Seq(Messages)
    OBVIOUS
  <2>2. /\ more \in Seq(Messages) /\ more # <<>>
        /\ Len(more) = Len(inbox[u]) + 1 /\ Len(inbox[u]) \in Nat
        /\ inbox[u] = <<>> => Head(more) = m
        /\ \A i \in DOMAIN more :
             more[i] = m \/ (i \in DOMAIN inbox[u] /\ more[i] = inbox[u][i])
    BY <2>1, AppendIs
  <2>3. inbox'[u] = IF connected[u] THEN more ELSE inbox[u]
    BY DEF Broadcast
  <2> HIDE DEF more
  <2>4. Len(<< >>) = 0
    OBVIOUS
  <2>5. Len(inbox[u]) < MaxQueue
    BY DEF CanBroadcast
  <2>6. Len(more) <= MaxQueue
    BY <2>2, <2>5
  <2>7. inbox[u] = <<>> => Len(more) <= 1
    <3>1. inbox[u] = <<>> => Len(inbox[u]) = 0
      BY <2>4
    <3>2. QED
      BY <2>2, <3>1
  <2>8. CASE connected[u]
    <3>1. inbox'[u] = more
      BY <2>3, <2>8
    <3>2. QED
      BY <2>2, <2>6, <2>7, <3>1
  <2>9. CASE ~connected[u]
    <3>1. inbox'[u] = inbox[u]
      BY <2>3, <2>9
    <3>2. inbox[u] = <<>> => Len(inbox[u]) <= 1
      BY <2>4
    <3>3. QED
      BY <2>1, <2>9, <3>1, <3>2
  <2>10. QED
    BY <2>8, <2>9
<1>2. inbox' \in [Uis -> Seq(Messages)]
  <2>1. \A u \in Uis : inbox'[u] \in Seq(Messages)
    BY <1>1
  <2>2. inbox' = [u \in Uis |-> inbox'[u]]
    BY DEF Broadcast
  <2>3. QED
    BY <2>1, <2>2
<1>3. QED
  BY <1>1, <1>2

LEMMA CompileStep ==
  ASSUME UploadAssumption, UploadInv, NEW u \in Uis, Compile(u)
  PROVE  UploadInv'
<1> DEFINE program == CompileOf(Head(outbox[u]).program.commands, fieldKnown)
           m == Message("COMPILED_DRONE_PROGRAM", program)
<1>1. /\ UNCHANGED <<commands, missionCompiled, missionUploaded, droneProgram,
           modal, connected, fieldKnown, topic, echo, published,
           edits, orders, authors, orderly>>
      /\ connected[u] /\ outbox[u] # <<>>
      /\ Head(outbox[u]).msg = "COMPILE_GROUND_PROGRAM" /\ CanBroadcast
      /\ drone_program' = program /\ inbox' = Broadcast(inbox, m)
      /\ outbox' = [outbox EXCEPT ![u] = Tail(outbox[u])]
  BY DEF Compile, storeVars, rosVars
<1>2. /\ outbox \in [Uis -> Seq(Messages)] /\ inbox \in [Uis -> Seq(Messages)]
      /\ \A w \in Uis : Len(outbox[w]) <= MaxQueue
      /\ \A w \in Uis : Len(inbox[w]) <= MaxQueue
      /\ fieldKnown \in BOOLEAN
  BY DEF UploadInv, UploadTypeOK, UploadAssumption
<1>3. /\ outbox' \in [Uis -> Seq(Messages)] /\ Head(outbox[u]) \in Messages
      /\ \A w \in Uis : Len(outbox'[w]) <= MaxQueue
      /\ \A w \in Uis : w # u => outbox'[w] = outbox[w]
      /\ Len(outbox[u]) <= 1 => outbox'[u] = <<>>
  BY <1>1, <1>2, OneLess, UploadTypes
<1>4. /\ program \in Programs /\ m \in Messages
      /\ m.msg = "COMPILED_DRONE_PROGRAM"
      /\ m.program = program /\ program.compiled
      /\ program.commands = Head(outbox[u]).program.commands
  <2>1. Head(outbox[u]).program.commands \in 0 .. MaxEdits
    <3>1. Head(outbox[u]).program \in Programs \union {NoProgram}
      BY <1>3 DEF Messages
    <3>2. 0 \in 0 .. MaxEdits
      BY UploadTypes
    <3>3. NoProgram.commands \in 0 .. MaxEdits
      BY <3>2 DEF NoProgram
    <3>4. \A p \in Programs : p.commands \in 0 .. MaxEdits
      BY DEF Programs
    <3>5. QED
      BY <3>1, <3>3, <3>4
  <2>2. program \in Programs /\ program.compiled
        /\ program.commands = Head(outbox[u]).program.commands
    BY <1>2, <2>1 DEF CompileOf, Programs
  <2> HIDE DEF program
  <2>3. QED
    BY <2>2 DEF Message, Messages
<1> HIDE DEF program, m
<1>5. /\ inbox' \in [Uis -> Seq(Messages)]
      /\ \A w \in Uis : Len(inbox'[w]) <= MaxQueue
      /\ \A w \in Uis : inbox[w] = <<>> =>
           /\ Len(inbox'[w]) <= 1
           /\ inbox'[w] # <<>> => Head(inbox'[w]) = m
           /\ connected[w] => inbox'[w] # <<>>
      /\ \A w \in Uis : \A i \in DOMAIN inbox'[w] :
           inbox'[w][i] = m \/ \E j \in DOMAIN inbox[w] :
                inbox'[w][i] = inbox[w][j]
  BY <1>1, <1>2, <1>4, OneMore, UploadTypes
<1>6. UploadTypeOK'
  BY <1>1, <1>3, <1>4, <1>5 DEF UploadInv, UploadTypeOK
<1>7. HeardWasPublished' /\ UploadedWasPublished' /\ DialogIsForCompiled'
  <2>1. UploadedWasPublished' /\ DialogIsForCompiled'
    BY <1>1 DEF UploadInv, UploadedWasPublished, DialogIsForCompiled
  <2>2. HeardWasPublished
    BY DEF UploadInv
  <2>3. ASSUME NEW w \in Uis, NEW i \in DOMAIN inbox'[w],
               inbox'[w][i].msg = "UPLOADED_DRONE_PROGRAM"
        PROVE  inbox'[w][i].program \in published
    <3>1. PICK j \in DOMAIN inbox[w] : inbox'[w][i] = inbox[w][j]
      BY <1>4, <1>5, <2>3
    <3>2. QED
      BY <2>2, <2>3, <3>1 DEF HeardWasPublished
  <2>4. QED
    BY <1>1, <2>1, <2>2, <2>3 DEF HeardWasPublished
<1>8. orderly => /\ echo = <<>>
                 /\ \A w \in Uis : outbox'[w] = <<>> /\ inbox[w] = <<>>
                 /\ \A w \in Uis : outbox[w] # <<>> => w = u
  BY <1>1, <1>3 DEF UploadInv, OneAtATime
<1>9. OneAtATime'
  <2>1. Len(<< >>) = 0 /\ 0 <= 1
    OBVIOUS
  <2>2. QED
    BY <1>1, <1>5, <1>8, <2>1 DEF OneAtATime
<1>10. OnlyAuthorKnows'
  <2> SUFFICES ASSUME orderly', NEW w \in Uis, authors' \subseteq {w}
               PROVE  KnowsPrograms(w)'
    BY DEF OnlyAuthorKnows
  <2>1. KnowsPrograms(w) /\ orderly
    BY <1>1 DEF UploadInv, OnlyAuthorKnows
  <2>2. w = u /\ program.commands = commands[u]
    BY <1>1, <1>4, <2>1 DEF KnowsPrograms, Has
  <2>3. inbox'[u] # <<>> /\ Head(inbox'[u]) = m
    BY <1>1, <1>5, <1>8, <2>1
  <2>4. QED
    BY <1>1, <1>4, <1>8, <2>1, <2>2, <2>3 DEF KnowsPrograms, Has
<1>11. QED
  BY <1>6, <1>7, <1>9, <1>10 DEF UploadInv

LEMMA PublishStep ==
  ASSUME UploadAssumption, UploadInv, NEW u \in Uis, Upload(u)
  PROVE  UploadInv'
<1>1. /\ UNCHANGED <<commands, missionCompiled, missionUploaded, droneProgram,
           modal, connected, inbox, fieldKnown, drone_program,
           edits, orders, authors, orderly>>
      /\ outbox[u] # <<>>
      /\ outbox' = [outbox EXCEPT ![u] = Tail(outbox[u])]
      /\ Len(topic) < MaxQueue /\ Len(echo) < MaxQueue
      /\ \/ /\ drone_program.compiled
            /\ topic' = Append(topic, drone_program)
            /\ echo' = Append(echo, drone_program)
            /\ published' = published \union {drone_program}
         \/ UNCHANGED <<topic, echo, published>>
  BY DEF Upload, storeVars
<1>2. /\ outbox \in [Uis -> Seq(Messages)]
      /\ \A w \in Uis : Len(outbox[w]) <= MaxQueue
      /\ drone_program.compiled
           => drone_program \in Programs /\ drone_program # NoProgram
  <2>1. ~NoProgram.compiled
    BY DEF NoProgram
  <2>2. QED
    BY <2>1 DEF UploadInv, UploadTypeOK
<1>3. /\ outbox' \in [Uis -> Seq(Messages)]
      /\ \A w \in Uis : Len(outbox'[w]) <= MaxQueue
      /\ \A w \in Uis : w # u => outbox'[w] = outbox[w]
      /\ Len(outbox[u]) <= 1 => outbox'[u] = <<>>
  BY <1>1, <1>2, OneLess, UploadTypes
<1>4. orderly => /\ echo = <<>>
                 /\ \A w \in Uis : outbox'[w] = <<>> /\ inbox[w] = <<>>
                 /\ \A w \in Uis : outbox[w] # <<>> => w = u
  BY <1>1, <1>3 DEF UploadInv, OneAtATime
<1>5. CASE UNCHANGED <<topic, echo, published>>
  <2>1. UploadTypeOK'
    BY <1>1, <1>3, <1>5 DEF UploadInv, UploadTypeOK
  <2>2. HeardWasPublished' /\ UploadedWasPublished' /\ DialogIsForCompiled'
    BY <1>1, <1>5 DEF UploadInv, HeardWasPublished, UploadedWasPublished,
         DialogIsForCompiled
  <2>3. Len(<< >>) = 0 /\ 0 <= 1
    OBVIOUS
  <2>4. OneAtATime'
    BY <1>1, <1>4, <1>5, <2>3 DEF OneAtATime
  <2>5. OnlyAuthorKnows'
    BY <1>1, <1>4, <1>5 DEF UploadInv, OnlyAuthorKnows, KnowsPrograms, Has
  <2>6. QED
    BY <2>1, <2>2, <2>4, <2>5 DEF UploadInv
<1>6. CASE /\ drone_program.compiled
           /\ topic' = Append(topic, drone_program)
           /\ echo' = Append(echo, drone_program)
           /\ published' = published \union {drone_program}
  <2>1. \A s \in {topic, echo} :
          LET t == Append(s, drone_program)
          IN  /\ t \in Seq(Programs) /\ t # <<>>
              /\ Len(t) = Len(s) + 1 /\ Len(s) \in Nat
              /\ s = <<>> => Head(t) = drone_program
              /\ \A i \in DOMAIN t :
                   t[i] = drone_program \/ (i \in DOMAIN s /\ t[i] = s[i])
    BY <1>2, <1>6, AppendIs, UploadTypes
  <2>2. /\ topic' \in Seq(Programs) /\ echo' \in Seq(Programs) /\ echo' # <<>>
        /\ Len(topic') = Len(topic) + 1 /\ Len(echo') = Len(echo) + 1
        /\ Len(topic) \in Nat /\ Len(echo) \in Nat
        /\ echo = <<>> => Head(echo') = drone_program
        /\ \A i \in DOMAIN topic' : topic'[i] = drone_program
             \/ (i \in DOMAIN topic /\ topic'[i] = topic[i])
        /\ \A i \in DOMAIN echo' : echo'[i] = drone_program
             \/ (i \in DOMAIN echo /\ echo'[i] = echo[i])
    BY <1>6, <2>1
  <2>3. Len(topic') <= MaxQueue /\ Len(echo') <= MaxQueue
    BY <1>1, <2>2, UploadTypes
  <2>4. UploadTypeOK'
    BY <1>1, <1>2, <1>3, <1>6, <2>2, <2>3 DEF UploadInv, UploadTypeOK
  <2>5. HeardWasPublished' /\ UploadedWasPublished' /\ DialogIsForCompiled'
    BY <1>1, <1>6, <2>2 DEF UploadInv, HeardWasPublished,
         UploadedWasPublished, DialogIsForCompiled
  <2>6. Len(<< >>) = 0 /\ 0 <= 1 /\ 0 + 1 = 1
    OBVIOUS
  <2>7. OneAtATime'
    <3>1. echo = <<>> => Len(echo) = 0
      BY <2>6
    <3>2. echo = <<>> => Len(echo') <= 1
      BY <2>2, <3>1
    <3>3. QED
      BY <1>1, <1>4, <2>6, <3>2 DEF OneAtATime
  <2>8. OnlyAuthorKnows'
    BY <1>1, <1>2, <1>4, <1>6, <2>2 DEF UploadInv, OnlyAuthorKnows,
         KnowsPrograms, Has
  <2>9. QED
    BY <2>4, <2>5, <2>7, <2>8 DEF UploadInv
<1>7. QED
  BY <1>1, <1>5, <1>6

LEMMA EchoStep ==
  ASSUME UploadAssumption, UploadInv, DroneProgramReceived
  PROVE  UploadInv'
<1> DEFINE m == Message("UPLOADED_DRONE_PROGRAM", Head(echo))
<1>1. /\ UNCHANGED <<commands, missionCompiled, missionUploaded, droneProgram,
           modal, connected, outbox, fieldKnown, drone_program, topic,
           published, edits, orders, authors, orderly>>
      /\ echo # <<>> /\ CanBroadcast
      /\ echo' = Tail(echo) /\ inbox' = Broadcast(inbox, m)
  BY DEF DroneProgramReceived, storeVars
<1>2. /\ echo' \in Seq(Programs) /\ Len(echo') <= MaxQueue
      /\ Head(echo) \in Programs
      /\ Len(echo) <= 1 => echo' = <<>>
      /\ \E i \in DOMAIN echo : Head(echo) = echo[i]
      /\ \A i \in DOMAIN echo' : \E j \in DOMAIN echo : echo'[i] = echo[j]
  <2>1. /\ echo' \in Seq(Programs) /\ Head(echo) \in Programs
        /\ Len(echo) \in Nat /\ Len(echo') = Len(echo) - 1
        /\ Len(echo) <= 1 => echo' = <<>>
        /\ \E i \in DOMAIN echo : Head(echo) = echo[i]
        /\ \A i \in DOMAIN echo' : \E j \in DOMAIN echo : echo'[i] = echo[j]
    BY <1>1, TailIs, UploadTypes
  <2>2. Len(echo) <= MaxQueue
    BY DEF UploadInv, UploadTypeOK
  <2>3. Len(echo') <= MaxQueue
    BY <2>1, <2>2, UploadTypes
  <2>4. QED
    BY <2>1, <2>3
<1>3. /\ m \in Messages /\ m.msg = "UPLOADED_DRONE_PROGRAM"
      /\ m.program = Head(echo)
  BY <1>2 DEF Message, Messages
<1> HIDE DEF m
<1>4. /\ inbox \in [Uis -> Seq(Messages)]
      /\ \A w \in Uis : Len(inbox[w]) <= MaxQueue
  BY DEF UploadInv, UploadTypeOK
<1>5. /\ inbox' \in [Uis -> Seq(Messages)]
      /\ \A w \in Uis : Len(inbox'[w]) <= MaxQueue
      /\ \A w \in Uis : inbox[w] = <<>> =>
           /\ Len(inbox'[w]) <= 1
           /\ inbox'[w] # <<>> => Head(inbox'[w]) = m
           /\ connected[w] => inbox'[w] # <<>>
      /\ \A w \in Uis : \A i \in DOMAIN inbox'[w] :
           inbox'[w][i] = m \/ \E j \in DOMAIN inbox[w] :
                inbox'[w][i] = inbox[w][j]
  BY <1>1, <1>3, <1>4, OneMore, UploadTypes
<1>6. UploadTypeOK'
  BY <1>1, <1>2, <1>5 DEF UploadInv, UploadTypeOK
<1>7. HeardWasPublished' /\ UploadedWasPublished' /\ DialogIsForCompiled'
  <2>1. UploadedWasPublished' /\ DialogIsForCompiled'
    BY <1>1 DEF UploadInv, UploadedWasPublished, DialogIsForCompiled
  <2>2. HeardWasPublished
    BY DEF UploadInv
  <2>3. Head(echo) \in published
    BY <1>2, <2>2 DEF HeardWasPublished
  <2>4. ASSUME NEW w \in Uis, NEW i \in DOMAIN inbox'[w],
               inbox'[w][i].msg = "UPLOADED_DRONE_PROGRAM"
        PROVE  inbox'[w][i].program \in published
    <3>1. CASE inbox'[w][i] = m
      BY <1>3, <2>3, <3>1
    <3>2. CASE inbox'[w][i] # m
      <4>1. PICK j \in DOMAIN inbox[w] : inbox'[w][i] = inbox[w][j]
        BY <1>5, <3>2
      <4>2. QED
        BY <2>2, <2>4, <4>1 DEF HeardWasPublished
    <3>3. QED
      BY <3>1, <3>2
  <2>5. \A i \in DOMAIN echo' : echo'[i] \in published
    BY <1>2, <2>2 DEF HeardWasPublished
  <2>6. QED
    BY <1>1, <2>1, <2>2, <2>4, <2>5 DEF HeardWasPublished
<1>8. orderly => /\ echo' = <<>>
                 /\ \A w \in Uis : outbox[w] = <<>> /\ inbox[w] = <<>>
  BY <1>1, <1>2 DEF UploadInv, OneAtATime
<1>9. OneAtATime'
  <2>1. Len(<< >>) = 0 /\ 0 <= 1
    OBVIOUS
  <2>2. QED
    BY <1>1, <1>5, <1>8, <2>1 DEF OneAtATime
<1>10. OnlyAuthorKnows'
  <2> SUFFICES ASSUME orderly', NEW w \in Uis, authors' \subseteq {w}
               PROVE  KnowsPrograms(w)'
    BY DEF OnlyAuthorKnows
  <2>1. KnowsPrograms(w) /\ orderly
    BY <1>1 DEF UploadInv, OnlyAuthorKnows
  <2>2. inbox'[w] # <<>> => Head(inbox'[w]) = m
    BY <1>5, <1>8, <2>1
  <2>3. QED
    BY <1>1, <1>3, <1>8, <2>1, <2>2 DEF KnowsPrograms, Has
<1>11. QED
  BY <1>6, <1>7, <1>9, <1>10 DEF UploadInv

LEMMA LoopStep ==
  ASSUME UploadAssumption, UploadInv, FlightLoopReceives
  PROVE  UploadInv'
<1>1. /\ UNCHANGED <<commands, missionCompiled, missionUploaded, droneProgram,
           modal, connected, outbox, inbox, fieldKnown, drone_program, echo,
           published, edits, orders, authors, orderly>>
      /\ topic # <<>> /\ topic' = Tail(topic)
  BY DEF FlightLoopReceives, storeVars, queueVars
<1>2. /\ topic' \in Seq(Programs) /\ Len(topic') <= MaxQueue
      /\ Head(topic) \in published
      /\ \A i \in DOMAIN topic' : topic'[i] \in published
  <2>1. /\ topic' \in Seq(Programs)
        /\ Len(topic) \in Nat /\ Len(topic') = Len(topic) - 1
        /\ \E i \in DOMAIN topic : Head(topic) = topic[i]
        /\ \A i \in DOMAIN topic' : \E j \in DOMAIN topic :
             topic'[i] = topic[j]
    BY <1>1, TailIs, UploadTypes
  <2>2. /\ Len(topic) <= MaxQueue
        /\ \A i \in DOMAIN topic : topic[i] \in published
    BY DEF UploadInv, UploadTypeOK, HeardWasPublished
  <2>3. Len(topic') <= MaxQueue
    BY <2>1, <2>2, UploadTypes
  <2>4. QED
    BY <2>1, <2>2, <2>3
<1>3. UploadTypeOK'
  BY <1>1, <1>2 DEF UploadInv, UploadTypeOK
<1>4. HeardWasPublished' /\ UploadedWasPublished' /\ DialogIsForCompiled'
  BY <1>1, <1>2 DEF UploadInv, HeardWasPublished, UploadedWasPublished,
     DialogIsForCompiled
<1>5. OneAtATime' /\ OnlyAuthorKnows'
  BY <1>1 DEF UploadInv, OneAtATime, OnlyAuthorKnows, KnowsPrograms, Has
<1>6. QED
  BY <1>3, <1>4, <1>5 DEF UploadInv

LEMMA CompilerStep ==
  ASSUME UploadAssumption, UploadInv, InteropAnswers \/ CompilerRestarts
  PROVE  UploadInv'
<1>1. /\ UNCHANGED <<commands, missionCompiled, missionUploaded, droneProgram,
           modal, connected, outbox, inbox, topic, published, edits,
           orders, authors, orderly>>
      /\ fieldKnown' \in Fields
      /\ drone_program' \in {drone_program, NoProgram}
      /\ echo' \in {echo, <<>>}
  BY DEF InteropAnswers, CompilerRestarts, storeVars, queueVars, rosVars,
     UploadInv, UploadTypeOK
<1>2. << >> \in Seq(Programs) /\ Len(<< >>) = 0 /\ DOMAIN << >> = {} /\ 0 <= 1
  OBVIOUS
<1>3. UploadTypeOK'
  <2>1. echo' \in Seq(Programs) /\ Len(echo') <= MaxQueue
    <3>1. 0 <= MaxQueue
      BY UploadTypes
    <3>2. echo \in Seq(Programs) /\ Len(echo) <= MaxQueue
      BY DEF UploadInv, UploadTypeOK
    <3>3. QED
      BY <1>1, <1>2, <3>1, <3>2
  <2>2. drone_program' \in Programs \union {NoProgram}
    BY <1>1 DEF UploadInv, UploadTypeOK
  <2>3. QED
    BY <1>1, <2>1, <2>2 DEF UploadInv, UploadTypeOK
<1>4. HeardWasPublished' /\ UploadedWasPublished' /\ DialogIsForCompiled'
  BY <1>1, <1>2 DEF UploadInv, HeardWasPublished, UploadedWasPublished,
     DialogIsForCompiled
<1>5. OneAtATime'
  BY <1>1, <1>2 DEF UploadInv, OneAtATime
<1>6. OnlyAuthorKnows'
  BY <1>1 DEF UploadInv, OnlyAuthorKnows, KnowsPrograms, Has
<1>7. QED
  BY <1>3, <1>4, <1>5, <1>6 DEF UploadInv

-----------------------------------------------------------------------------
(* The UI's socket.                                                        *)

LEMMA LostStep ==
  ASSUME UploadAssumption, UploadInv, NEW u \in Uis, MessageLost(u)
  PROVE  UploadInv'
<1>1. /\ UNCHANGED <<commands, missionCompiled, missionUploaded, droneProgram,
           modal, connected, inbox, fieldKnown, drone_program, topic, echo,
           published, edits, orders, authors, orderly>>
      /\ outbox[u] # <<>>
      /\ outbox' = [outbox EXCEPT ![u] = Tail(outbox[u])]
  BY DEF MessageLost, storeVars, rosVars
<1>2. /\ outbox \in [Uis -> Seq(Messages)]
      /\ \A w \in Uis : Len(outbox[w]) <= MaxQueue
  BY DEF UploadInv, UploadTypeOK
<1>3. /\ outbox' \in [Uis -> Seq(Messages)]
      /\ \A w \in Uis : Len(outbox'[w]) <= MaxQueue
      /\ \A w \in Uis : w # u => outbox'[w] = outbox[w]
      /\ Len(outbox[u]) <= 1 => outbox'[u] = <<>>
  BY <1>1, <1>2, OneLess, UploadTypes
<1>4. orderly => \A w \in Uis : outbox'[w] = <<>>
  BY <1>1, <1>3 DEF UploadInv, OneAtATime
<1>5. UploadTypeOK'
  BY <1>1, <1>3 DEF UploadInv, UploadTypeOK
<1>6. HeardWasPublished' /\ UploadedWasPublished' /\ DialogIsForCompiled'
  BY <1>1 DEF UploadInv, HeardWasPublished, UploadedWasPublished,
     DialogIsForCompiled
<1>7. OneAtATime'
  <2>1. Len(<< >>) = 0 /\ 0 <= 1
    OBVIOUS
  <2>2. QED
    BY <1>1, <1>4, <2>1 DEF UploadInv, OneAtATime
<1>8. OnlyAuthorKnows'
  BY <1>1, <1>4 DEF UploadInv, OnlyAuthorKnows, KnowsPrograms, Has
<1>9. QED
  BY <1>5, <1>6, <1>7, <1>8 DEF UploadInv

LEMMA ConnectStep ==
  ASSUME UploadAssumption, UploadInv, NEW u \in Uis, Connect(u)
  PROVE  UploadInv'
<1>1. /\ UNCHANGED <<commands, missionCompiled, missionUploaded, droneProgram,
           modal, outbox, inbox, fieldKnown, drone_program, topic, echo,
           published, edits, orders, authors, orderly>>
      /\ connected' = [connected EXCEPT ![u] = TRUE]
  BY DEF Connect, storeVars, rosVars
<1>2. UploadTypeOK'
  BY <1>1 DEF UploadInv, UploadTypeOK
<1>3. QED
  BY <1>1, <1>2 DEF UploadInv, HeardWasPublished, UploadedWasPublished,
     DialogIsForCompiled, OneAtATime, OnlyAuthorKnows, KnowsPrograms

LEMMA DisconnectStep ==
  ASSUME UploadAssumption, UploadInv, NEW u \in Uis, Disconnect(u)
  PROVE  UploadInv'
<1>1. /\ UNCHANGED <<commands, missionCompiled, missionUploaded, droneProgram,
           modal, fieldKnown, drone_program, topic, echo, published,
           edits, orders, authors>>
      /\ connected' = [connected EXCEPT ![u] = FALSE]
      /\ outbox' = [outbox EXCEPT ![u] = <<>>]
      /\ inbox' = [inbox EXCEPT ![u] = <<>>]
      /\ orderly' = (orderly /\ inbox[u] = <<>>)
  BY DEF Disconnect, storeVars, rosVars
<1>2. /\ outbox \in [Uis -> Seq(Messages)] /\ inbox \in [Uis -> Seq(Messages)]
      /\ << >> \in Seq(Messages) /\ Len(<< >>) = 0 /\ DOMAIN << >> = {}
      /\ 0 <= 1 /\ 0 <= MaxQueue
  <2>1. outbox \in [Uis -> Seq(Messages)] /\ inbox \in [Uis -> Seq(Messages)]
    BY DEF UploadInv, UploadTypeOK
  <2>2. << >> \in Seq(Messages) /\ Len(<< >>) = 0 /\ DOMAIN << >> = {}
    OBVIOUS
  <2>3. 0 <= 1 /\ 0 <= MaxQueue
    BY UploadTypes
  <2>4. QED
    BY <2>1, <2>2, <2>3
<1>3. /\ \A w \in Uis : outbox'[w] \in {outbox[w], <<>>}
      /\ \A w \in Uis : inbox'[w] \in {inbox[w], <<>>}
      /\ orderly' => orderly /\ inbox' = inbox
  BY <1>1, <1>2, UploadTypes
<1>4. UploadTypeOK'
  <2>1. /\ outbox' \in [Uis -> Seq(Messages)]
        /\ inbox' \in [Uis -> Seq(Messages)]
        /\ connected' \in [Uis -> BOOLEAN] /\ orderly' \in BOOLEAN
    BY <1>1, <1>2, UploadTypes DEF UploadInv, UploadTypeOK
  <2>2. \A w \in Uis :
             Len(outbox'[w]) <= MaxQueue /\ Len(inbox'[w]) <= MaxQueue
    BY <1>2, <1>3 DEF UploadInv, UploadTypeOK
  <2>3. QED
    BY <1>1, <2>1, <2>2 DEF UploadInv, UploadTypeOK
<1>5. HeardWasPublished' /\ UploadedWasPublished' /\ DialogIsForCompiled'
  BY <1>1, <1>2, <1>3 DEF UploadInv, HeardWasPublished, UploadedWasPublished,
     DialogIsForCompiled
<1>6. OneAtATime'
  BY <1>1, <1>2, <1>3 DEF UploadInv, OneAtATime
<1>7. OnlyAuthorKnows'
  BY <1>1, <1>3 DEF UploadInv, OnlyAuthorKnows, KnowsPrograms, Has
<1>8. QED
  BY <1>4, <1>5, <1>6, <1>7 DEF UploadInv

LEMMA AnswerStep ==
  ASSUME UploadAssumption, UploadInv, NEW u \in Uis,
         Compiled(u) \/ Uploaded(u)
  PROVE  UploadInv'
<1> DEFINE m == Head(inbox[u])
<1>1. /\ UNCHANGED <<commands, modal, connected, outbox, fieldKnown,
           drone_program, topic, echo, published, edits, orders,
           authors, orderly>>
      /\ inbox[u] # <<>> /\ inbox' = [inbox EXCEPT ![u] = Tail(inbox[u])]
      /\ droneProgram' = [droneProgram EXCEPT ![u] = m.program]
      /\ \/ /\ m.msg = "COMPILED_DRONE_PROGRAM"
            /\ missionCompiled' = [missionCompiled EXCEPT ![u] = TRUE]
            /\ missionUploaded' = [missionUploaded EXCEPT ![u] = FALSE]
         \/ /\ m.msg = "UPLOADED_DRONE_PROGRAM"
            /\ missionCompiled' = missionCompiled
            /\ missionUploaded' = [missionUploaded EXCEPT ![u] = TRUE]
  BY DEF Compiled, Uploaded, rosVars
<1>2. /\ inbox \in [Uis -> Seq(Messages)]
      /\ \A w \in Uis : Len(inbox[w]) <= MaxQueue
  BY DEF UploadInv, UploadTypeOK
<1>3. /\ inbox' \in [Uis -> Seq(Messages)] /\ m \in Messages
      /\ \A w \in Uis : Len(inbox'[w]) <= MaxQueue
      /\ \A w \in Uis : w # u => inbox'[w] = inbox[w]
      /\ Len(inbox[u]) <= 1 => inbox'[u] = <<>>
      /\ \A w \in Uis : \A i \in DOMAIN inbox'[w] : \E j \in DOMAIN inbox[w] :
           inbox'[w][i] = inbox[w][j]
      /\ \E i \in DOMAIN inbox[u] : m = inbox[u][i]
  <2> DEFINE Less(q, r) ==
        /\ r \in [Uis -> Seq(Messages)] /\ Head(q[u]) \in Messages
        /\ \A n \in Nat : (\A w \in Uis : Len(q[w]) <= n)
             => \A w \in Uis : Len(r[w]) <= n
        /\ \A w \in Uis : w # u => r[w] = q[w]
        /\ Len(q[u]) <= 1 => r[u] = <<>>
        /\ \A w \in Uis : \A i \in DOMAIN r[w] : \E j \in DOMAIN q[w] :
             r[w][i] = q[w][j]
        /\ \E i \in DOMAIN q[u] : Head(q[u]) = q[u][i]
  <2>1. ASSUME NEW q \in [Uis -> Seq(Messages)], q[u] # <<>>,
               NEW r, r = [q EXCEPT ![u] = Tail(q[u])]
        PROVE  Less(q, r)
    BY <2>1, OneLess
  <2> HIDE DEF Less
  <2>2. Less(inbox, inbox')
    BY <1>1, <1>2, <2>1
  <2>3. QED
    BY <1>2, <2>2, UploadTypes DEF Less
<1> HIDE DEF m
<1>4. /\ missionCompiled' \in [Uis -> BOOLEAN]
      /\ missionUploaded' \in [Uis -> BOOLEAN]
      /\ droneProgram' \in [Uis -> Programs \union {NoProgram}]
      /\ droneProgram'[u] = m.program
      /\ \A w \in Uis : w # u =>
           /\ missionCompiled'[w] = missionCompiled[w]
           /\ missionUploaded'[w] = missionUploaded[w]
           /\ droneProgram'[w] = droneProgram[w]
      /\ m.msg = "COMPILED_DRONE_PROGRAM"
           => missionCompiled'[u] /\ ~missionUploaded'[u]
      /\ m.msg = "UPLOADED_DRONE_PROGRAM"
           => missionCompiled'[u] = missionCompiled[u]
      /\ missionCompiled[u] => missionCompiled'[u]
  <2>1. m.program \in Programs \union {NoProgram}
    BY <1>3 DEF Messages
  <2>2. /\ missionCompiled \in [Uis -> BOOLEAN]
        /\ missionUploaded \in [Uis -> BOOLEAN]
        /\ droneProgram \in [Uis -> Programs \union {NoProgram}]
    BY DEF UploadInv, UploadTypeOK
  <2>3. QED
    BY <1>1, <2>1, <2>2
<1>5. UploadTypeOK'
  BY <1>1, <1>3, <1>4 DEF UploadInv, UploadTypeOK
<1>6. HeardWasPublished' /\ UploadedWasPublished' /\ DialogIsForCompiled'
  <2>1. HeardWasPublished
    BY DEF UploadInv
  <2>2. ASSUME NEW w \in Uis, NEW i \in DOMAIN inbox'[w],
               inbox'[w][i].msg = "UPLOADED_DRONE_PROGRAM"
        PROVE  inbox'[w][i].program \in published
    <3>1. PICK j \in DOMAIN inbox[w] : inbox'[w][i] = inbox[w][j]
      BY <1>3
    <3>2. QED
      BY <2>1, <2>2, <3>1 DEF HeardWasPublished
  <2>3. HeardWasPublished'
    BY <1>1, <2>1, <2>2 DEF HeardWasPublished
  <2>4. m.msg = "UPLOADED_DRONE_PROGRAM" => m.program \in published
    BY <1>3, <2>1 DEF HeardWasPublished
  <2>5. UploadedWasPublished'
    BY <1>1, <1>4, <2>4 DEF UploadInv, UploadedWasPublished
  <2>6. DialogIsForCompiled'
    BY <1>1, <1>4 DEF UploadInv, DialogIsForCompiled
  <2>7. QED
    BY <2>3, <2>5, <2>6
<1>7. orderly => /\ echo = <<>> /\ inbox'[u] = <<>>
                 /\ \A w \in Uis : outbox[w] = <<>>
  BY <1>1, <1>3 DEF UploadInv, OneAtATime
<1>8. OneAtATime'
  <2>1. Len(<< >>) = 0 /\ 0 <= 1
    OBVIOUS
  <2>2. orderly => \A w \in Uis : Len(outbox[w]) <= 1 /\ Len(inbox'[w]) <= 1
    BY <1>3, <1>7, <2>1 DEF UploadInv, OneAtATime
  <2>3. QED
    BY <1>1, <1>7, <2>1, <2>2 DEF OneAtATime
<1>9. OnlyAuthorKnows'
  <2> SUFFICES ASSUME orderly', NEW w \in Uis, authors' \subseteq {w}
               PROVE  KnowsPrograms(w)'
    BY DEF OnlyAuthorKnows
  <2>1. KnowsPrograms(w) /\ orderly
    BY <1>1 DEF UploadInv, OnlyAuthorKnows
  <2>2. CASE w # u
    BY <1>1, <1>3, <1>4, <2>1, <2>2 DEF KnowsPrograms, Has
  <2>3. CASE w = u
    <3>1. CASE m.msg = "COMPILED_DRONE_PROGRAM"
      BY <1>1, <1>4, <1>7, <2>1, <2>3, <3>1 DEF KnowsPrograms, Has, m
    <3>2. CASE m.msg = "UPLOADED_DRONE_PROGRAM"
      BY <1>1, <1>4, <1>7, <2>1, <2>3, <3>2 DEF KnowsPrograms, Has, m
    <3>3. QED
      BY <1>1, <3>1, <3>2
  <2>4. QED
    BY <2>2, <2>3
<1>10. QED
  BY <1>5, <1>6, <1>8, <1>9 DEF UploadInv

LEMMA UploadInvHolds ==
  ASSUME UploadAssumption
  PROVE  UploadSpec => []UploadInv
<1>1. ASSUME UploadInv, [UploadNext]_uploadVars
      PROVE  UploadInv'
  <2>1. ASSUME NEW u \in Uis,
          \/ Edit(u) \/ OpenDialog(u) \/ CancelDialog(u)
          \/ CompileMission(u) \/ UploadMission(u) \/ ResetStore(u)
          \/ Compile(u) \/ Upload(u) \/ MessageLost(u)
          \/ Connect(u) \/ Disconnect(u) \/ Compiled(u) \/ Uploaded(u)
        PROVE  UploadInv'
    BY <1>1, <2>1, StoreStep, DialogStep, ConfirmStep, CompileStep,
       PublishStep, LostStep, ConnectStep, DisconnectStep, AnswerStep
  <2>2. CASE uploadVars' = uploadVars
    <3>1. UNCHANGED <<commands, missionCompiled, missionUploaded,
                      droneProgram, modal, connected, outbox, inbox,
                      fieldKnown, drone_program, topic, echo, published,
                      edits, orders, authors, orderly>>
      BY <2>2 DEF uploadVars, storeVars, queueVars, rosVars
    <3>2. QED
      BY <1>1, <3>1 DEF UploadInv, UploadTypeOK, HeardWasPublished,
         UploadedWasPublished, DialogIsForCompiled, OneAtATime,
         OnlyAuthorKnows, KnowsPrograms
  <2>3. QED
    BY <1>1, <2>1, <2>2, EchoStep, LoopStep, CompilerStep DEF UploadNext
<1>2. QED
  BY <1>1, UploadInitially, PTL DEF UploadSpec

-----------------------------------------------------------------------------

\* The stores, dialogs and queues keep their types, whatever the UIs do.
THEOREM UploadTypeCorrect ==
  ASSUME UploadAssumption
  PROVE  UploadSpec => []UploadTypeOK
<1>1. UploadInv => UploadTypeOK
  BY DEF UploadInv
<1>2. QED
  BY <1>1, UploadInvHolds, PTL

\* One careful operator, among any number of UIs, is shown as compiled what the
\* plan is, and uploads what was shown.
THEOREM UploadsAreShown ==
  ASSUME UploadAssumption
  PROVE  UploadSpec => [](CompiledIsThePlan /\ UploadsTheShown)
<1>1. UploadInv => CompiledIsThePlan /\ UploadsTheShown
  BY UploadInvImplies
<1>2. QED
  BY <1>1, UploadInvHolds, PTL

\* What is labelled "Uploaded" was published, whatever any operator does.
THEOREM UploadedIsPublished ==
  ASSUME UploadAssumption
  PROVE  UploadSpec => []UploadedWasPublished
<1>1. UploadInv => UploadedWasPublished
  BY UploadInvImplies
<1>2. QED
  BY <1>1, UploadInvHolds, PTL

-----------------------------------------------------------------------------
(* The orders to the UGV.                                                  *)

\* An open dialog does what it says.
ActsAsNamed == dialog => action = message /\ action \in Orders

\* Who was disabled for good has no drive coming.
NothingComesWhenDisabled == disabled = "yes" => Pending = {}

DialogTypes ==
  /\ page \in {"controls", "other"}
  /\ dialog \in BOOLEAN /\ {message, action} \subseteq Orders \cup {"none"}
  /\ orphans \in Seq(Orders) /\ Len(orphans) <= MaxOrphans
  /\ sent \in Seq(Orders)

UgvTypes ==
  /\ ugv_connected \in BOOLEAN
  /\ ugv_order \in {"none", "drive", "disable"}
  /\ ugv_target \in {Official, Chosen}
  /\ disabled \in {"no", "timer", "yes"}

OrdersInv ==
  /\ DialogTypes /\ UgvTypes /\ ActsAsNamed /\ NothingComesWhenDisabled

\* The server's timers run as they do without the dialog.
LEMMA OrdersRunTheDrive == OrdersSpec => DriveSpec
<1>1. OrdersInit => DriveInit
  BY DEF OrdersInit
<1>2. [OrdersNext]_ordersVars => [DriveNext]_driveVars
  <2>1. ASSUME OrdersNext PROVE [DriveNext]_driveVars
    BY <2>1 DEF OrdersNext, DroppyCommandReceived, DriveToTarget,
       UgvConnects, UgvDisconnects, SetUgvTarget, ToggleWithName, CloseDialog,
       DoAction, PressEnter, LeavePage, ReturnToPage, DriveNext
  <2>2. QED
    BY <2>1 DEF ordersVars, driveVars
<1>3. QED
  BY <1>1, <1>2, PTL DEF OrdersSpec, DriveSpec

LEMMA PendingStays == left' = left => Pending' = Pending
BY DEF Pending

\* What a relay of orders does to the UGV.
LEMMA RelayKeepsTypes ==
  ASSUME UgvTypes, NothingComesWhenDisabled, NEW list \in Seq(Orders),
         Relay(list), Pending' = Pending
  PROVE  UgvTypes' /\ NothingComesWhenDisabled' /\ sent' \in Seq(Orders)
<1> DEFINE toUgv == SelectSeq(list, IsToUgv)
<1>1. \/ UNCHANGED <<ugvVars, disabled>>
      \/ EmitToUgv("drive") /\ disabled' = "no"
      \/ EmitToUgv("disable") /\ disabled' = (IF Pending = {} THEN "yes" ELSE "timer")
  BY DEF Relay
<1>0. sent' \in Seq(Orders)
  BY DEF Relay
<1> HIDE DEF toUgv
<1>2. CASE UNCHANGED <<ugvVars, disabled>>
  BY <1>0, <1>2 DEF ugvVars, UgvTypes, NothingComesWhenDisabled
<1>3. CASE EmitToUgv("drive") /\ disabled' = "no"
  BY <1>0, <1>3 DEF EmitToUgv, UgvTypes, NothingComesWhenDisabled
<1>4. CASE EmitToUgv("disable") /\ disabled' = (IF Pending = {} THEN "yes" ELSE "timer")
  BY <1>0, <1>4 DEF EmitToUgv, UgvTypes, NothingComesWhenDisabled
<1>5. QED
  BY <1>1, <1>2, <1>3, <1>4

LEMMA OrdersInvHolds ==
  ASSUME OrdersAssumption
  PROVE  OrdersSpec => []OrdersInv
<1>1. OrdersInit => OrdersInv
  <2> SUFFICES ASSUME OrdersInit PROVE OrdersInv
    OBVIOUS
  <2>1. <<>> \in Seq(Orders) /\ Len(<<>>) = 0 /\ 0 <= MaxOrphans
    BY EmptySeq DEF OrdersAssumption
  <2>2. DialogTypes
    BY <2>1 DEF OrdersInit, DialogTypes
  <2>3. UgvTypes /\ ActsAsNamed /\ NothingComesWhenDisabled
    BY DEF OrdersInit, UgvTypes, ActsAsNamed, NothingComesWhenDisabled
  <2>4. QED
    BY <2>2, <2>3 DEF OrdersInv
<1>2. OrdersInv /\ [OrdersNext]_ordersVars => OrdersInv'
  <2> SUFFICES ASSUME OrdersInv, [OrdersNext]_ordersVars PROVE OrdersInv'
    OBVIOUS
  <2> USE DEF OrdersInv
  <2>1. CASE DroppyCommandReceived
    <3>1. ASSUME disabled' = "yes" PROVE Pending' = {}
      <4>1. disabled = "yes" /\ Pending = {} /\ (ResetLatch \/ CallOff \/ Tick)
        BY <2>1, <3>1 DEF DroppyCommandReceived, NothingComesWhenDisabled
      <4>2. QED
        BY <4>1 DEF ResetLatch, CallOff, Tick, Clear, Pending
    <3>2. UgvTypes'
      BY <2>1 DEF DroppyCommandReceived, UgvTypes, ugvVars
    <3>3. DialogTypes' /\ ActsAsNamed'
      BY <2>1 DEF DroppyCommandReceived, dialogVars, DialogTypes, ActsAsNamed
    <3>4. QED
      BY <3>1, <3>2, <3>3 DEF NothingComesWhenDisabled
  <2>2. CASE DriveToTarget
    <3>1. disabled # "yes"
      BY <2>2 DEF DriveToTarget, NothingComesWhenDisabled
    <3>2. QED
      BY <2>2, <3>1 DEF DriveToTarget, EmitToUgv, dialogVars, DialogTypes,
         UgvTypes, ActsAsNamed, NothingComesWhenDisabled
  <2>3. CASE UgvConnects \/ UgvDisconnects \/ SetUgvTarget
    <3>1. UNCHANGED <<left, disabled>> /\ UNCHANGED dialogVars /\ sent' = <<>>
      BY <2>3 DEF UgvConnects, UgvDisconnects, SetUgvTarget, driveVars
    <3>2. UgvTypes'
      BY <2>3 DEF UgvConnects, UgvDisconnects, SetUgvTarget, UgvTypes
    <3>3. QED
      BY <3>1, <3>2, PendingStays, EmptySeq DEF dialogVars, DialogTypes,
         ActsAsNamed, NothingComesWhenDisabled
  <2>4. ASSUME NEW order \in Orders, ToggleWithName(order) PROVE OrdersInv'
    <3>1. UNCHANGED <<left, disabled>> /\ UNCHANGED ugvVars /\ sent' = <<>>
      BY <2>4 DEF ToggleWithName, driveVars
    <3>2. DialogTypes' /\ ActsAsNamed'
      BY <2>4, EmptySeq DEF ToggleWithName, DialogTypes, ActsAsNamed
    <3>3. QED
      BY <3>1, <3>2, PendingStays DEF ugvVars, UgvTypes,
         NothingComesWhenDisabled
  <2>5. CASE CloseDialog
    <3>1. UNCHANGED <<left, disabled>> /\ UNCHANGED ugvVars /\ sent' = <<>>
      BY <2>5 DEF CloseDialog, driveVars
    <3>2. DialogTypes' /\ ActsAsNamed'
      BY <2>5, EmptySeq DEF CloseDialog, DialogTypes, ActsAsNamed
    <3>3. QED
      BY <3>1, <3>2, PendingStays DEF ugvVars, UgvTypes,
         NothingComesWhenDisabled
  <2>6. CASE DoAction
    <3>1. <<action>> \in Seq(Orders) /\ Pending' = Pending
      <4>1. action \in Orders /\ left' = left
        BY <2>6 DEF DoAction, ActsAsNamed, driveVars
      <4>2. QED
        BY <4>1, PendingStays
    <3>2. UgvTypes' /\ NothingComesWhenDisabled' /\ sent' \in Seq(Orders)
      BY <2>6, <3>1, RelayKeepsTypes DEF DoAction
    <3>3. QED
      BY <2>6, <3>2 DEF DoAction, DialogTypes, ActsAsNamed
  <2>7. CASE PressEnter
    <3>1. PICK onButton \in BOOLEAN :
            /\ onButton => dialog
            /\ dialog' = onButton
            /\ Relay(orphans \o (IF dialog THEN <<action>> ELSE <<>>)
                             \o (IF onButton THEN <<action>> ELSE <<>>))
            /\ UNCHANGED <<driveVars, page, message, action, orphans>>
      BY <2>7 DEF PressEnter
    <3> DEFINE one == IF dialog THEN <<action>> ELSE <<>>
               two == IF onButton THEN <<action>> ELSE <<>>
    <3>2. one \in Seq(Orders) /\ two \in Seq(Orders)
      BY <3>1 DEF ActsAsNamed
    <3>3. orphans \o one \o two \in Seq(Orders)
      <4> HIDE DEF one, two
      <4> QED
        BY <3>2 DEF DialogTypes
    <3>4. Pending' = Pending
      BY <3>1, PendingStays DEF driveVars
    <3>5. UgvTypes' /\ NothingComesWhenDisabled' /\ sent' \in Seq(Orders)
      BY <3>1, <3>3, <3>4, RelayKeepsTypes
    <3>6. QED
      BY <3>1, <3>5 DEF DialogTypes, ActsAsNamed
  <2>8. CASE LeavePage
    <3>1. /\ orphans' \in Seq(Orders)
          /\ Len(orphans') <= MaxOrphans
      <4>1. CASE dialog
        <5>1. /\ action \in Orders /\ orphans \in Seq(Orders)
              /\ Len(orphans) < MaxOrphans
              /\ orphans' = Append(orphans, action)
          BY <2>8, <4>1 DEF LeavePage, ActsAsNamed, DialogTypes
        <5>2. orphans' \in Seq(Orders) /\ Len(orphans') = Len(orphans) + 1
          BY <5>1
        <5>3. QED
          BY <5>1, <5>2 DEF OrdersAssumption
      <4>2. CASE ~dialog
        BY <2>8, <4>2 DEF LeavePage, DialogTypes
      <4>3. QED
        BY <4>1, <4>2
    <3>2. UNCHANGED <<left, disabled>> /\ UNCHANGED ugvVars /\ sent' = <<>>
      BY <2>8 DEF LeavePage, driveVars
    <3>3. DialogTypes' /\ ActsAsNamed'
      BY <2>8, <3>1, EmptySeq DEF LeavePage, DialogTypes, ActsAsNamed
    <3>4. QED
      BY <3>2, <3>3, PendingStays DEF ugvVars, UgvTypes,
         NothingComesWhenDisabled
  <2>9. CASE ReturnToPage
    <3>1. UNCHANGED <<left, disabled>> /\ UNCHANGED ugvVars /\ sent' = <<>>
      BY <2>9 DEF ReturnToPage, driveVars
    <3>2. DialogTypes' /\ ActsAsNamed'
      BY <2>9, EmptySeq DEF ReturnToPage, DialogTypes, ActsAsNamed
    <3>3. QED
      BY <3>1, <3>2, PendingStays DEF ugvVars, UgvTypes,
         NothingComesWhenDisabled
  <2>10. CASE UNCHANGED ordersVars
    BY <2>10, PendingStays DEF ordersVars, driveVars, dialogVars, ugvVars,
       DialogTypes, UgvTypes, ActsAsNamed, NothingComesWhenDisabled
  <2>11. QED
    BY <2>1, <2>2, <2>3, <2>4, <2>5, <2>6, <2>7, <2>8, <2>9, <2>10
    DEF OrdersNext
<1>3. QED
  BY <1>1, <1>2, PTL DEF OrdersSpec

\* What is transmitted was asked for by the dialog that is open, and is what it
\* names, until a page is left while its dialog is open: for any number of
\* components left behind.
THEOREM OnlyScreenIsSent ==
  ASSUME OrdersAssumption
  PROVE  OrdersSpec => OnlyOrdersOnScreen
<1>1. OrdersInv /\ [OrdersNext]_ordersVars => [SendsWhatIsOnScreen]_ordersVars
  <2> SUFFICES ASSUME OrdersInv, OrdersNext, orphans = <<>>,
                      NEW i \in 1 .. Len(sent')
               PROVE  dialog /\ sent'[i] = message
    BY DEF SendsWhatIsOnScreen
  <2>1. sent' # <<>>
    OBVIOUS
  <2>2. DoAction \/ PressEnter
    BY <2>1 DEF OrdersNext, DroppyCommandReceived, DriveToTarget,
       UgvConnects, UgvDisconnects, SetUgvTarget, ToggleWithName, CloseDialog,
       LeavePage, ReturnToPage
  <2>3. CASE DoAction
    <3>1. dialog /\ action = message /\ sent' = <<action>>
      BY <2>3 DEF DoAction, Relay, OrdersInv, ActsAsNamed
    <3>2. Len(<<action>>) = 1 /\ <<action>>[1] = action
      OBVIOUS
    <3>3. QED
      BY <3>1, <3>2
  <2>4. CASE PressEnter
    <3>1. PICK onButton \in BOOLEAN :
            /\ onButton => dialog
            /\ sent' = orphans \o (IF dialog THEN <<action>> ELSE <<>>)
                               \o (IF onButton THEN <<action>> ELSE <<>>)
      BY <2>4 DEF PressEnter, Relay
    <3> DEFINE one == IF dialog THEN <<action>> ELSE <<>>
               two == IF onButton THEN <<action>> ELSE <<>>
    <3>2. dialog
      <4>1. SUFFICES ASSUME ~dialog PROVE FALSE
        OBVIOUS
      <4>2. sent' = <<>> \o <<>> \o <<>>
        BY <3>1, <4>1
      <4>3. <<>> \o <<>> = <<>>
        BY EmptySeq, ConcatEmptySeq
      <4>4. QED
        BY <2>1, <4>2, <4>3
    <3>3. /\ one \in Seq({action}) /\ two \in Seq({action})
          /\ orphans \in Seq({action})
      <4>1. <<action>> \in Seq({action}) /\ <<>> \in Seq({action})
        OBVIOUS
      <4>2. QED
        BY <4>1
    <3>4. sent' \in Seq({action})
      <4> HIDE DEF one, two
      <4>1. QED
        BY <3>1, <3>3, ConcatProperties DEF one, two
    <3>5. sent'[i] = action
      BY <3>4, ElementOfSeq
    <3>6. QED
      BY <3>2, <3>5 DEF OrdersInv, ActsAsNamed
  <2>5. QED
    BY <2>2, <2>3, <2>4
<1>2. QED
  BY <1>1, OrdersInvHolds, PTL DEF OrdersSpec, OnlyOrdersOnScreen

\* A UGV that was disabled while no drive was pending does not drive before
\* somebody asks for it, for any waiting time.
THEOREM DisabledStays ==
  ASSUME OrdersAssumption
  PROVE  OrdersSpec => DisabledStaysDisabledWithoutTimer
<1>1. OrdersInv /\ [OrdersNext]_ordersVars => [KeepsDisabled]_ordersVars
  <2> SUFFICES ASSUME OrdersInv, OrdersNext, disabled = "yes",
                      disabled' = "yes", ugv_order' # ugv_order
               PROVE  ugv_order' # "drive"
    BY DEF KeepsDisabled
  <2>1. ~DriveToTarget
    BY DEF DriveToTarget, OrdersInv, NothingComesWhenDisabled
  <2>2. DoAction \/ PressEnter
    BY <2>1 DEF OrdersNext, DroppyCommandReceived, UgvConnects,
       UgvDisconnects, SetUgvTarget, ToggleWithName, CloseDialog, LeavePage,
       ReturnToPage, ugvVars
  <2>3. PICK list : Relay(list)
    BY <2>2 DEF DoAction, PressEnter
  <2>4. EmitToUgv("disable")
    BY <2>3 DEF Relay, ugvVars
  <2>5. QED
    BY <2>4 DEF EmitToUgv
<1>2. QED
  BY <1>1, OrdersInvHolds, PTL
  DEF OrdersSpec, DisabledStaysDisabledWithoutTimer

\* The variables of the server, the page and the UGV keep their types, for any
\* number of dialogs left behind.
THEOREM OrdersTypeCorrect ==
  ASSUME OrdersAssumption
  PROVE  OrdersSpec => []OrdersTypeOK
<1>1. DriveAssumption
  BY DEF OrdersAssumption
<1>2. OrdersSpec => []DriveTypeOK
  BY <1>1, OrdersRunTheDrive, DriveTypeCorrect, PTL
<1>3. OrdersInv /\ DriveTypeOK => OrdersTypeOK
  BY DEF OrdersInv, DialogTypes, UgvTypes, OrdersTypeOK
<1>4. QED
  BY <1>2, <1>3, OrdersInvHolds, PTL

=============================================================================
