--------------------------- MODULE MissionUpload ---------------------------
(***************************************************************************)
(* How the commands that an operator edits become the program that the     *)
(* drone flies: the mission part of each UI's store (missionReducer.js),   *)
(* the confirmation dialog (DroneActions.js), the UI's socket              *)
(* (communicator.js), the relays of the ground server (ground_server.js),  *)
(* and the compiler process behind them (ground_controls.cc).              *)
(*                                                                         *)
(* A list of commands is represented by the number of the edit that made   *)
(* it, and a program by the commands it was compiled from and whether the  *)
(* server knew the field (fieldKnown) when it was.  The server's relay     *)
(* and the handler it reaches are one step: the connection between the two *)
(* keeps the order, and the server's answer to every UI is immediate.      *)
(* The compiler answers every program it is given: a DroneProgram sets all *)
(* its required fields, so that IsInitialized never fails.                 *)
(***************************************************************************)
EXTENDS Naturals, Sequences, FiniteSets

CONSTANTS
  Uis,        \* the UIs that are open
  Fields,     \* whether the server may know the field, or not, or both
  MaxEdits,   \* bound on the edits, of all UIs
  MaxOrders,  \* bound on the dialogs that are confirmed, of all UIs
  MaxQueue    \* bound on the messages in each queue

UploadAssumption ==
  /\ IsFiniteSet(Uis)
  /\ Fields \in SUBSET BOOLEAN \ {{}}
  /\ {MaxEdits, MaxOrders} \subseteq Nat
  /\ MaxQueue \in Nat \ {0}

VARIABLES
  commands, missionCompiled, missionUploaded, droneProgram, \* the UIs' stores
  modal,                   \* the action the open dialog will take, per UI
  connected,               \* the UIs' sockets
  outbox, inbox,           \* messages from and to each UI
  fieldKnown,              \* the server knows the field
  drone_program,           \* the compiler's program, None before its success
  topic,                   \* programs published and not yet received
  echo,                    \* programs the compiler will hear itself publish
  edits, orders,
  published,               \* the programs that were (history)
  authors,                 \* UIs that asked for a compilation (history)
  orderly                  \* nothing was edited, compiled or uploaded while a
                           \* message was under way, and no answer was lost
                           \* (history)

storeVars  == <<commands, missionCompiled, missionUploaded, droneProgram>>
queueVars  == <<connected, outbox, inbox>>
rosVars    == <<topic, echo, published>>
uploadVars == <<storeVars, modal, queueVars, fieldKnown, drone_program,
                rosVars, edits, orders, authors, orderly>>

NoProgram   == [commands |-> 0, field |-> FALSE, compiled |-> FALSE]
Programs    == [commands : 0 .. MaxEdits, field : BOOLEAN, compiled : {TRUE}]
CompileOf(cmds, field) ==
  [commands |-> cmds, field |-> field, compiled |-> TRUE]

\* "program" is the program an answer carries, the commands to compile, and
\* for UPLOAD_MISSION, which carries nothing, the one its operator was shown.
Messages ==
  [msg : {"COMPILE_GROUND_PROGRAM", "UPLOAD_MISSION",
          "COMPILED_DRONE_PROGRAM", "UPLOADED_DRONE_PROGRAM"},
   program : Programs \union {NoProgram}]
Message(msg, program) == [msg |-> msg, program |-> program]

UploadInit ==
  /\ commands = [u \in Uis |-> 0]
  /\ missionCompiled = [u \in Uis |-> FALSE]
  /\ missionUploaded = [u \in Uis |-> FALSE]
  /\ droneProgram = [u \in Uis |-> NoProgram]
  /\ modal = [u \in Uis |-> "closed"]
  /\ connected = [u \in Uis |-> FALSE]
  /\ outbox = [u \in Uis |-> <<>>] /\ inbox = [u \in Uis |-> <<>>]
  /\ fieldKnown \in Fields
  /\ drone_program = NoProgram
  /\ topic = <<>> /\ echo = <<>>
  /\ edits = 0 /\ orders = 0
  /\ published = {}
  /\ authors = {} /\ orderly = TRUE

Quiet ==
  /\ topic = <<>> /\ echo = <<>>
  /\ \A u \in Uis : outbox[u] = <<>> /\ inbox[u] = <<>>

-----------------------------------------------------------------------------
(* The operator at a UI.  An open dialog covers the rest of the page.      *)

\* Mutant of Edit: the commands still count as compiled.
EditStaysCompiled(u) ==
  /\ modal[u] = "closed"
  /\ edits < MaxEdits
  /\ edits' = edits + 1
  /\ commands' = [commands EXCEPT ![u] = edits + 1]
  /\ orderly' = (orderly /\ Quiet)
  /\ UNCHANGED <<missionCompiled, missionUploaded, droneProgram, modal,
                 queueVars, fieldKnown, drone_program, rosVars, orders,
                 authors>>

\* Any of the reducer's cases that change a command.
Edit(u) ==
  /\ modal[u] = "closed"
  /\ edits < MaxEdits
  /\ edits' = edits + 1
  /\ commands' = [commands EXCEPT ![u] = edits + 1]
  /\ missionCompiled' = [missionCompiled EXCEPT ![u] = FALSE]
  /\ orderly' = (orderly /\ Quiet)
  /\ UNCHANGED <<missionUploaded, droneProgram, modal, queueVars, fieldKnown,
                 drone_program, rosVars, orders, authors>>

\* One of the two buttons; the dialog keeps its action while it is open.
OpenDialog(u) ==
  /\ modal[u] = "closed"
  /\ modal' = [modal EXCEPT
       ![u] = IF missionCompiled[u] THEN "Upload Mission"
              ELSE "Compile Mission"]
  /\ UNCHANGED <<storeVars, queueVars, fieldKnown, drone_program, rosVars,
                 edits, orders, authors, orderly>>

CancelDialog(u) ==
  /\ modal[u] # "closed"
  /\ modal' = [modal EXCEPT ![u] = "closed"]
  /\ UNCHANGED <<storeVars, queueVars, fieldKnown, drone_program, rosVars,
                 edits, orders, authors, orderly>>

\* A socket that is not connected keeps what it is given until it is.
Confirm(u, action, message) ==
  /\ modal[u] = action
  /\ modal' = [modal EXCEPT ![u] = "closed"]
  /\ orders < MaxOrders /\ Len(outbox[u]) < MaxQueue
  /\ orders' = orders + 1
  /\ outbox' = [outbox EXCEPT ![u] = Append(outbox[u], message)]
  /\ orderly' = (orderly /\ Quiet)
  /\ UNCHANGED <<storeVars, connected, inbox, fieldKnown, drone_program,
                 rosVars, edits>>

CompileMission(u) ==
  /\ Confirm(u, "Compile Mission",
       Message("COMPILE_GROUND_PROGRAM", CompileOf(commands[u], FALSE)))
  /\ authors' = authors \union {u}

UploadMission(u) ==
  /\ Confirm(u, "Upload Mission", Message("UPLOAD_MISSION", droneProgram[u]))
  /\ UNCHANGED authors

\* RESET_REDUX_STATE, on another page.
ResetStore(u) ==
  /\ modal[u] = "closed"
  /\ commands' = [commands EXCEPT ![u] = 0]
  /\ missionCompiled' = [missionCompiled EXCEPT ![u] = FALSE]
  /\ missionUploaded' = [missionUploaded EXCEPT ![u] = FALSE]
  /\ droneProgram' = [droneProgram EXCEPT ![u] = NoProgram]
  /\ orderly' = (orderly /\ Quiet)
  /\ UNCHANGED <<modal, queueVars, fieldKnown, drone_program, rosVars, edits,
                 orders, authors>>

-----------------------------------------------------------------------------
(* The ground server and the compiler.                                     *)

\* ui_io.emit: every UI that is connected, and no other.
Broadcast(box, message) ==
  [u \in Uis |-> IF connected[u] THEN Append(box[u], message) ELSE box[u]]
CanBroadcast == \A u \in Uis : Len(inbox[u]) < MaxQueue

Compile(u) ==
  /\ connected[u] /\ outbox[u] # <<>>
  /\ Head(outbox[u]).msg = "COMPILE_GROUND_PROGRAM"
  /\ CanBroadcast
  /\ LET program == CompileOf(Head(outbox[u]).program.commands, fieldKnown)
     IN  /\ drone_program' = program
         /\ inbox' =
              Broadcast(inbox, Message("COMPILED_DRONE_PROGRAM", program))
  /\ outbox' = [outbox EXCEPT ![u] = Tail(outbox[u])]
  /\ UNCHANGED <<storeVars, modal, connected, fieldKnown, rosVars, edits,
                 orders, authors, orderly>>

\* Mutant of Upload: an upload waits for a successful compilation.
UploadWaits(u) ==
  /\ connected[u] /\ outbox[u] # <<>>
  /\ Head(outbox[u]).msg = "UPLOAD_MISSION"
  /\ Len(topic) < MaxQueue /\ Len(echo) < MaxQueue
  /\ drone_program.compiled
  /\ outbox' = [outbox EXCEPT ![u] = Tail(outbox[u])]
  /\ topic' = Append(topic, drone_program)
  /\ echo' = Append(echo, drone_program)
  /\ published' = published \union {drone_program}
  /\ UNCHANGED <<storeVars, modal, connected, inbox, fieldKnown,
                 drone_program, edits, orders, authors, orderly>>

Upload(u) ==
  /\ connected[u] /\ outbox[u] # <<>>
  /\ Head(outbox[u]).msg = "UPLOAD_MISSION"
  /\ Len(topic) < MaxQueue /\ Len(echo) < MaxQueue
  /\ outbox' = [outbox EXCEPT ![u] = Tail(outbox[u])]
  /\ IF drone_program.compiled
     THEN /\ topic' = Append(topic, drone_program)
          /\ echo' = Append(echo, drone_program)
          /\ published' = published \union {drone_program}
     ELSE UNCHANGED <<topic, echo, published>>
  /\ UNCHANGED <<storeVars, modal, connected, inbox, fieldKnown,
                 drone_program, edits, orders, authors, orderly>>

\* The compiler hears its own publication and reports it as the upload.
DroneProgramReceived ==
  /\ echo # <<>> /\ CanBroadcast
  /\ echo' = Tail(echo)
  /\ inbox' = Broadcast(inbox, Message("UPLOADED_DRONE_PROGRAM", Head(echo)))
  /\ UNCHANGED <<storeVars, modal, connected, outbox, fieldKnown,
                 drone_program, topic, published, edits, orders,
                 authors, orderly>>

\* The flight loop receives the program, or does not run and misses it.
FlightLoopReceives ==
  /\ topic # <<>>
  /\ topic' = Tail(topic)
  /\ UNCHANGED <<storeVars, modal, queueVars, fieldKnown, drone_program, echo,
                 published, edits, orders, authors, orderly>>

\* A message finds the compiler disconnected from the server.
MessageLost(u) ==
  /\ connected[u] /\ outbox[u] # <<>>
  /\ outbox' = [outbox EXCEPT ![u] = Tail(outbox[u])]
  /\ UNCHANGED <<storeVars, modal, connected, inbox, fieldKnown,
                 drone_program, rosVars, edits, orders, authors, orderly>>

InteropAnswers ==
  /\ fieldKnown' \in Fields
  /\ UNCHANGED <<storeVars, modal, queueVars, drone_program, rosVars, edits,
                 orders, authors, orderly>>

CompilerRestarts ==
  /\ drone_program' = NoProgram
  /\ echo' = <<>>
  /\ UNCHANGED <<storeVars, modal, queueVars, fieldKnown, topic, published,
                 edits, orders, authors, orderly>>

-----------------------------------------------------------------------------
(* The UI's socket and what arrives on it.                                 *)

Connect(u) ==
  /\ ~connected[u]
  /\ connected' = [connected EXCEPT ![u] = TRUE]
  /\ UNCHANGED <<storeVars, modal, outbox, inbox, fieldKnown, drone_program,
                 rosVars, edits, orders, authors, orderly>>

\* The connection breaks, or the socket is replaced by CONNECT_TO_GND_SERVER:
\* what was under way or kept by the old socket is lost.
Disconnect(u) ==
  /\ connected' = [connected EXCEPT ![u] = FALSE]
  /\ outbox' = [outbox EXCEPT ![u] = <<>>]
  /\ inbox' = [inbox EXCEPT ![u] = <<>>]
  /\ orderly' = (orderly /\ inbox[u] = <<>>)
  /\ UNCHANGED <<storeVars, modal, fieldKnown, drone_program, rosVars, edits,
                 orders, authors>>

Compiled(u) ==
  /\ inbox[u] # <<>> /\ Head(inbox[u]).msg = "COMPILED_DRONE_PROGRAM"
  /\ inbox' = [inbox EXCEPT ![u] = Tail(inbox[u])]
  /\ droneProgram' = [droneProgram EXCEPT ![u] = Head(inbox[u]).program]
  /\ missionCompiled' = [missionCompiled EXCEPT ![u] = TRUE]
  /\ missionUploaded' = [missionUploaded EXCEPT ![u] = FALSE]
  /\ UNCHANGED <<commands, modal, connected, outbox, fieldKnown,
                 drone_program, rosVars, edits, orders, authors, orderly>>

Uploaded(u) ==
  /\ inbox[u] # <<>> /\ Head(inbox[u]).msg = "UPLOADED_DRONE_PROGRAM"
  /\ inbox' = [inbox EXCEPT ![u] = Tail(inbox[u])]
  /\ droneProgram' = [droneProgram EXCEPT ![u] = Head(inbox[u]).program]
  /\ missionUploaded' = [missionUploaded EXCEPT ![u] = TRUE]
  /\ UNCHANGED <<commands, missionCompiled, modal, connected, outbox,
                 fieldKnown, drone_program, rosVars, edits, orders, authors,
                 orderly>>

-----------------------------------------------------------------------------

UploadNext ==
  \/ \E u \in Uis :
       \/ Edit(u) \/ OpenDialog(u) \/ CancelDialog(u)
       \/ CompileMission(u) \/ UploadMission(u) \/ ResetStore(u)
       \/ Compile(u) \/ Upload(u) \/ MessageLost(u)
       \/ Connect(u) \/ Disconnect(u) \/ Compiled(u) \/ Uploaded(u)
  \/ DroneProgramReceived \/ FlightLoopReceives
  \/ InteropAnswers \/ CompilerRestarts

UploadSpec == UploadInit /\ [][UploadNext]_uploadVars

-----------------------------------------------------------------------------

\* The variables have the types the code gives them.
UploadTypeOK ==
  /\ commands \in [Uis -> 0 .. edits]
  /\ missionCompiled \in [Uis -> BOOLEAN]
  /\ missionUploaded \in [Uis -> BOOLEAN]
  /\ droneProgram \in [Uis -> Programs \union {NoProgram}]
  /\ modal \in [Uis -> {"closed", "Compile Mission", "Upload Mission"}]
  /\ connected \in [Uis -> BOOLEAN]
  /\ outbox \in [Uis -> Seq(Messages)] /\ inbox \in [Uis -> Seq(Messages)]
  /\ \A u \in Uis : Len(outbox[u]) <= MaxQueue /\ Len(inbox[u]) <= MaxQueue
  /\ fieldKnown \in Fields
  /\ drone_program \in Programs \union {NoProgram}
  /\ topic \in Seq(Programs) /\ echo \in Seq(Programs)
  /\ Len(topic) <= MaxQueue /\ Len(echo) <= MaxQueue
  /\ edits \in 0 .. MaxEdits /\ orders \in 0 .. MaxOrders
  /\ published \subseteq Programs
  /\ authors \subseteq Uis /\ orderly \in BOOLEAN

\* One operator compiles, and waits for each answer, which arrives.
OneCarefulOperator == orderly /\ Cardinality(authors) <= 1

\* The UI that offers to upload what it had compiled shows, as its compiled
\* mission, the commands that it shows as its plan.
CompiledIsThePlan ==
  OneCarefulOperator =>
    \A u \in authors :
      missionCompiled[u] =>
        droneProgram[u].compiled /\ droneProgram[u].commands = commands[u]

\* The program that is published is the one that was shown, as compiled, to
\* the operator who confirmed its upload.
UploadsTheShown ==
  OneCarefulOperator =>
    \A u \in authors :
      outbox[u] # <<>> /\ Head(outbox[u]).msg = "UPLOAD_MISSION"
        => drone_program \in {Head(outbox[u]).program, NoProgram}

\* A mission that is labelled "Uploaded" was published: it is never one that
\* was only compiled.
UploadedWasPublished ==
  \A u \in Uis : missionUploaded[u] => droneProgram[u] \in published

\* Whatever operators order is carried out or lost with a connection: nothing
\* stays behind in a UI that was disconnected, or waits for a process that was
\* restarted.
OrdersAreSettled == <>[]Quiet
=============================================================================
