---------------------------- MODULE TelemetryView ----------------------------
(***************************************************************************)
(* What the UI shows of the drone: the telemetry reducer                   *)
(* (redux/reducers/telemetryReducer.js) and the page that records flights  *)
(* and plays them back (components/Analytics/Analytics.js).                *)
(*                                                                         *)
(* "Run Loaded Telemetry" turns playback on and starts to read the chosen  *)
(* file; once the file is read a timer replays it and turns playback off.  *)
(* The button remembers that a recording is used only once the file is     *)
(* read, and in the page's own state, which a visit to another page resets *)
(* while the reader and the timer of the old page go on.                   *)
(*                                                                         *)
(* The array of recorded frames is changed in place, so that it is one     *)
(* array, the one of the reducer's initial state, whatever happens.        *)
(***************************************************************************)
EXTENDS Naturals, Sequences, SequencesExt

CONSTANTS
  FileLength,     \* the frames of the recording that is chosen
  MaxRecorded,    \* bound on the frames recorded
  MaxReplays,     \* bound on the readers and timers at work together
  Patient         \* whether the operator only starts a recording that exists,
                  \* can be read and is not started already, and stays on the
                  \* page until it ended

ViewAssumption ==
  /\ {FileLength, MaxRecorded, MaxReplays} \subseteq Nat
  /\ Patient \in BOOLEAN

Live      == {"live 1", "live 2"}
Frame(i)  == <<"recorded", i>>   \* loadedTelemetry[i], undefined at its end
Recorded  == {Frame(i) : i \in 0..FileLength}
NoFrame   == <<"none">>
LiveFrame(l) == <<l>>

VARIABLES
  droneTelemetry, playback, recording, telemetryData,   \* the reducer's state
  usingLoaded, isPaused,     \* the state of the page that is open
  file,                      \* the chosen file: "none", "bad" or "good"
  readers,                   \* the files being read, oldest first: the page
                             \* instance each belongs to and what is read
  replays,                   \* the timers: instance and next frame of each
  page,                      \* the number of the page instance, modulo 2
  received                   \* the live frames the reducer accepted since the
                             \* recording began (history)

reducer == <<droneTelemetry, playback, recording, telemetryData>>
pageVars == <<usingLoaded, isPaused, file, readers, replays, page>>
viewVars == <<reducer, pageVars, received>>

ViewInit ==
  /\ droneTelemetry = NoFrame
  /\ playback = FALSE /\ recording = FALSE /\ telemetryData = <<>>
  /\ usingLoaded = FALSE /\ isPaused = FALSE
  /\ file = "none"
  /\ readers = <<>> /\ replays = <<>>
  /\ page = 0
  /\ received = <<>>

\* A recording is being read or replayed.
Busy == readers # <<>> \/ replays # <<>>

-----------------------------------------------------------------------------
(* The reducer.                                                            *)

\* TELEMETRY, 5 times a second.
ReceiveTelemetry(live) ==
  /\ recording => Len(telemetryData) < MaxRecorded
  /\ IF playback
     THEN UNCHANGED <<droneTelemetry, telemetryData, received>>
     ELSE /\ droneTelemetry' = LiveFrame(live)
          /\ IF recording
             THEN /\ telemetryData' = Append(telemetryData, live)
                  /\ received' = Append(received, live)
             ELSE UNCHANGED <<telemetryData, received>>
  /\ UNCHANGED <<playback, recording, pageVars>>

\* toggleRecord: "Record", or "Save", which empties the array in place.
ToggleRecord ==
  /\ recording' = ~recording
  /\ telemetryData' = IF recording THEN <<>> ELSE telemetryData
  /\ received' = <<>>
  /\ UNCHANGED <<droneTelemetry, playback, pageVars>>

\* RESET_REDUX_STATE: the initial state, with the array as it is by now.
ResetTelemetry ==
  /\ Patient => ~Busy
  /\ droneTelemetry' = NoFrame
  /\ playback' = FALSE /\ recording' = FALSE
  /\ UNCHANGED <<telemetryData, pageVars>>
  /\ received' = <<>>

-----------------------------------------------------------------------------
(* The page.                                                               *)

\* The operator chooses a file.
ChooseFile(kind) ==
  /\ file' = kind
  /\ UNCHANGED <<reducer, usingLoaded, isPaused, readers, replays, page,
                 received>>

\* runLoaded: the button, "Run Loaded Telemetry", "Pause" or "Resume".
RunLoaded ==
  /\ Patient => ~(~usingLoaded /\ Busy) /\ file = "good"
  /\ IF ~usingLoaded
     THEN /\ Len(readers) + Len(replays) < MaxReplays
          /\ playback' = ~playback
          /\ readers' = IF file = "none" THEN readers
                        ELSE Append(readers, [page |-> page, file |-> file])
          /\ UNCHANGED isPaused
     ELSE isPaused' = ~isPaused /\ UNCHANGED <<playback, readers>>
  /\ UNCHANGED <<droneTelemetry, recording, telemetryData, usingLoaded, file,
                 replays, page, received>>

\* reader.onload: what is no recording throws, before anything is set.
FileRead ==
  /\ readers # <<>>
  /\ readers' = Tail(readers)
  /\ IF Head(readers).file = "bad"
     THEN UNCHANGED <<usingLoaded, replays>>
     ELSE /\ usingLoaded' = (usingLoaded \/ Head(readers).page = page)
          /\ replays' = Append(replays, [page |-> Head(readers).page, i |-> 0])
  /\ UNCHANGED <<reducer, isPaused, file, page, received>>

\* Mutant of Replay: the timer ends without turning playback off.
ReplayLeavesPlayback(r) ==
  LET i == replays[r].i + 1 IN
  /\ ~(replays[r].page = page /\ isPaused)
  /\ droneTelemetry' = Frame(replays[r].i)
  /\ IF i > FileLength
     THEN /\ usingLoaded' = (usingLoaded /\ replays[r].page # page)
          /\ replays' = RemoveAt(replays, r)
     ELSE replays' = [replays EXCEPT ![r].i = i] /\ UNCHANGED usingLoaded
  /\ UNCHANGED <<playback, recording, telemetryData, isPaused, file, readers,
                 page, received>>

\* A timer that is not paused, every 250 ms: it also plays the frame after
\* the last one, which is undefined, and ends then.
Replay(r) ==
  LET i == replays[r].i + 1 IN
  /\ ~(replays[r].page = page /\ isPaused)
  /\ droneTelemetry' = Frame(replays[r].i)
  /\ IF i > FileLength
     THEN /\ usingLoaded' = (usingLoaded /\ replays[r].page # page)
          /\ replays' = RemoveAt(replays, r)
          /\ playback' = ~playback
     ELSE /\ replays' = [replays EXCEPT ![r].i = i]
          /\ UNCHANGED <<usingLoaded, playback>>
  /\ UNCHANGED <<recording, telemetryData, isPaused, file, readers, page,
                 received>>

\* The operator visits another page and comes back: a new instance, while a
\* reader or a timer keeps the old one in use.  What is left behind paused
\* never does anything again.
VisitAnotherPage ==
  /\ ~Patient \/ ~Busy
  /\ page' = 1 - page
  /\ \A k \in DOMAIN readers : readers[k].page = page
  /\ \A k \in DOMAIN replays : replays[k].page = page
  /\ usingLoaded' = FALSE /\ isPaused' = FALSE /\ file' = "none"
  /\ readers' = IF isPaused THEN <<>> ELSE readers
  /\ replays' = IF isPaused THEN <<>> ELSE replays
  /\ UNCHANGED <<reducer, received>>

Replays == \E r \in DOMAIN replays : Replay(r)

ViewNext ==
  \/ \E live \in Live : ReceiveTelemetry(live)
  \/ ToggleRecord
  \/ ResetTelemetry
  \/ \E kind \in {"bad", "good"} : ChooseFile(kind)
  \/ RunLoaded
  \/ FileRead
  \/ Replays
  \/ VisitAnotherPage

ViewSpec == ViewInit /\ [][ViewNext]_viewVars

-----------------------------------------------------------------------------
(* Every variable has its type; in particular no timer reads further than  *)
(* one frame after the end of the recording.                               *)
ViewTypeOK ==
  /\ droneTelemetry \in {NoFrame} \union Recorded
                        \union {LiveFrame(l) : l \in Live}
  /\ {playback, recording, usingLoaded, isPaused} \subseteq BOOLEAN
  /\ telemetryData \in Seq(Live) /\ Len(telemetryData) <= MaxRecorded
  /\ file \in {"none", "bad", "good"} /\ page \in 0..1
  /\ \A k \in DOMAIN replays : replays[k].i \in 0..FileLength

(* The live telemetry is hidden exactly while a file is read or replayed:  *)
(* never for good, and never shown in between.  It holds for an operator   *)
(* who is careful.                                                         *)
PlaybackIsBusy == playback <=> Busy

(* What is saved ends with the live frames that were shown since "Record", *)
(* in their order and without gaps, whatever was played back meanwhile and *)
(* however carelessly.                                                     *)
SavesWhatWasShown == recording => IsSuffix(received, telemetryData)

(* A recording that was started ends, and live telemetry is shown again,   *)
(* unless the operator pauses it.                                          *)
PlaybackEnds ==
  playback ~> (isPaused \/ ~playback)
=============================================================================
