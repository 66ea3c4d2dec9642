---------------------------- MODULE VisionRecords ----------------------------
(***************************************************************************)
(* What the vision server writes down of one snipped image: two handlers   *)
(* of "classified", one for its shape and one for its letter, each in a    *)
(* thread of its own, write their result into the image's file and then    *)
(* look whether the file has both.  The file is read, emptied and written  *)
(* in three steps; there is no lock (img_manager.py).                      *)
(***************************************************************************)
EXTENDS Naturals, FiniteSets

CONSTANT Unreadable  \* a file that json.load refuses

Classes == {"shape", "letter"}

RecordsAssumption == \A classes \in SUBSET Classes : Unreadable # classes

VARIABLES
  info,       \* the classes in the image's file, or Unreadable
  step,       \* where the handler of a class is
  copy,       \* what it read
  announced,  \* how often the image was said to be classified
  crossed     \* history: a class was being written while the other was read

recordsVars == <<info, step, copy, announced, crossed>>

\* A handler raises an exception ("failed") or returns ("ended") and then
\* changes nothing any more.
Steps ==
  {"due", "read", "emptied", "shape", "letter", "done", "failed", "ended"}

RecordsInit ==
  /\ info = {} /\ announced = 0 /\ crossed = FALSE
  /\ step = [class \in Classes |-> "due"]
  /\ copy = [class \in Classes |-> {}]

Goes(class, next) == step' = [step EXCEPT ![class] = next]

-----------------------------------------------------------------------------

\* record_class, set_prop: json.load
Read(class) ==
  /\ step[class] = "due"
  /\ IF info = Unreadable THEN Goes(class, "failed") /\ UNCHANGED copy
     ELSE Goes(class, "read") /\ copy' = [copy EXCEPT ![class] = info]
  /\ crossed' = (\/ crossed
                 \/ \E other \in Classes : step[other] \in {"read", "emptied"})
  /\ UNCHANGED <<info, announced>>

\* open(filename, 'w')
Empty(class) ==
  /\ step[class] = "read"
  /\ info' = Unreadable
  /\ Goes(class, "emptied")
  /\ UNCHANGED <<copy, announced, crossed>>

\* json.dump, and the file is closed.  Over another text that was written since
\* it was emptied, some of that one may be left behind this one.
Dump(class) ==
  /\ step[class] = "emptied"
  /\ \/ info' = copy[class] \union {class}
     \/ info # Unreadable /\ info' = Unreadable
  /\ Goes(class, "shape")
  /\ UNCHANGED <<copy, announced, crossed>>

\* get_prop(img_id, check_class) is None
Check(class) ==
  /\ step[class] \in Classes
  /\ Goes(class, IF info = Unreadable THEN "failed"
                 ELSE IF step[class] \notin info THEN "ended"
                 ELSE IF step[class] = "shape" THEN "letter" ELSE "done")
  /\ UNCHANGED <<info, copy, announced, crossed>>

\* The record's task, new_classified and image_processed.
Announce(class) ==
  /\ step[class] = "done"
  /\ announced' = announced + 1
  /\ Goes(class, "ended")
  /\ UNCHANGED <<info, copy, crossed>>

RecordClass(class) ==
  Read(class) \/ Empty(class) \/ Dump(class) \/ Check(class) \/ Announce(class)

Over == \A class \in Classes : step[class] \in {"failed", "ended"}

RecordsNext == \E class \in Classes : RecordClass(class)

RecordsSpec == RecordsInit /\ [][RecordsNext]_recordsVars

-----------------------------------------------------------------------------

\* Types.
RecordsTypeOK ==
  /\ info \in (SUBSET Classes) \union {Unreadable}
  /\ step \in [Classes -> Steps]
  /\ copy \in [Classes -> SUBSET Classes]
  /\ announced \in 0 .. 2 /\ crossed \in BOOLEAN

\* An image is said to be classified after both results were written only
\* (server.py:284).
AnnouncedWasClassified ==
  announced > 0 \/ (\E class \in Classes : step[class] = "done") =>
    \A class \in Classes : step[class] \notin {"due", "read", "emptied"}

\* When both handlers are over the file has both results and the image was
\* said to be classified, although one handler's look into the file may fail
\* while the other writes it, unless a result was read into a handler's copy
\* while the other was being written (server.py:280).
ResultsAreKept ==
  Over /\ ~crossed => info = Classes /\ announced > 0
=============================================================================
