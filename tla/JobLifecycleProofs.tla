-------------------------- MODULE JobLifecycleProofs --------------------------
(***************************************************************************)
(* What holds of a background job under any number of cancels, with        *)
(* processes that may be killed anywhere and writes that may fail.  The    *)
(* parent is ahead of the wrapper ("late" is not a fault); JobLateParent   *)
(* shows what happens otherwise.                                           *)
(***************************************************************************)
EXTENDS JobLifecycle, TLAPS

LEMMA StatusSets ==
  /\ {"pending", "running", "completed", "failed", "cancelled", "none"} \subseteq Statuses
  /\ {"completed", "failed", "cancelled", "none"} \subseteq Statuses \ Live
  /\ Statuses \ Live \subseteq Statuses
BY DEF Statuses, Live, Terminal

LEMMA StatusOfTypes == \A e : StatusOf(e) \in {"completed", "cancelled", "failed"}
BY DEF StatusOf

(* Nothing but r, or nothing readable.                                       *)
LEMMA WrittenTypes == \A r \in File : Written(r) \subseteq File
<1>1. Torn \in File
  BY DEF Torn, File
<1>2. QED
  BY <1>1 DEF Written

(* Where the wrapper and a canceller go, the rest of the frame stays.        *)
LEMMA AllStages ==
  /\ {"none", "pending file", "pending text", "pending list", "running file", "running text",
      "running list", "running journal", "spawn pi", "record pi", "await pi", "final file",
      "final text", "final list", "final journal", "failed read", "failed file", "failed text",
      "failed list", "failed journal", "announce", "exit", "gone"} \subseteq Stages
  /\ {"look", "push", "poll", "kill pi", "kill wrapper", "container", "list", "journal",
      "read", "file", "text", "done", "stopped"} \subseteq Cancels
BY DEF Stages, Beginning, Working, Ending, Cancels

LEMMA ThenTypes ==
  ASSUME TypeOK, NEW from, NEW to \in Stages, Then(from, to)
  PROVE  /\ wrapper' \in Stages /\ answer' \in Answers
         /\ UNCHANGED <<detached, engine, parent, cancel, seen, stored>>
BY DEF TypeOK, Then, Answers

LEMMA GotoTypes ==
  ASSUME TypeOK, NEW c, NEW from, NEW to \in Cancels, Goto(c, from, to)
  PROVE  /\ cancel' \in [Cancellers -> Cancels] /\ answer' \in Answers
         /\ UNCHANGED <<detached, engine, parent, end, kept>>
<1>1. cancel' \in [Cancellers -> Cancels]
  BY DEF TypeOK, Goto
<1>2. answer' \in Answers
  BY DEF TypeOK, Goto, Answers
<1>3. QED
  BY <1>1, <1>2 DEF Goto

LEMMA TypeInit == Init => TypeOK
<1> SUFFICES ASSUME Init PROVE TypeOK
  OBVIOUS
<1>1. index \in Entry /\ file \in File
  BY StatusSets DEF Init, Entry, File, Unlisted, Missing
<1>2. seen \in [Cancellers -> [pid : BOOLEAN, piPid : BOOLEAN]] /\ stored \in [Cancellers -> BOOLEAN]
  BY DEF Init
<1>3. journal \in Statuses /\ announced \in Statuses \ Live
  BY StatusSets DEF Init
<1>4. cancel \in [Cancellers -> Cancels] /\ wrapper \in Stages /\ answer \in Answers
  BY AllStages DEF Init, Answers
<1>5. QED
  BY <1>1, <1>2, <1>3, <1>4 DEF Init, TypeOK

LEMMA ParentTypes == TypeOK /\ (Parent \/ ParentFails) => TypeOK'
<1> USE AllStages DEF ParentGoes, copies
<1>1. TypeOK /\ ParentSpawns => TypeOK'
  BY DEF TypeOK, ParentSpawns
<1>2. ASSUME TypeOK, ParentTruncates \/ ParentWritesFile PROVE TypeOK'
  <2>1. [status |-> "pending", answer |-> FALSE] \in File /\ Missing \in File
    BY StatusSets DEF File, Missing
  <2>2. file' \in File
    BY <1>2, <2>1, WrittenTypes DEF ParentTruncates, ParentWritesFile
  <2>3. QED
    BY <1>2, <2>2 DEF TypeOK, ParentTruncates, ParentWritesFile
<1>3. ASSUME TypeOK, ParentListsJob PROVE TypeOK'
  <2>1. index' \in Entry
    BY <1>3, StatusSets DEF TypeOK, ParentListsJob, Entry
  <2>2. QED
    BY <1>3, <2>1 DEF TypeOK, ParentListsJob
<1>4. TypeOK /\ ParentFails => TypeOK'
  BY DEF TypeOK, ParentFails
<1>5. QED
  BY <1>1, <1>2, <1>3, <1>4 DEF Parent

(* Each step of the wrapper changes one record, or none.                     *)
LEMMA WrapperTypes == TypeOK /\ (Wrapper \/ WriteThrows \/ WrapperCrashes) => TypeOK'
<1> SUFFICES ASSUME TypeOK, Wrapper \/ WriteThrows \/ WrapperCrashes PROVE TypeOK'
  OBVIOUS
<1> USE AllStages, ThenTypes
<1>1. CASE TruncatePending \/ TruncateRunning \/ TruncateFinal \/ TruncateFailed
  <2>1. Missing \in File
    BY StatusSets DEF File, Missing
  <2>2. CASE TruncatePending
    BY <2>1, <2>2 DEF TypeOK, TruncatePending
  <2>3. CASE TruncateRunning
    BY <2>1, <2>3 DEF TypeOK, TruncateRunning
  <2>4. CASE TruncateFinal
    BY <2>1, <2>4 DEF TypeOK, TruncateFinal
  <2>5. CASE TruncateFailed
    BY <2>1, <2>5 DEF TypeOK, TruncateFailed
  <2>6. QED
    BY <1>1, <2>2, <2>3, <2>4, <2>5
<1>2. CASE WritePendingFile \/ WriteRunningFile \/ WriteFinalFile \/ WriteFailedFile
  <2>1. \A b \in {"pending", "running", "failed"}, k \in BOOLEAN : [status |-> b, answer |-> k] \in File
    BY StatusSets DEF File
  <2>2. Report(end) \in File
    BY StatusSets, StatusOfTypes DEF Report, File
  <2>3. kept \in BOOLEAN
    BY DEF TypeOK
  <2>4. file' \in File
    BY <1>2, <2>1, <2>2, <2>3, WrittenTypes
       DEF WritePendingFile, WriteRunningFile, WriteFinalFile, WriteFailedFile
  <2>5. CASE WritePendingFile
    BY <2>4, <2>5 DEF TypeOK, WritePendingFile
  <2>6. CASE WriteRunningFile
    BY <2>4, <2>6 DEF TypeOK, WriteRunningFile
  <2>7. CASE WriteFinalFile
    BY <2>4, <2>7 DEF TypeOK, WriteFinalFile
  <2>8. CASE WriteFailedFile
    BY <2>4, <2>8 DEF TypeOK, WriteFailedFile
  <2>9. QED
    BY <1>2, <2>5, <2>6, <2>7, <2>8
<1>3. CASE ReadForFailure
  <2>1. file.answer \in BOOLEAN
    BY DEF TypeOK, File
  <2>2. QED
    BY <1>3, <2>1 DEF TypeOK, ReadForFailure, records
<1>4. CASE ListPending \/ ListRunning \/ RecordPi
  <2>1. index' \in Entry
    BY <1>4, StatusSets DEF TypeOK, ListPending, ListRunning, RecordPi, Entry
  <2>2. CASE ListPending
    BY <2>1, <2>2 DEF TypeOK, ListPending
  <2>3. CASE ListRunning
    BY <2>1, <2>3 DEF TypeOK, ListRunning
  <2>4. CASE RecordPi
    BY <2>1, <2>4 DEF TypeOK, RecordPi
  <2>5. QED
    BY <1>4, <2>2, <2>3, <2>4
<1>5. CASE ListFinal \/ ListFailed
  <2>1. StatusOf(end) \in Statuses /\ "failed" \in Statuses
    BY StatusSets, StatusOfTypes
  <2>2. index' \in Entry
    BY <1>5, <2>1 DEF TypeOK, ListFinal, ListFailed, Entry
  <2>3. CASE ListFinal
    BY <2>2, <2>3 DEF TypeOK, ListFinal
  <2>4. CASE ListFailed
    BY <2>2, <2>4 DEF TypeOK, ListFailed
  <2>5. QED
    BY <1>5, <2>3, <2>4
<1>6. CASE JournalRunning
  BY <1>6, StatusSets DEF TypeOK, JournalRunning
<1>7. CASE JournalFinal \/ JournalFailed
  <2>1. StatusOf(end) \in Statuses /\ "failed" \in Statuses
    BY StatusSets, StatusOfTypes
  <2>2. CASE JournalFinal
    BY <2>1, <2>2 DEF TypeOK, JournalFinal
  <2>3. CASE JournalFailed
    BY <2>1, <2>3 DEF TypeOK, JournalFailed
  <2>4. QED
    BY <1>7, <2>2, <2>3
<1>8. CASE RunnerThrows \/ SpawnPi
  BY <1>8 DEF TypeOK, RunnerThrows, SpawnPi, records
<1>9. CASE RunEnds
  BY <1>9 DEF TypeOK, RunEnds, records
<1>10. CASE Announce
  <2>1. SaidBy(end) \in Statuses \ Live
    BY StatusSets DEF SaidBy
  <2>2. file.status \in Statuses \cup {"torn"}
    BY DEF TypeOK, File
  <2>3. announced' \in Statuses \ Live
    BY <1>10, <2>1, <2>2 DEF TypeOK, Announce
  <2>4. QED
    BY <1>10, <2>3 DEF TypeOK, Announce
<1>11. CASE Exit \/ WrapperCrashes
  <2>1. CASE Exit
    BY <2>1 DEF TypeOK, Exit, records
  <2>2. CASE WrapperCrashes
    BY <2>2 DEF TypeOK, WrapperCrashes, records
  <2>3. QED
    BY <1>11, <2>1, <2>2
<1>12. CASE WriteThrows
  BY <1>12 DEF TypeOK, WriteThrows, records
<1>13. QED
  BY <1>1, <1>2, <1>3, <1>4, <1>5, <1>6, <1>7, <1>8, <1>9, <1>10, <1>11, <1>12 DEF Wrapper

LEMMA CancellerTypes ==
  ASSUME NEW c \in Cancellers, TypeOK, Canceller(c) \/ CancellerStops(c) PROVE TypeOK'
<1> USE AllStages, GotoTypes
<1>1. CASE PickJob(c)
  <2>1. index.pid \in BOOLEAN /\ index.piPid \in BOOLEAN
    BY DEF TypeOK, Entry
  <2>2. seen' \in [Cancellers -> [pid : BOOLEAN, piPid : BOOLEAN]]
    BY <1>1, <2>1 DEF PickJob, TypeOK
  <2>3. QED
    BY <1>1, <2>2 DEF TypeOK, PickJob, records
<1>2. CASE PushAbort(c) \/ SeeItEnd(c) \/ StopWaiting(c) \/ CancellerStops(c)
  <2>1. CASE PushAbort(c)
    BY <2>1 DEF TypeOK, PushAbort, records
  <2>2. CASE SeeItEnd(c)
    BY <2>2 DEF TypeOK, SeeItEnd, records
  <2>3. CASE StopWaiting(c)
    BY <2>3 DEF TypeOK, StopWaiting, records
  <2>4. CASE CancellerStops(c)
    BY <2>4 DEF TypeOK, CancellerStops, records
  <2>5. QED
    BY <1>2, <2>1, <2>2, <2>3, <2>4
<1>3. CASE KillPi(c) \/ RemoveContainer(c)
  <2>1. CASE KillPi(c)
    BY <2>1 DEF TypeOK, KillPi, records
  <2>2. CASE RemoveContainer(c)
    BY <2>2 DEF TypeOK, RemoveContainer, records
  <2>3. QED
    BY <1>3, <2>1, <2>2
<1>4. CASE KillWrapper(c)
  BY <1>4 DEF TypeOK, KillWrapper, records
<1>5. CASE ListCancelled(c)
  <2>1. index' \in Entry
    BY <1>5, StatusSets DEF TypeOK, ListCancelled, Entry
  <2>2. QED
    BY <1>5, <2>1 DEF TypeOK, ListCancelled
<1>6. CASE JournalCancelled(c)
  BY <1>6, StatusSets DEF TypeOK, JournalCancelled
<1>7. CASE ReadFile(c)
  <2>1. file.answer \in BOOLEAN
    BY DEF TypeOK, File
  <2>2. QED
    BY <1>7, <2>1 DEF TypeOK, ReadFile, records
<1>8. CASE TruncateCancelled(c) \/ WriteCancelledFile(c)
  <2>1. CancelledFile(stored[c]) \in File /\ Missing \in File
    BY StatusSets DEF TypeOK, CancelledFile, File, Missing
  <2>2. file' \in File
    BY <1>8, <2>1, WrittenTypes DEF TruncateCancelled, WriteCancelledFile
  <2>3. CASE TruncateCancelled(c)
    BY <2>2, <2>3 DEF TypeOK, TruncateCancelled
  <2>4. CASE WriteCancelledFile(c)
    BY <2>2, <2>4 DEF TypeOK, WriteCancelledFile
  <2>5. QED
    BY <1>8, <2>3, <2>4
<1>9. QED
  BY <1>1, <1>2, <1>3, <1>4, <1>5, <1>6, <1>7, <1>8 DEF Canceller

LEMMA StepKeepsTypes == TypeOK /\ [Next]_vars => TypeOK'
<1>1. TypeOK /\ PiExits => TypeOK'
  BY DEF PiExits, records, copies, TypeOK
<1>2. TypeOK /\ UNCHANGED vars => TypeOK'
  BY DEF vars, records, processes, copies, TypeOK
<1>3. QED
  BY <1>1, <1>2, ParentTypes, WrapperTypes, CancellerTypes DEF Next

(* The records and the processes keep their types, whatever the faults and   *)
(* however many cancels there are.                                           *)
THEOREM TypeCorrect == Spec => []TypeOK
BY TypeInit, StepKeepsTypes, PTL DEF Spec
-----------------------------------------------------------------------------
(* The inductive invariant of a background job that was handed over.  The    *)
(* list says where the wrapper is as long as the wrapper may still change    *)
(* it, so a cancel that found the job alive knows the pid of the wrapper,    *)
(* and is past its kill only when the wrapper is dead or has made its last   *)
(* change to the list; from then on only cancels touch the job file.  The    *)
(* answer is in the file or with the one writer that holds it (Keeping).     *)
Early   == {"pending file", "pending text", "pending list", "running file", "running text", "running list"}
Started == {"running journal", "spawn pi", "record pi", "await pi", "final file", "final text",
            "final list", "failed read", "failed file", "failed text", "failed list"}
MayList == Early \cup Started
Before  == Early \cup {"none", "running journal", "spawn pi", "record pi", "await pi",
                       "final file", "final text"}

HandOff ==
  /\ parent # "done" => /\ wrapper \in {"none", "pending file", "gone"}
                        /\ index = Unlisted /\ answer = "none"
                        /\ \A c \in Cancellers : cancel[c] = "look"
  /\ wrapper = "none" => parent = "spawn"

Listing ==
  /\ index.status \in Live => index.pid
  /\ parent = "done" /\ wrapper \in Early => index.status = "pending"
  /\ wrapper \in Started => index.status = "running"

Cancelling(c) ==
  /\ cancel[c] \in {"push", "poll", "kill pi", "kill wrapper"} => seen[c].pid
  /\ cancel[c] \in {"push", "poll"} => wrapper \notin Early
  /\ cancel[c] \in {"container", "list", "journal", "read", "file", "text", "done"} => wrapper \notin MayList
  /\ cancel[c] \in {"journal", "read", "file", "text"} => index.status = "cancelled"
  /\ cancel[c] \in {"read", "file", "text", "done"} => journal \in Terminal

Answered ==
  /\ wrapper = "final text" => file = Missing
  /\ wrapper = "final list" => file.answer
  /\ index.status = "completed" => file.answer

Carried(c) ==
  /\ cancel[c] = "file" => stored[c]
  /\ cancel[c] = "text" => /\ stored[c] /\ file = Missing
                           /\ \A d \in Cancellers \ {c} : cancel[d] # "text"

Keeping ==
  /\ wrapper \in Before => answer = "none"
  /\ answer = "stored" =>
       /\ wrapper \in {"failed file", "failed text"} => kept
       /\ wrapper = "failed text" => file = Missing
       /\ wrapper = "failed text" \/ (\E c \in Cancellers : cancel[c] = "text") \/ file.answer
       /\ \A c \in Cancellers : Carried(c)

BackgroundInv == HandOff /\ Listing /\ Answered /\ Keeping /\ \A c \in Cancellers : Cancelling(c)

LEMMA InvInit == Init /\ detached => BackgroundInv
BY DEF Init, BackgroundInv, HandOff, Listing, Answered, Keeping, Cancelling, Unlisted, Live,
       Early, Started, MayList, Before

LEMMA NothingListed == HandOff /\ parent # "done" => index.status = "none"
<1>1. Unlisted.status = "none"
  BY DEF Unlisted
<1>2. QED
  BY <1>1 DEF HandOff

(* The parent writes before the wrapper does, and before anyone sees the job. *)
LEMMA ParentKeepsInv == ASSUME TypeOK, BackgroundInv, Parent PROVE BackgroundInv'
<1> USE NothingListed DEF BackgroundInv, HandOff, Listing, Answered, Keeping, Cancelling,
        Early, Started, MayList, Before, Live, ParentGoes, copies
<1>1. CASE ParentSpawns
  BY <1>1 DEF ParentSpawns
<1>2. CASE ParentTruncates
  BY <1>2 DEF ParentTruncates
<1>3. CASE ParentWritesFile
  BY <1>3 DEF ParentWritesFile
<1>4. CASE ParentListsJob
  BY <1>4 DEF ParentListsJob, TypeOK, Entry
<1>5. QED
  BY <1>1, <1>2, <1>3, <1>4 DEF Parent

LEMMA WrapperKeepsInv ==
  ASSUME TypeOK, BackgroundInv, parent # "lost", "late" \notin Faults,
         Wrapper \/ WriteThrows \/ WrapperCrashes
  PROVE  BackgroundInv'
<1> USE DEF BackgroundInv, HandOff, Listing, Answered, Keeping, Carried, Cancelling,
        Early, Started, MayList, Before, Live, Then
<1>1. CASE TruncatePending
  BY <1>1 DEF TruncatePending, ParentIsAhead
<1>2. CASE WritePendingFile
  BY <1>2 DEF WritePendingFile
<1>3. CASE ListPending
  BY <1>3 DEF ListPending, TypeOK, Entry
<1>4. CASE TruncateRunning
  BY <1>4 DEF TruncateRunning
<1>5. CASE WriteRunningFile
  BY <1>5 DEF WriteRunningFile
<1>6. CASE ListRunning
  BY <1>6 DEF ListRunning, TypeOK, Entry
<1>7. CASE JournalRunning
  BY <1>7 DEF JournalRunning
<1>8. CASE RunnerThrows
  BY <1>8 DEF RunnerThrows, records
<1>9. CASE SpawnPi
  BY <1>9 DEF SpawnPi, records
<1>10. CASE RecordPi
  BY <1>10 DEF RecordPi, TypeOK, Entry
<1>11. CASE RunEnds
  BY <1>11 DEF RunEnds, records
<1>12. CASE TruncateFinal
  BY <1>12 DEF TruncateFinal
<1>13. CASE WriteFinalFile
  <2>1. file' = Report(end)
    BY <1>13 DEF WriteFinalFile, Written
  <2>2. file'.answer
    BY <2>1 DEF Report
  <2>3. QED
    BY <1>13, <2>2 DEF WriteFinalFile
<1>14. CASE ListFinal
  BY <1>14 DEF ListFinal, StatusOf, TypeOK, Entry
<1>15. CASE JournalFinal
  BY <1>15 DEF JournalFinal, StatusOf, Terminal
<1>16. CASE ReadForFailure
  BY <1>16 DEF ReadForFailure, records
<1>17. CASE TruncateFailed
  BY <1>17 DEF TruncateFailed
<1>18. CASE WriteFailedFile
  <2>1. index.status = "running"
    BY <1>18 DEF WriteFailedFile
  <2>2. answer = "stored" => file' = [status |-> "failed", answer |-> kept] /\ kept = TRUE
    BY <1>18 DEF WriteFailedFile, Written, TypeOK
  <2>3. answer = "stored" => file'.answer
    <3> SUFFICES ASSUME answer = "stored" PROVE file'.answer
      OBVIOUS
    <3>1. file' = [status |-> "failed", answer |-> TRUE]
      BY <2>2
    <3>2. QED
      BY <3>1
  <2>4. answer' = answer
    BY <1>18 DEF WriteFailedFile
  <2>5. QED
    BY <1>18, <2>1, <2>3, <2>4 DEF WriteFailedFile
<1>19. CASE ListFailed
  BY <1>19 DEF ListFailed, TypeOK, Entry
<1>20. CASE JournalFailed
  BY <1>20 DEF JournalFailed, Terminal
<1>21. CASE Announce
  BY <1>21 DEF Announce
<1>22. CASE Exit
  BY <1>22 DEF Exit, records
<1>23. CASE WriteThrows
  BY <1>23 DEF WriteThrows, records
<1>24. CASE WrapperCrashes
  BY <1>24 DEF WrapperCrashes, records, WrapperAlive
<1>25. QED
  BY <1>1, <1>2, <1>3, <1>4, <1>5, <1>6, <1>7, <1>8, <1>9, <1>10, <1>11, <1>12, <1>13, <1>14, <1>15, <1>16, <1>17, <1>18, <1>19, <1>20, <1>21, <1>22, <1>23, <1>24 DEF Wrapper

LEMMA CancellerKeepsInv ==
  ASSUME NEW c \in Cancellers, TypeOK, BackgroundInv, parent # "lost", Canceller(c) \/ CancellerStops(c)
  PROVE  BackgroundInv'
<1> USE DEF BackgroundInv, HandOff, Listing, Answered, Keeping, Carried, Cancelling,
        Early, Started, MayList, Before, Live, Goto, Spoils
<1>1. CASE PickJob(c)
  <2>1. index.status \in Live /\ index.pid
    BY <1>1 DEF PickJob, Shown, Tracked, TypeOK, Entry, Statuses, Terminal
  <2>2. Shown = "running" => index.status = "running"
    BY DEF Shown
  <2>3. seen'[c].pid /\ \A d \in Cancellers \ {c} : seen'[d] = seen[d]
    BY <1>1, <2>1 DEF PickJob, TypeOK
  <2>4. cancel' = [cancel EXCEPT ![c] = IF Shown = "running" /\ engine = "rpc" THEN "push" ELSE "kill pi"]
    BY <1>1 DEF PickJob
  <2>5. UNCHANGED <<records, wrapper, parent, stored, kept, answer>>
    BY <1>1 DEF PickJob
  <2>6. parent = "done"
    BY <2>1, NothingListed DEF Live
  <2>7. wrapper \in Early => index.status # "running"
    BY <2>6
  <2>8. \A d \in Cancellers : Cancelling(d)'
    BY <2>2, <2>3, <2>4, <2>5, <2>7 DEF TypeOK, records
  <2>9. Keeping'
    <3>1. cancel[c] = "look"
      BY <1>1 DEF PickJob
    <3>2. cancel'[c] \notin {"file", "text"} /\ \A d \in Cancellers \ {c} : cancel'[d] = cancel[d]
      BY <2>4 DEF TypeOK
    <3>3. \A d \in Cancellers : cancel'[d] = "text" <=> cancel[d] = "text"
      BY <3>1, <3>2
    <3>4. \A d \in Cancellers : Carried(d) => Carried(d)'
      BY <2>5, <3>2, <3>3 DEF records
    <3>5. QED
      BY <2>5, <3>3, <3>4 DEF records
  <2>10. QED
    BY <2>4, <2>5, <2>6, <2>8, <2>9 DEF records
<1>2. CASE PushAbort(c)
  BY <1>2 DEF PushAbort, records, TypeOK
<1>3. CASE SeeItEnd(c)
  BY <1>3 DEF SeeItEnd, records, TypeOK
<1>4. CASE StopWaiting(c)
  BY <1>4 DEF StopWaiting, records, TypeOK
<1>5. CASE KillPi(c)
  BY <1>5 DEF KillPi, records, TypeOK
<1>6. CASE KillWrapper(c)
  BY <1>6 DEF KillWrapper, records, TypeOK
<1>7. CASE RemoveContainer(c)
  BY <1>7 DEF RemoveContainer, records, TypeOK
<1>8. CASE ListCancelled(c)
  BY <1>8 DEF ListCancelled, TypeOK, Entry
<1>9. CASE JournalCancelled(c)
  BY <1>9 DEF JournalCancelled, Terminal, TypeOK
<1>10. CASE ReadFile(c)
  BY <1>10 DEF ReadFile, TypeOK, records
<1>11. CASE TruncateCancelled(c)
  BY <1>11 DEF TruncateCancelled, TypeOK
<1>12. CASE WriteCancelledFile(c)
  <2>1. cancel[c] = "text" /\ index.status = "cancelled" /\ wrapper \notin MayList
    BY <1>12 DEF WriteCancelledFile
  <2>2. cancel' = [cancel EXCEPT ![c] = "done"] /\ answer' = answer
        /\ UNCHANGED <<index, journal, wrapper, parent, seen, stored, kept>>
    BY <1>12 DEF WriteCancelledFile
  <2>3. cancel'[c] = "done" /\ \A d \in Cancellers \ {c} : cancel'[d] = cancel[d]
    BY <2>2 DEF TypeOK
  <2>4. HandOff' /\ Listing' /\ Answered' /\ \A d \in Cancellers : Cancelling(d)'
    BY <2>1, <2>2, <2>3
  <2>5. Keeping'
    <3>1. wrapper' \in Before => answer' = "none"
      BY <2>2
    <3>2. ASSUME answer = "stored" PROVE file'.answer
      <4>1. file = Missing /\ stored[c] = TRUE
        BY <2>1, <3>2 DEF TypeOK
      <4>2. file' = [status |-> "cancelled", answer |-> TRUE]
        BY <1>12, <4>1 DEF WriteCancelledFile, Written, CancelledFile
      <4>3. QED
        BY <4>2
    <3>3. ASSUME answer = "stored", NEW d \in Cancellers PROVE Carried(d)'
      BY <2>1, <2>2, <2>3, <3>3
    <3>4. QED
      BY <2>1, <2>2, <3>1, <3>2, <3>3
  <2>6. QED
    BY <2>4, <2>5
<1>13. CASE CancellerStops(c)
  BY <1>13 DEF CancellerStops, TypeOK, records
<1>14. QED
  BY <1>1, <1>2, <1>3, <1>4, <1>5, <1>6, <1>7, <1>8, <1>9, <1>10, <1>11, <1>12, <1>13 DEF Canceller

LEMMA StepKeepsInv ==
  ASSUME TypeOK, BackgroundInv, parent # "lost", "late" \notin Faults, [Next]_vars, HandedOver'
  PROVE  BackgroundInv'
<1>1. CASE PiExits
  BY <1>1 DEF PiExits, records, copies, BackgroundInv, HandOff, Listing, Answered, Keeping, Carried,
     Cancelling
<1>2. CASE UNCHANGED vars
  BY <1>2 DEF vars, records, processes, copies, BackgroundInv, HandOff, Listing, Answered, Keeping,
     Carried, Cancelling
<1>3. ~ParentFails
  BY DEF HandedOver, ParentFails, ParentGoes
<1>4. QED
  BY <1>1, <1>2, <1>3, ParentKeepsInv, WrapperKeepsInv, CancellerKeepsInv DEF Next

(* Nothing turns a foreground run into a background one, and a parent that   *)
(* is lost stays so.                                                         *)
LEMMA HandedOverBefore == [Next]_vars /\ HandedOver' => HandedOver
<1>1. Parent \/ ParentFails => detached' = detached /\ parent # "lost"
  BY DEF Parent, ParentFails, ParentGoes, ParentSpawns, ParentTruncates, ParentWritesFile, ParentListsJob
<1>2. Wrapper => UNCHANGED <<detached, parent>>
  BY DEF Wrapper, Then, TruncatePending, WritePendingFile, ListPending, TruncateRunning,
       WriteRunningFile, ListRunning, JournalRunning, RunnerThrows, SpawnPi, RecordPi, RunEnds,
       TruncateFinal, WriteFinalFile, ListFinal, JournalFinal, ReadForFailure, TruncateFailed,
       WriteFailedFile, ListFailed, JournalFailed, Announce, Exit
<1>3. WriteThrows \/ WrapperCrashes \/ PiExits => UNCHANGED <<detached, parent>>
  BY DEF WriteThrows, WrapperCrashes, PiExits, Then
<1>4. ASSUME NEW c \in Cancellers, Canceller(c) \/ CancellerStops(c)
      PROVE  UNCHANGED <<detached, parent>>
  BY <1>4 DEF Canceller, CancellerStops, Goto, PickJob, PushAbort, SeeItEnd, StopWaiting, KillPi,
       KillWrapper, RemoveContainer, ListCancelled, JournalCancelled, ReadFile, TruncateCancelled,
       WriteCancelledFile
<1>5. UNCHANGED vars => UNCHANGED <<detached, parent>>
  BY DEF vars, processes
<1>6. QED
  BY <1>1, <1>2, <1>3, <1>4, <1>5 DEF Next, HandedOver

LEMMA BackgroundInvariant ==
  ASSUME "late" \notin Faults
  PROVE  Spec => [](TypeOK /\ (HandedOver => BackgroundInv))
<1>1. Init => TypeOK /\ (HandedOver => BackgroundInv)
  BY TypeInit, InvInit DEF HandedOver
<1>2. TypeOK /\ (HandedOver => BackgroundInv) /\ [Next]_vars
        => (TypeOK /\ (HandedOver => BackgroundInv))'
  <2>1. ASSUME TypeOK, HandedOver => BackgroundInv, [Next]_vars, HandedOver' PROVE BackgroundInv'
    <3>1. HandedOver
      BY <2>1, HandedOverBefore
    <3>2. QED
      BY <2>1, <3>1, StepKeepsInv DEF HandedOver
  <2>2. QED
    BY <2>1, StepKeepsTypes
<1>3. QED
  BY <1>1, <1>2, PTL DEF Spec

(* Whoever sees a background job completed finds its answer in the job file, *)
(* whatever was killed or failed and however many cancels overlap its end.   *)
THEOREM AnswerComesFirst ==
  ASSUME "late" \notin Faults
  PROVE  Spec => []AnswerBeforeStatus
<1>1. (HandedOver => BackgroundInv) => AnswerBeforeStatus
  BY DEF BackgroundInv, Answered, AnswerBeforeStatus
<1>2. QED
  BY <1>1, BackgroundInvariant, PTL

(* Once any cancel has told the journal, the row of a background job is      *)
(* terminal and stays so.                                                    *)
THEOREM JournalHearsOfIt ==
  ASSUME "late" \notin Faults
  PROVE  Spec => []JournalNotLeftRunning
<1>1. (HandedOver => BackgroundInv) => JournalNotLeftRunning
  BY DEF BackgroundInv, Cancelling, JournalNotLeftRunning
<1>2. QED
  BY <1>1, BackgroundInvariant, PTL

(* The answer a background run stored is in its job file or in the hand of   *)
(* the one writer that is about to put it back, however many cancels there   *)
(* are and whatever was killed or failed, until a write of the file is cut   *)
(* short between its truncation and its content, or another canceller reads  *)
(* or truncates the file in between.                                         *)
THEOREM AnswerStays ==
  ASSUME "late" \notin Faults
  PROVE  Spec => []AnswerKept
<1>1. (HandedOver => BackgroundInv) => AnswerKept
  BY DEF BackgroundInv, Keeping, Carried, AnswerKept, InHand
<1>2. QED
  BY <1>1, BackgroundInvariant, PTL

(* The list never takes a cancelled background job back.                     *)
THEOREM CancelledStays ==
  ASSUME "late" \notin Faults
  PROVE  Spec => CancelledIsFinal
<1> DEFINE Final == HandedOver /\ index.status = "cancelled" => index'.status = "cancelled"
<1>1. TypeOK /\ (HandedOver => BackgroundInv) /\ [Next]_vars => [Final]_vars
  <2> SUFFICES ASSUME TypeOK, BackgroundInv, parent # "lost", index.status = "cancelled", Next
               PROVE  index'.status = "cancelled"
    BY DEF vars, records, HandedOver
  <2> USE DEF BackgroundInv, records
  <2>1. CASE Parent \/ ParentFails
    BY <2>1, NothingListed DEF Parent, ParentFails, ParentSpawns, ParentTruncates, ParentWritesFile,
         ParentListsJob, ParentGoes
  <2>2. wrapper \notin {"pending list", "running list", "record pi", "final list", "failed list"}
    BY NothingListed DEF Listing, HandOff, Early, Started
  <2>3. CASE Wrapper \/ WriteThrows \/ WrapperCrashes
    BY <2>2, <2>3 DEF Wrapper, WriteThrows, WrapperCrashes, Then, TruncatePending, WritePendingFile,
         ListPending, TruncateRunning, WriteRunningFile, ListRunning, JournalRunning, RunnerThrows,
         SpawnPi, RecordPi, RunEnds, TruncateFinal, WriteFinalFile, ListFinal, JournalFinal,
         ReadForFailure, TruncateFailed, WriteFailedFile, ListFailed, JournalFailed, Announce, Exit
  <2>4. CASE PiExits
    BY <2>4 DEF PiExits
  <2>5. ASSUME NEW c \in Cancellers, Canceller(c) \/ CancellerStops(c) PROVE index'.status = "cancelled"
    BY <2>5 DEF Canceller, CancellerStops, PickJob, PushAbort, SeeItEnd, StopWaiting, KillPi,
         KillWrapper, RemoveContainer, ListCancelled, JournalCancelled, ReadFile, TruncateCancelled,
         WriteCancelledFile, TypeOK, Entry
  <2>6. QED
    BY <2>1, <2>3, <2>4, <2>5 DEF Next
<1>2. QED
  BY <1>1, BackgroundInvariant, PTL DEF Spec, CancelledIsFinal
=============================================================================
