---------------------------- MODULE JobLifecycle ----------------------------
(***************************************************************************)
(* One job, from the hand-off of a background run to its terminal record   *)
(* (pi-companion.mjs, lib/jobs.mjs).  Four kinds of process touch it:      *)
(*   - the parent of a background run, which spawns the wrapper and then   *)
(*     records the job as pending (detachBackgroundRun);                   *)
(*   - the wrapper, which runs executeRun and runTrackedJob;               *)
(*   - pi, the wrapper's child in a process group of its own;              *)
(*   - cancellers, each one a call of cancelJob.                           *)
(* They share three records of the job: its entry in the list of           *)
(* state.json (StateStore makes an update of it atomic), its job file,     *)
(* which every writer first truncates and then fills, without a lock, and  *)
(* its row in the journal; and the announcement on the fleet channel.      *)
(*                                                                         *)
(* Faults names what may go wrong in a run:                                *)
(*   "crash"  the wrapper or a canceller is killed at any step,            *)
(*   "write"  a write of the wrapper or of a canceller throws,             *)
(*   "parent" the parent dies, or a write of its throws, after the spawn,  *)
(*   "late"   the wrapper starts before the parent has recorded the job.   *)
(***************************************************************************)
CONSTANTS
  Cancellers,     (* calls of cancelJob                                      *)
  Faults

ASSUME LifecycleAssumption == Faults \subseteq {"crash", "write", "parent", "late"}

VARIABLES
  detached,    (* a background run: it has a parent                          *)
  engine,      (* settings.engine                                            *)
  index,       (* the entry in the job list                                  *)
  file,        (* the job file                                               *)
  journal,     (* the status in the journal                                  *)
  announced,   (* the status of the fleet event                              *)
  inbox,       (* has an abort been pushed to the control file?              *)
  parent,      (* where the parent is                                        *)
  wrapper,     (* where the wrapper is                                       *)
  end,         (* how the execution ended                                    *)
  pi,          (* the pi process                                             *)
  cancel,      (* where each canceller is                                    *)
  seen,        (* the pids of the entry a canceller picked                   *)
  stored,      (* did the job file hold the answer when a canceller read it? *)
  kept,        (* and when the catch of runTrackedJob read it?               *)
  answer       (* history: was the answer stored, and a write spoiled since? *)

records   == <<index, file, journal, announced>>
processes == <<parent, wrapper, pi, cancel>>
copies    == <<seen, stored, kept>>
vars      == <<detached, engine, records, inbox, processes, end, copies, answer>>

Live     == {"pending", "running"}
Terminal == {"completed", "failed", "cancelled", "orphaned"}
Statuses == {"none"} \cup Live \cup (Terminal \ {"orphaned"})

(* pid and piPid: is the field set?  A pid of the job is the wrapper's.      *)
Entry == [status : Statuses, pid : BOOLEAN, piPid : BOOLEAN]

(* answer: does the file hold what the run produced?  A file that is not     *)
(* there or empty, and one that two writers filled at once, is read as null. *)
File == [status : Statuses \cup {"torn"}, answer : BOOLEAN]

Missing == [status |-> "none", answer |-> FALSE]
Torn    == [status |-> "torn", answer |-> FALSE]

(* Every writer of the job file is first at "file", where it truncates it,   *)
(* and then at "text", where it fills it.                                    *)
Beginning == {"pending file", "pending text", "pending list",
              "running file", "running text", "running list", "running journal"}
Ending    == {"final file", "final text", "final list", "final journal", "failed read",
              "failed file", "failed text", "failed list", "failed journal"}
Working   == {"spawn pi", "record pi", "await pi"}
Stages    == {"none"} \cup Beginning \cup Working \cup Ending \cup {"announce", "exit", "gone"}
Cancels   == {"look", "push", "poll", "kill pi", "kill wrapper", "container", "list", "journal",
              "read", "file", "text", "done", "stopped"}
Answers   == {"none", "stored", "spoiled"}

TypeOK ==
  /\ detached \in BOOLEAN
  /\ engine \in {"rpc", "json"}
  /\ index \in Entry
  /\ file \in File
  /\ journal \in Statuses
  /\ announced \in Statuses \ Live
  /\ inbox \in BOOLEAN
  /\ parent \in {"spawn", "file", "text", "list", "done", "lost"}
  /\ wrapper \in Stages
  /\ end \in {"none", "answered", "degraded", "aborted", "failed", "threw"}
  /\ pi \in {"none", "running", "gone"}
  /\ cancel \in [Cancellers -> Cancels]
  /\ seen \in [Cancellers -> [pid : BOOLEAN, piPid : BOOLEAN]]
  /\ stored \in [Cancellers -> BOOLEAN]
  /\ kept \in BOOLEAN
  /\ answer \in Answers

Unlisted == [status |-> "none", pid |-> FALSE, piPid |-> FALSE]

Init ==
  /\ detached \in BOOLEAN
  /\ engine \in {"rpc", "json"}
  /\ index = Unlisted
  /\ file = Missing
  /\ journal = "none"
  /\ announced = "none"
  /\ inbox = FALSE
  /\ parent = IF detached THEN "spawn" ELSE "done"
  /\ wrapper = IF detached THEN "none" ELSE "pending file"
  /\ end = "none"
  /\ pi = "none"
  /\ cancel = [c \in Cancellers |-> "look"]
  /\ seen = [c \in Cancellers |-> [pid |-> FALSE, piPid |-> FALSE]]
  /\ stored = [c \in Cancellers |-> FALSE]
  /\ kept = FALSE
  /\ answer = "none"

WrapperAlive == wrapper \notin {"none", "gone"}
-----------------------------------------------------------------------------
(* A set of tracked states that leaves the pending jobs out.                 *)
TrackedRunningOnly(status) == status = "running"
Tracked(status) == status \in {"running", "pending"}

(* enrichJob: a tracked job whose pid is recorded and gone is orphaned.      *)
Shown ==
  IF Tracked(index.status) /\ index.pid /\ ~WrapperAlive THEN "orphaned" ELSE index.status
-----------------------------------------------------------------------------
(* writeJobFile: what is left in the file once a writer that truncated it    *)
(* has put r there.  Over the content another one wrote meanwhile, a shorter *)
(* record leaves the other's tail behind it.                                 *)
Written(r) == IF file = Missing THEN {r} ELSE {r, Torn}
-----------------------------------------------------------------------------
(* detachBackgroundRun: spawn, then writeJobFile, then upsertJob.            *)
ParentGoes(from, to) ==
  /\ parent = from
  /\ parent' = to
  /\ UNCHANGED <<detached, engine, journal, announced, inbox, pi, cancel, end, copies, answer>>

ParentSpawns ==
  /\ ParentGoes("spawn", "file")
  /\ wrapper' = "pending file"
  /\ UNCHANGED <<index, file>>

ParentTruncates ==
  /\ ParentGoes("file", "text")
  /\ file' = Missing
  /\ UNCHANGED <<index, wrapper>>

ParentWritesFile ==
  /\ ParentGoes("text", "list")
  /\ file' \in Written([status |-> "pending", answer |-> FALSE])
  /\ UNCHANGED <<index, wrapper>>

ParentListsJob ==
  /\ ParentGoes("list", "done")
  /\ index' = [index EXCEPT !.status = "pending", !.pid = TRUE]
  /\ UNCHANGED <<file, wrapper>>

Parent == ParentSpawns \/ ParentTruncates \/ ParentWritesFile \/ ParentListsJob

(* The child is detached: it goes on without the parent.                     *)
ParentFails ==
  /\ "parent" \in Faults
  /\ parent \in {"file", "text", "list"}
  /\ ParentGoes(parent, "lost")
  /\ UNCHANGED <<index, file, wrapper>>
-----------------------------------------------------------------------------
(* The answer is stored by the final write, and spoiled when the catch's     *)
(* write ends between truncation and content.                                *)
Then(from, to) ==
  /\ wrapper = from
  /\ wrapper' = to
  /\ answer' = IF from = "final text" /\ to = "final list" THEN "stored"
               ELSE IF answer = "stored" /\ from = "failed text" /\ to # "failed list" THEN "spoiled"
               ELSE answer
  /\ UNCHANGED <<detached, engine, parent, cancel, seen, stored>>

(* The parent is done, or gone, within milliseconds, before node has started *)
(* the child.                                                                *)
ParentIsAhead == "late" \in Faults \/ parent \in {"done", "lost"}

(* executeRun, before runTrackedJob: the first record carries no pid, and    *)
(* upsertJob keeps the one the parent put into the list.                     *)
TruncatePending ==
  /\ Then("pending file", "pending text")
  /\ ParentIsAhead
  /\ file' = Missing
  /\ UNCHANGED <<index, journal, announced, inbox, pi, end, kept>>

WritePendingFile ==
  /\ Then("pending text", "pending list")
  /\ file' \in Written([status |-> "pending", answer |-> FALSE])
  /\ UNCHANGED <<index, journal, announced, inbox, pi, end, kept>>

ListPending ==
  /\ Then("pending list", "running file")
  /\ index' = [index EXCEPT !.status = "pending"]
  /\ UNCHANGED <<file, journal, announced, inbox, pi, end, kept>>

(* runTrackedJob: file, list and journal say running.                        *)
TruncateRunning ==
  /\ Then("running file", "running text")
  /\ file' = Missing
  /\ UNCHANGED <<index, journal, announced, inbox, pi, end, kept>>

WriteRunningFile ==
  /\ Then("running text", "running list")
  /\ file' \in Written([status |-> "running", answer |-> FALSE])
  /\ UNCHANGED <<index, journal, announced, inbox, pi, end, kept>>

ListRunning ==
  /\ Then("running list", "running journal")
  /\ index' = [index EXCEPT !.status = "running", !.pid = TRUE]
  /\ UNCHANGED <<file, journal, announced, inbox, pi, end, kept>>

JournalRunning ==
  /\ Then("running journal", "spawn pi")
  /\ journal' = "running"
  /\ UNCHANGED <<index, file, announced, inbox, pi, end, kept>>

(* runner(): it throws before pi starts (no slot, no launch) or after pi is  *)
(* gone (the state of the tree cannot be read), or spawns pi.                *)
RunnerThrows ==
  /\ wrapper = "spawn pi" \/ (wrapper = "await pi" /\ pi = "gone")
  /\ Then(wrapper, "failed read")
  /\ end' = "threw"
  /\ UNCHANGED <<records, inbox, pi, kept>>

SpawnPi ==
  /\ Then("spawn pi", "record pi")
  /\ pi' = "running"
  /\ UNCHANGED <<records, inbox, end, kept>>

(* onSpawn                                                                   *)
RecordPi ==
  /\ Then("record pi", "await pi")
  /\ index' = [index EXCEPT !.piPid = TRUE]
  /\ UNCHANGED <<file, journal, announced, inbox, pi, end, kept>>

(* pi exits by itself, or by the run's abort, budget or hard timer.          *)
PiExits ==
  /\ pi = "running"
  /\ pi' = "gone"
  /\ UNCHANGED <<detached, engine, records, inbox, parent, wrapper, cancel, end, copies, answer>>

(* The runner resolves once pi is gone.  Only the rpc engine reads the       *)
(* control file; what an abort came too late for is not an aborted run.      *)
RunEnds ==
  /\ Then("await pi", "final file")
  /\ pi = "gone"
  /\ end' \in {"answered", "degraded", "failed"}
                \cup (IF inbox /\ engine = "rpc" THEN {"aborted"} ELSE {})
  /\ UNCHANGED <<records, inbox, pi, kept>>

(* The flag of the execution taken for the status.                           *)
StatusAsExecution(e) == IF e \in {"answered", "degraded"} THEN "completed" ELSE e

StatusOf(e) ==
  IF e \in {"answered", "degraded"} THEN "completed"
  ELSE IF e = "aborted" THEN "cancelled" ELSE "failed"

(* Only an exit status of zero taken for a run worth a report.               *)
ReportOfCleanRun(e) == [status |-> StatusOf(e), answer |-> e # "degraded"]

(* The record of any execution carries its rendered report.                  *)
Report(e) == [status |-> StatusOf(e), answer |-> TRUE]

TruncateFinal ==
  /\ Then("final file", "final text")
  /\ file' = Missing
  /\ UNCHANGED <<index, journal, announced, inbox, pi, end, kept>>

WriteFinalFile ==
  /\ Then("final text", "final list")
  /\ file' \in Written(Report(end))
  /\ UNCHANGED <<index, journal, announced, inbox, pi, end, kept>>

ListFinal ==
  /\ Then("final list", "final journal")
  /\ index' = [index EXCEPT !.status = StatusOf(end), !.pid = FALSE]
  /\ UNCHANGED <<file, journal, announced, inbox, pi, end, kept>>

JournalFinal ==
  /\ Then("final journal", "announce")
  /\ journal' = StatusOf(end)
  /\ UNCHANGED <<index, file, announced, inbox, pi, end, kept>>

(* The catch of runTrackedJob: what the file holds by now is read and        *)
(* written back (readStoredJob(...) ?? running).                             *)
ReadForFailure ==
  /\ Then("failed read", "failed file")
  /\ kept' = file.answer
  /\ UNCHANGED <<records, inbox, pi, end>>

TruncateFailed ==
  /\ Then("failed file", "failed text")
  /\ file' = Missing
  /\ UNCHANGED <<index, journal, announced, inbox, pi, end, kept>>

WriteFailedFile ==
  /\ Then("failed text", "failed list")
  /\ file' \in Written([status |-> "failed", answer |-> kept])
  /\ UNCHANGED <<index, journal, announced, inbox, pi, end, kept>>

ListFailed ==
  /\ Then("failed list", "failed journal")
  /\ index' = [index EXCEPT !.status = "failed", !.pid = FALSE]
  /\ UNCHANGED <<file, journal, announced, inbox, pi, end, kept>>

JournalFailed ==
  /\ Then("failed journal", "announce")
  /\ journal' = "failed"
  /\ UNCHANGED <<index, file, announced, inbox, pi, end, kept>>

(* announceTerminal: the job file says how the run ended, and the caller,    *)
(* from the exit status alone, when the file cannot be read; recordFleetEvent *)
(* drops a status that is not terminal.                                      *)
SaidBy(e) ==
  IF e = "answered" THEN "completed" ELSE IF e = "aborted" THEN "cancelled" ELSE "failed"

Announce ==
  /\ Then("announce", "exit")
  /\ announced' = IF file.status \in {"none", "torn"} THEN SaidBy(end)
                  ELSE IF file.status \in Live THEN announced ELSE file.status
  /\ UNCHANGED <<index, file, journal, inbox, pi, end, kept>>

(* main only sets an exit code: node stays as long as it has a child.        *)
Exit ==
  /\ Then("exit", "gone")
  /\ pi # "running"
  /\ UNCHANGED <<records, inbox, pi, end, kept>>

(* Where a throwing write takes the wrapper: before executeRun's try out of  *)
(* the program, before runTrackedJob's try and inside its catch to           *)
(* executeRun's catch, inside the try (onSpawn included) to that catch.      *)
WriteThrows ==
  /\ "write" \in Faults
  /\ \/ wrapper \in {"pending file", "pending text", "pending list"} /\ Then(wrapper, "gone")
     \/ /\ wrapper \in {"running file", "running text", "running list",
                         "failed file", "failed text", "failed list"}
        /\ Then(wrapper, "announce")
     \/ /\ wrapper \in {"record pi", "final file", "final text", "final list"}
        /\ Then(wrapper, "failed read")
  /\ end' = "threw"
  /\ UNCHANGED <<records, inbox, pi, kept>>

(* No handler catches a signal: node dies where it stands, and pi, in a      *)
(* group of its own, stays.                                                  *)
WrapperCrashes ==
  /\ "crash" \in Faults
  /\ WrapperAlive
  /\ Then(wrapper, "gone")
  /\ UNCHANGED <<records, inbox, pi, end, kept>>

Wrapper ==
  \/ TruncatePending \/ WritePendingFile \/ ListPending
  \/ TruncateRunning \/ WriteRunningFile \/ ListRunning \/ JournalRunning
  \/ RunnerThrows \/ SpawnPi \/ RecordPi \/ RunEnds
  \/ TruncateFinal \/ WriteFinalFile \/ ListFinal \/ JournalFinal
  \/ ReadForFailure \/ TruncateFailed \/ WriteFailedFile \/ ListFailed \/ JournalFailed
  \/ Announce \/ Exit
-----------------------------------------------------------------------------
(* A canceller spoils a write of the job file: it reads or truncates the     *)
(* file another one is still filling, it stops before it has filled it, or   *)
(* it kills the wrapper that was about to.                                   *)
Spoils(c, from, to) ==
  \/ from \in {"read", "file"} /\ \E d \in Cancellers : cancel[d] = "text"
  \/ from = "text" /\ to = "stopped"
  \/ from = "kill wrapper" /\ seen[c].pid /\ wrapper = "failed text"

Goto(c, from, to) ==
  /\ cancel[c] = from
  /\ cancel' = [cancel EXCEPT ![c] = to]
  /\ answer' = IF answer = "stored" /\ Spoils(c, from, to) THEN "spoiled" ELSE answer
  /\ UNCHANGED <<detached, engine, parent, end, kept>>

(* resolveCancelableJob: everything cancelJob decides on is this snapshot.   *)
PickJob(c) ==
  /\ Shown \in Live \cup {"orphaned"}
  /\ seen' = [seen EXCEPT ![c] = [pid |-> index.pid, piPid |-> index.piPid]]
  /\ Goto(c, "look", IF Shown = "running" /\ engine = "rpc" THEN "push" ELSE "kill pi")
  /\ UNCHANGED <<records, inbox, wrapper, pi, stored>>

PushAbort(c) ==
  /\ Goto(c, "push", "poll")
  /\ inbox' = TRUE
  /\ UNCHANGED <<records, wrapper, pi, seen, stored>>

(* The list shows that the run ended: no signal is sent.                     *)
SeeItEnd(c) ==
  /\ Goto(c, "poll", "container")
  /\ index.status # "running"
  /\ UNCHANGED <<records, inbox, wrapper, pi, seen, stored>>

(* Four seconds passed, or the caller does not wait (cancel --all).          *)
StopWaiting(c) ==
  /\ Goto(c, "poll", "kill pi")
  /\ UNCHANGED <<records, inbox, wrapper, pi, seen, stored>>

(* terminateProcessTree of the pi group, if the snapshot knows it.           *)
KillPi(c) ==
  /\ Goto(c, "kill pi", "kill wrapper")
  /\ pi' = IF seen[c].piPid THEN "gone" ELSE pi
  /\ UNCHANGED <<records, inbox, wrapper, seen, stored>>

(* A cancel that leaves the wrapper to notice that pi is gone.               *)
KillWrapperByPi(c) ==
  /\ Goto(c, "kill wrapper", "container")
  /\ UNCHANGED <<records, inbox, wrapper, pi, seen, stored>>

(* terminateProcessTree of the wrapper, awaited.                             *)
KillWrapper(c) ==
  /\ Goto(c, "kill wrapper", "container")
  /\ wrapper' = IF seen[c].pid THEN "gone" ELSE wrapper
  /\ UNCHANGED <<records, inbox, pi, seen, stored>>

(* removeSandboxContainer, which ends the pi of a sandboxed job.             *)
RemoveContainer(c) ==
  /\ Goto(c, "container", "list")
  /\ pi' \in {pi, IF pi = "running" THEN "gone" ELSE pi}
  /\ UNCHANGED <<records, inbox, wrapper, seen, stored>>

ListCancelled(c) ==
  /\ Goto(c, "list", "journal")
  /\ index' = [index EXCEPT !.status = "cancelled", !.pid = FALSE]
  /\ UNCHANGED <<file, journal, announced, inbox, wrapper, pi, seen, stored>>

(* A cancel that the journal does not hear of.                               *)
JournalNotTold(c) ==
  /\ Goto(c, "journal", "read")
  /\ UNCHANGED <<records, inbox, wrapper, pi, seen, stored>>

(* recordJobSafely of the cancelled job.                                     *)
JournalCancelled(c) ==
  /\ Goto(c, "journal", "read")
  /\ journal' = "cancelled"
  /\ UNCHANGED <<index, file, announced, inbox, wrapper, pi, seen, stored>>

ReadFile(c) ==
  /\ Goto(c, "read", "file")
  /\ stored' = [stored EXCEPT ![c] = file.answer]
  /\ UNCHANGED <<records, inbox, wrapper, pi, seen>>

(* The snapshot and the cancellation, without what the run stored.           *)
CancelledOver(read) == [status |-> "cancelled", answer |-> FALSE]

(* {...job, ...stored, ...record}                                            *)
CancelledFile(read) == [status |-> "cancelled", answer |-> read]

TruncateCancelled(c) ==
  /\ Goto(c, "file", "text")
  /\ file' = Missing
  /\ UNCHANGED <<index, journal, announced, inbox, wrapper, pi, seen, stored>>

WriteCancelledFile(c) ==
  /\ Goto(c, "text", "done")
  /\ file' \in Written(CancelledFile(stored[c]))
  /\ UNCHANGED <<index, journal, announced, inbox, wrapper, pi, seen, stored>>

Canceller(c) ==
  \/ PickJob(c) \/ PushAbort(c) \/ SeeItEnd(c) \/ StopWaiting(c)
  \/ KillPi(c) \/ KillWrapper(c) \/ RemoveContainer(c)
  \/ ListCancelled(c) \/ JournalCancelled(c)
  \/ ReadFile(c) \/ TruncateCancelled(c) \/ WriteCancelledFile(c)

(* The canceller is interrupted at any step, or upsertJob or writeJobFile    *)
(* throws; nobody carries its cancel on.                                     *)
CancellerStops(c) ==
  /\ \/ "crash" \in Faults /\ cancel[c] \notin {"look", "done", "stopped"}
     \/ "write" \in Faults /\ cancel[c] \in {"list", "file", "text"}
  /\ Goto(c, cancel[c], "stopped")
  /\ UNCHANGED <<records, inbox, wrapper, pi, seen, stored>>

Next ==
  \/ Parent \/ ParentFails
  \/ Wrapper \/ WriteThrows \/ WrapperCrashes
  \/ PiExits
  \/ \E c \in Cancellers : Canceller(c) \/ CancellerStops(c)

Spec == Init /\ [][Next]_vars

(* Every process runs on; the engines stop pi when its time is up, and only  *)
(* while they watch it.  Nobody has to start a cancel.                       *)
FairSpec ==
  /\ Spec
  /\ WF_vars(Parent)
  /\ WF_vars(Wrapper)
  /\ WF_vars(wrapper = "await pi" /\ PiExits)
  /\ \A c \in Cancellers : WF_vars(cancel[c] # "look" /\ Canceller(c))
-----------------------------------------------------------------------------
(* A background job that its parent recorded before it was gone.             *)
HandedOver == detached /\ parent # "lost"

(* Whoever sees such a job completed finds its answer in the job file: the   *)
(* answer is written before the status, and no cancel that overlaps the end  *)
(* of the run takes it away (lib/jobs.mjs, runTrackedJob; cancelJob).        *)
AnswerBeforeStatus ==
  HandedOver /\ index.status = "completed" => file.answer

(* A writer that truncated the file and holds the answer to put back.        *)
InHand ==
  \/ wrapper = "failed text" /\ kept
  \/ \E c \in Cancellers : cancel[c] = "text" /\ stored[c]

(* What a run stored stays in its job file, or in the hand of one that is    *)
(* rewriting it, through a list update that fails after it, the catch and    *)
(* any number of cancels, as long as every write of the file that was begun  *)
(* is ended before anyone else reads or opens it to rewrite it (cancelJob    *)
(* and the catch carry over what they read).  Without that condition it is   *)
(* not so: AnswerOutlivesCancels.                                            *)
AnswerKept ==
  HandedOver /\ answer = "stored" => file.answer \/ InHand

(* A cancelled background job is over: the wrapper is dead, or it has made   *)
(* its last change to the list, so the list never shows it otherwise again.  *)
CancelledIsFinal ==
  [][HandedOver /\ index.status = "cancelled" => index'.status = "cancelled"]_vars

(* Once a cancel has told the journal, a background job is no longer running *)
(* there, and stays so (cancelJob: such a row "stayed running for good").    *)
JournalNotLeftRunning ==
  \A c \in Cancellers :
    HandedOver /\ cancel[c] \in {"read", "file", "text", "done"} => journal \in Terminal

(* A background job is shown in a terminal state in the end, whichever of    *)
(* its processes die (enrichJob), with two exceptions.  The parent was lost  *)
(* before it listed the job, and the wrapper before it did so as running:    *)
(* such a job has no pid in the list and is not shown, or pending for good   *)
(* (NobodySitsPending).  Or the wrapper could neither record the pi it had   *)
(* spawned nor that this failed, and is kept alive by a pi nobody watches.   *)
EveryJobSettles ==
  detached => <>[](\/ Shown \in Terminal
                   \/ parent = "lost" /\ ~index.pid
                   \/ wrapper = "exit" /\ pi = "running")
-----------------------------------------------------------------------------
Quiet ==
  /\ parent \in {"done", "lost"}
  /\ wrapper = "gone"
  /\ \A c \in Cancellers : cancel[c] \in {"look", "done", "stopped"}

(* "Keep whatever the run already stored" (cancelJob), when no process dies  *)
(* and no write fails.                                                       *)
AnswerOutlivesCancels ==
  HandedOver /\ Quiet /\ answer # "none" => file.answer

(* "a child that dies on startup would otherwise sit as pending forever      *)
(* instead of showing up as gone" (enrichJob).                               *)
NobodySitsPending ==
  detached /\ Quiet => Shown # "pending"

(* Every terminal outcome appends one line to the fleet log, unconditionally *)
(* (lib/fleet-events.mjs); a job shown as orphaned is left to the sweep.     *)
EveryEndAnnounced ==
  Quiet /\ Shown \in Terminal \ {"orphaned"} => announced # "none"

(* The status announced is the one that status reports (announceTerminal).   *)
AnnouncedAsReported ==
  Quiet /\ announced # "none" => announced = Shown

(* A record exists before the child writes its own, so the list never falls  *)
(* back from running to pending (detachBackgroundRun).                       *)
NeverBackToPending ==
  [][index.status = "running" => index'.status # "pending"]_vars
=============================================================================
