----------------------------- MODULE StateStore -----------------------------
(***************************************************************************)
(* lib/state.mjs: the job list of a workspace (state.json) and the result  *)
(* files beside it, updated by processes that share nothing but the file   *)
(* system.  A Writer is one call of upsertJob with the writeJobFile that   *)
(* precedes it; withStateLock serialises the calls with a directory made   *)
(* by mkdir, judged stale by its age, and gives up waiting at a deadline.  *)
(*                                                                         *)
(* Time is counted in units of which LOCK_TIMEOUT_MS is LockTimeout.       *)
(* Faults names what the environment of a run may do:                      *)
(*   "crash" a process dies anywhere between two steps of a call,          *)
(*   "slow"  a live holder keeps the lock longer than LOCK_TIMEOUT_MS,     *)
(*   "busy"  a call waits until its deadline has passed,                   *)
(*   "write" the write of state.json throws (the disk is full).            *)
(***************************************************************************)
EXTENDS JobIndex

CONSTANTS
  InitialIndex,   (* the list an earlier session left                        *)
  LockTimeout,    (* LOCK_TIMEOUT_MS                                         *)
  Faults,
  Free            (* no lock directory                                       *)

ASSUME StoreAssumption ==
  /\ LockTimeout \in Nat \ {0}
  /\ Faults \subseteq {"crash", "slow", "busy", "write"}
  /\ Free \notin Writers
  /\ InitialIndex \in Index

VARIABLES
  index,       (* state.json: what loadState returns                         *)
  readable,    (* FALSE while state.json exists and does not parse           *)
  artifacts,   (* jobs whose result files are on disk                        *)
  clock,       (* the last value of nowIso()                                 *)
  lock,        (* the lock directory: Free, or the writer that made it       *)
  lockAge,     (* age of the lock directory by its mtime                     *)
  pc,          (* where each call is                                         *)
  target,      (* the job each call updates                                  *)
  held,        (* withStateLock's held                                       *)
  waited,      (* time since the call entered withStateLock                  *)
  view,        (* the list the call is about to save                         *)
  victims,     (* jobs whose files saveState still has to remove             *)
  breaches     (* how the lock was broken so far (history)                   *)

disk   == <<index, readable, artifacts>>
dirs   == <<lock, lockAge>>
locals == <<pc, target, held, waited, view, victims>>
vars   == <<disk, dirs, locals, clock, breaches>>

(* "unwind": the call goes on to throw when it has let the lock go.          *)
Steps == {"start", "try", "reclaim", "load", "save", "write", "release", "unwind", "done", "thrown",
          "dead"}

(* The steps at which a call is inside fn(held).                             *)
Section == {"load", "save", "write"}

TypeOK ==
  /\ index \in Index
  /\ readable \in BOOLEAN
  /\ artifacts \subseteq Jobs
  /\ clock \in Int
  /\ lock \in Writers \cup {Free}
  /\ lockAge \in 0 .. LockTimeout + 1
  /\ pc \in [Writers -> Steps]
  /\ target \in [Writers -> Jobs]
  /\ held \in [Writers -> BOOLEAN]
  /\ waited \in [Writers -> 0 .. LockTimeout]
  /\ view \in [Writers -> Index]
  /\ victims \in [Writers -> SUBSET Jobs]
  /\ breaches \subseteq {"reclaimed", "unlocked"}

(* state.json is either what an earlier session saved or a file that does    *)
(* not parse (a release that wrote it in place died half way).               *)
Init ==
  /\ \/ index = InitialIndex /\ readable = TRUE
     \/ index = Empty /\ readable = FALSE
  /\ artifacts = DOMAIN InitialIndex
  /\ clock = 0
  /\ lock = Free
  /\ lockAge = 0
  /\ pc = [w \in Writers |-> "start"]
  /\ target \in [Writers -> Jobs]
  /\ held = [w \in Writers |-> FALSE]
  /\ waited = [w \in Writers |-> 0]
  /\ view = [w \in Writers |-> Empty]
  /\ victims = [w \in Writers |-> {}]
  /\ breaches = {}

Goto(w, from, to) ==
  /\ pc[w] = from
  /\ pc' = [pc EXCEPT ![w] = to]
-----------------------------------------------------------------------------
(* A status change: the job file is written first, then the list is updated. *)
(* A patch of a listed job (progress, the id of the pi process) goes to the  *)
(* list alone.                                                               *)
Begin(w) ==
  /\ Goto(w, "start", "try")
  /\ \/ artifacts' = artifacts \cup {target[w]}
     \/ target[w] \in DOMAIN index /\ UNCHANGED artifacts
  /\ UNCHANGED <<index, readable, clock, dirs, target, held, waited, view, victims, breaches>>

BeforeDeadline(w) == waited[w] < LockTimeout

(* mkdir with recursive: true does not fail on a directory that exists.      *)
MkdirRecursive == TRUE

MkdirSucceeds == lock = Free

Acquire(w) ==
  /\ Goto(w, "try", "load")
  /\ BeforeDeadline(w)
  /\ MkdirSucceeds
  /\ lock' = w
  /\ lockAge' = 0
  /\ held' = [held EXCEPT ![w] = TRUE]
  /\ UNCHANGED <<disk, clock, target, waited, view, victims, breaches>>

Stale == lockAge > LockTimeout

(* mkdirSync failed and statSync shows a directory older than the time-out.  *)
(* A younger one, or none any more, leads back to "try" after the poll.      *)
Inspect(w) ==
  /\ Goto(w, "try", "reclaim")
  /\ BeforeDeadline(w)
  /\ ~MkdirSucceeds
  /\ Stale
  /\ UNCHANGED <<disk, dirs, clock, target, held, waited, view, victims, breaches>>

(* rmdirSync of whatever directory is there by now; the loop starts again.   *)
Reclaim(w) ==
  /\ Goto(w, "reclaim", "try")
  /\ lock' = Free
  /\ lockAge' = 0
  /\ breaches' = IF lock = Free THEN breaches ELSE breaches \cup {"reclaimed"}
  /\ UNCHANGED <<disk, clock, target, held, waited, view, victims>>

(* A call that gives the update up when it cannot have the lock.             *)
ExpireByGivingUp(w) ==
  /\ Goto(w, "try", "done")
  /\ ~BeforeDeadline(w)
  /\ UNCHANGED <<disk, dirs, clock, target, held, waited, view, victims, breaches>>

(* The deadline passed: fn runs all the same, with held = false.             *)
Expire(w) ==
  /\ Goto(w, "try", "load")
  /\ ~BeforeDeadline(w)
  /\ breaches' = breaches \cup {"unlocked"}
  /\ UNCHANGED <<disk, dirs, clock, target, held, waited, view, victims>>

(* loadState, the merge of the patch, and the sort and slice of saveState,   *)
(* which depend on nothing else.                                             *)
Load(w) ==
  /\ Goto(w, "load", "save")
  /\ clock + 1 \in Times
  /\ clock' = clock + 1
  /\ view' = [view EXCEPT ![w] = Sliced(Upserted(index, w, target[w], clock'))]
  /\ UNCHANGED <<disk, dirs, target, held, waited, victims, breaches>>

(* Files of every job the new list lacks, listed before or not.              *)
VictimsOnDisk(w) == IF held[w] THEN artifacts \ DOMAIN view[w] ELSE {}

(* The records of the jobs instead of their ids.                             *)
VictimRecords(w) == {index[j] : j \in DOMAIN index \ DOMAIN view[w]}

(* Eviction needs the lock and a previous list that was read intact.         *)
Victims(w) ==
  IF held[w] /\ readable THEN DOMAIN index \ DOMAIN view[w] ELSE {}

(* saveState reads the list a second time and compares it with its own.      *)
Compare(w) ==
  /\ Goto(w, "save", "write")
  /\ victims' = [victims EXCEPT ![w] = Victims(w)]
  /\ UNCHANGED <<disk, dirs, clock, target, held, waited, view, breaches>>

(* The files of one job that fell off the list are removed.                  *)
Evict(w) ==
  /\ pc[w] = "write"
  /\ \E j \in victims[w] :
       /\ artifacts' = artifacts \ {j}
       /\ victims' = [victims EXCEPT ![w] = @ \ {j}]
  /\ UNCHANGED <<index, readable, clock, dirs, pc, target, held, waited, view, breaches>>

(* writeFileAtomic: the new list replaces the old one in one rename.         *)
Rename(w) ==
  /\ Goto(w, "write", IF held[w] THEN "release" ELSE "done")
  /\ victims[w] = {}
  /\ index' = view[w]
  /\ readable' = TRUE
  /\ UNCHANGED <<artifacts, dirs, clock, target, held, waited, view, victims, breaches>>

(* It removes the temporary file and throws: the old list stays, though the  *)
(* files of the jobs that were to fall off are gone.                         *)
SaveThrows(w) ==
  /\ "write" \in Faults
  /\ Goto(w, "write", IF held[w] THEN "unwind" ELSE "thrown")
  /\ victims[w] = {}
  /\ UNCHANGED <<disk, dirs, clock, target, held, waited, view, victims, breaches>>

(* The finally block: rmdirSync of the lock directory, whoever made it.      *)
Release(w) ==
  /\ Goto(w, "release", "done") \/ Goto(w, "unwind", "thrown")
  /\ lock' = Free
  /\ lockAge' = 0
  /\ breaches' = IF lock \in {w, Free} THEN breaches ELSE breaches \cup {"reclaimed"}
  /\ UNCHANGED <<disk, clock, target, held, waited, view, victims>>
-----------------------------------------------------------------------------
Waiting(w) == pc[w] \in {"try", "reclaim"}

HolderIsPrompt ==
  lock # Free /\ "slow" \notin Faults => lockAge < LockTimeout \/ pc[lock] = "dead"

WaitersArePrompt ==
  "busy" \notin Faults => \A w \in Writers : Waiting(w) => waited[w] + 1 < LockTimeout

Capped(n, bound) == IF n < bound THEN n + 1 ELSE bound

(* A unit of time passes.  The heartbeat of withStateLock is a timer, and fn *)
(* is synchronous: no timer of the process runs before fn returned, and the  *)
(* finally block clears it then.  So nothing renews the directory's mtime.   *)
Tick ==
  /\ HolderIsPrompt
  /\ WaitersArePrompt
  /\ lockAge' = IF lock = Free THEN lockAge ELSE Capped(lockAge, LockTimeout + 1)
  /\ waited' = [w \in Writers |-> IF Waiting(w) THEN Capped(waited[w], LockTimeout) ELSE waited[w]]
  /\ UNCHANGED <<disk, lock, pc, target, held, view, victims, clock, breaches>>

(* The process of the call dies; a lock directory it made stays.             *)
Crash(w) ==
  /\ "crash" \in Faults
  /\ pc[w] \notin {"start", "done", "thrown", "dead"}
  /\ pc' = [pc EXCEPT ![w] = "dead"]
  /\ UNCHANGED <<disk, dirs, target, held, waited, view, victims, clock, breaches>>

Step(w) ==
  \/ Begin(w) \/ Acquire(w) \/ Inspect(w) \/ Reclaim(w) \/ Expire(w)
  \/ Load(w) \/ Compare(w) \/ Evict(w) \/ Rename(w) \/ SaveThrows(w)
  \/ Release(w)

Next == Tick \/ \E w \in Writers : Step(w) \/ Crash(w)

Spec == Init /\ [][Next]_vars

(* The scheduler runs every process that can move, and time goes on.         *)
FairSpec == Spec /\ WF_vars(Tick) /\ \A w \in Writers : WF_vars(Step(w))
-----------------------------------------------------------------------------
Trusted == breaches = {}

Inside(w) == held[w] /\ pc[w] \in Section \cup {"release", "unwind"}

(* As long as nobody removed a lock directory that it did not make, two      *)
(* calls are never both inside the section they entered with held = true.    *)
(* A dead writer (pc "dead") is outside.                                     *)
MutualExclusion ==
  "reclaimed" \notin breaches =>
    \A v, w \in Writers : Inside(v) /\ Inside(w) => v = w

(* Until the lock is first broken, upsertJob is one atomic update of the job *)
(* list that keeps every other update, and the only results removed are      *)
(* those of the job the update pushes out (lib/state.mjs, saveState).        *)
Registry == INSTANCE JobRegistry WITH trusted <- Trusted
ImplementsRegistry == Registry!Spec

(* As long as the lock was never broken, no update merged into the record of *)
(* a job is ever lost from it: of two patches of one job by two processes,   *)
(* the later keeps the fields of the earlier (lib/state.mjs, upsertJob).     *)
NoUpdateLost ==
  [][Trusted' => \A j \in DOMAIN index \cap DOMAIN index' :
                   index[j].updates \subseteq index'[j].updates]_vars

(* saveState removes the results of a job only to make room: the list is     *)
(* full and no listed job was updated longer ago.                            *)
EvictsOnlyOverflow ==
  [][\A j \in artifacts \ artifacts' :
       /\ Cardinality(DOMAIN index) = MaxJobs
       /\ \A k \in DOMAIN index : index[j].updatedAt <= index[k].updatedAt]_vars

(* A lock directory leaves the disk by the hand of the live process that     *)
(* made it, or after that process died.                                      *)
OnlyTheDeadLoseTheirLock ==
  [][\A w \in Writers :
       lock = w /\ lock' # w => pc[w] \in {"release", "unwind", "dead"}]_vars

(* An update is never given up: a call that reached withStateLock has its    *)
(* update in state.json in the end, or its caller hears that it could not be *)
(* written, or its process died, whatever became of the lock.                *)
EveryUpdateLands ==
  \A w \in Writers :
    pc[w] = "try" ~> \/ pc[w] \in {"dead", "thrown"}
                     \/ target[w] \in DOMAIN index /\ w \in index[target[w]].updates
=============================================================================
