------------------------------ MODULE Sessions ------------------------------
(***************************************************************************)
(* Continuing pi's sessions (lib/sessions.mjs; "continue" and "delegate    *)
(* --session" of pi-companion.mjs).  A command looks the sessions up in    *)
(* the list of jobs, refuses one that is live or whose cache is cold, and  *)
(* runs pi on it; in the background a detached copy of the command does    *)
(* the same again.  The list learns the session of a job with its last     *)
(* record (runTrackedJob), which is what collectSessions goes by.          *)
(*                                                                         *)
(* The jobs are the commands of one workspace.  A reference is a session   *)
(* or "last".  Models, recipes and the eviction of jobs are left out.      *)
(***************************************************************************)
EXTENDS Integers, FiniteSetsExt

CONSTANTS
  MaxJobs,        (* bound: commands, each of which is a job                 *)
  Ids,            (* sessions of pi                                          *)
  Ttl,            (* resolveCacheTtlMs                                       *)
  Horizon         (* bound: time                                             *)

VARIABLES
  now,
  records,        (* the list: status, session and lastActivityOf of a job   *)
  handed,         (* the child a background command left behind              *)
  runs,           (* pi of a job: the session it works on, None for no pi    *)
  used,           (* the sessions pi has made                                *)
  decided         (* what the command of a job was given and decided, how    *)
                  (* long no job had used the session, and whether no other  *)
                  (* run was on it (history)                                 *)

vars == <<now, records, handed, runs, used, decided>>

Jobs == 1 .. MaxJobs    (* in the order in which they are given              *)

None == "none"
Last == "last"
Nothing == <<>>
Times == 0 .. Horizon

Child == [command : {"delegate", "continue"}, reference : Ids \cup {Last}, inherited : Ids \cup {None},
          staleOk : BOOLEAN]

Decision == [command : {"delegate", "continue"}, session : Ids, staleOk : BOOLEAN, idle : Times,
             alone : BOOLEAN]

Statuses == {"absent", "pending", "running", "completed", "failed"}

TypeOK ==
  /\ now \in Times
  /\ records \in [Jobs -> [status : Statuses, session : Ids \cup {None}, at : Times]]
  /\ handed \in [Jobs -> {Nothing} \cup Child]
  /\ runs \in [Jobs -> Ids \cup {None}]
  /\ used \subseteq Ids
  /\ decided \in [Jobs -> {Nothing} \cup Decision]

Init ==
  /\ now = 0
  /\ records = [j \in Jobs |-> [status |-> "absent", session |-> None, at |-> 0]]
  /\ handed = [j \in Jobs |-> Nothing]
  /\ runs = [j \in Jobs |-> None]
  /\ used = {}
  /\ decided = [j \in Jobs |-> Nothing]
-----------------------------------------------------------------------------
(* collectSessions: of the jobs that have a session, the one last active     *)
(* stands for it; jobs active at one moment come in any order.               *)
JobsOf(s) == {j \in Jobs : records[j].session = s}
Known     == {s \in Ids : JobsOf(s) # {}}

NewestOf(s) == {j \in JobsOf(s) : \A k \in JobsOf(s) : records[k].at <= records[j].at}

Live(j) == records[j].status \in {"pending", "running"}
Age(j)  == IF Live(j) THEN 0 ELSE now - records[j].at

(* findSession.                                                               *)
Found(reference) ==
  IF reference \in Ids THEN {reference} \cap Known
  ELSE {s \in Known : \E j \in NewestOf(s) : \A t \in Known : \E k \in NewestOf(t) : records[j].at >= records[k].at}

(* resolveSessionReference: delegate takes an id as it is, also one that no  *)
(* job has recorded yet; its "last" is the session of the newest job that    *)
(* has one, whenever a session was last active.                              *)
Resolved(reference) ==
  IF reference \in Ids THEN {reference} \cap used
  ELSE LET recorded == {j \in Jobs : records[j].session # None}
       IN  {records[j].session : j \in {k \in recorded : \A i \in recorded : i <= k}}

(* guardSessionAge, of a session that is known.                              *)
Admitted(s, staleOk) == s \notin Known \/ staleOk \/ \E j \in NewestOf(s) : Age(j) <= Ttl

SessionLive(s) == \E j \in NewestOf(s) : Live(j)

Fresh(j) == records[j].status = "absent" /\ \A k \in 1 .. j - 1 : records[k].status # "absent"

Record(j, status) == [records EXCEPT ![j] = [@ EXCEPT !.status = status, !.at = now]]
-----------------------------------------------------------------------------
(* executeRun up to the spawn of pi, on a session or on a new one.           *)
RunOn(j, s) ==
  /\ records' = Record(j, "running")
  /\ runs' = [runs EXCEPT ![j] = s]
  /\ used' = used \cup {s}

NewSession(j) == \E s \in Ids \ used : RunOn(j, s)

LastUse(s) == Max({records[j].at : j \in JobsOf(s)})

Decides(j, command, s, staleOk) ==
  decided' = [decided EXCEPT ![j] =
    [command |-> command, session |-> s, staleOk |-> staleOk,
     idle |-> IF s \in Known THEN now - LastUse(s) ELSE 0,
     alone |-> \A k \in Jobs : runs[k] # s]]

(* detachBackgroundRun: the child repeats the command line, and of what the  *)
(* parent resolved it is told the session, by "continue".                    *)
Detach(j, child) ==
  /\ handed' = [handed EXCEPT ![j] = child]
  /\ records' = Record(j, "pending")
  /\ UNCHANGED <<runs, used>>

DelegateFresh(j) ==
  /\ Fresh(j)
  /\ NewSession(j)
  /\ UNCHANGED <<now, handed, decided>>

(* A command decides on session s.                                           *)
Proceeds(j, command, reference, s, staleOk, background) ==
  IF background
  THEN Detach(j, [command |-> command, reference |-> reference, staleOk |-> staleOk,
                  inherited |-> IF command = "continue" THEN s ELSE None])
  ELSE RunOn(j, s) /\ UNCHANGED handed

DelegateSession(j) ==
  /\ Fresh(j)
  /\ \E reference \in Ids \cup {Last}, staleOk, background \in BOOLEAN : \E s \in Resolved(reference) :
       /\ Admitted(s, staleOk)
       /\ Proceeds(j, "delegate", reference, s, staleOk, background)
       /\ Decides(j, "delegate", s, staleOk)
  /\ UNCHANGED now

(* commandContinue: a session that is live is not continued.                 *)
Continue(j) ==
  /\ Fresh(j)
  /\ \E reference \in Ids \cup {Last}, staleOk, background \in BOOLEAN : \E s \in Found(reference) :
       /\ ~SessionLive(s) /\ Admitted(s, staleOk)
       /\ Proceeds(j, "continue", reference, s, staleOk, background)
       /\ Decides(j, "continue", s, staleOk)
  /\ UNCHANGED now
-----------------------------------------------------------------------------
(* Mutant: the child resolves the reference once more.                       *)
ResolvedAgain(child) == child.reference

Reference(child) == IF child.inherited # None THEN child.inherited ELSE child.reference

(* What the parent admitted the child of "continue" does not judge again.    *)
StaleOk(child) == child.staleOk \/ child.inherited # None

ChildStarts(j) ==
  /\ handed[j] # Nothing
  /\ handed' = [handed EXCEPT ![j] = Nothing]
  /\ \E s \in IF handed[j].command = "continue" THEN Found(Reference(handed[j]))
               ELSE Resolved(Reference(handed[j])) :
       IF /\ Admitted(s, StaleOk(handed[j]))
          /\ handed[j].command = "continue" => ~SessionLive(s)
       THEN RunOn(j, s)
       ELSE UNCHANGED <<records, runs, used>>
  /\ UNCHANGED <<now, decided>>

(* The last record of a job.                                                 *)
RunEnds(j) ==
  /\ runs[j] # None
  /\ records' = [records EXCEPT ![j] = [status |-> "completed", session |-> runs[j], at |-> now]]
  /\ runs' = [runs EXCEPT ![j] = None]
  /\ UNCHANGED <<now, handed, used, decided>>

(* The runner throws, or the job is cancelled: its session is not recorded.  *)
RunFails(j) ==
  /\ runs[j] # None
  /\ records' = [records EXCEPT ![j] = [@ EXCEPT !.status = "failed", !.at = now]]
  /\ runs' = [runs EXCEPT ![j] = None]
  /\ UNCHANGED <<now, handed, used, decided>>

Tick ==
  /\ now < Horizon /\ now' = now + 1
  /\ UNCHANGED <<records, handed, runs, used, decided>>

Next ==
  \/ \E j \in Jobs :
       \/ DelegateFresh(j) \/ DelegateSession(j) \/ Continue(j)
       \/ ChildStarts(j) \/ RunEnds(j) \/ RunFails(j)
  \/ Tick

Spec == Init /\ [][Next]_vars
-----------------------------------------------------------------------------
(* A continuation works on the session its command line resolved, in the     *)
(* background too, whatever became the last session in between.              *)
ContinuesWhatWasResolved ==
  \A j \in Jobs :
    runs[j] # None /\ decided[j] # Nothing /\ decided[j].command = "continue"
      => runs[j] = decided[j].session

(* No history is paid for in full by accident: what a command continues was  *)
(* used within the TTL by some job, as far as the list knows, or cold was    *)
(* allowed.                                                                  *)
ColdOnlyOnPurpose ==
  \A j \in Jobs : decided[j] # Nothing /\ ~decided[j].staleOk => decided[j].idle <= Ttl

(* A history is continued on purpose: the one that was asked for, and cold   *)
(* only where that was allowed.                                              *)
ContinuesOnPurpose == ContinuesWhatWasResolved /\ ColdOnlyOnPurpose

(* "Still running on session": a session that a run is working on is not     *)
(* continued (the guard of commandContinue, "live" of cacheState).           *)
ContinuedAlone ==
  \A j \in Jobs :
    decided[j] # Nothing /\ decided[j].command = "continue" => decided[j].alone
=============================================================================
