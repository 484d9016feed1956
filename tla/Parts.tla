-------------------------------- MODULE Parts --------------------------------
(***************************************************************************)
(* The smaller components side by side: a behaviour is one of its subject, *)
(* and the others stay as they are.                                        *)
(***************************************************************************)
EXTENDS Integers, FiniteSets

CONSTANTS
  Runs, Followers, Ended, MaxLog, KeepLines,                    (* FleetChannel    *)
  Senders, Faults,                                              (* ControlInbox    *)
  Recordings, TtlDays, HalfDays,                                (* Journal         *)
  Connections, Hosts, Paths, BadPath, Moves, MaxHops,           (* GitProxy        *)
  Exchanges,                                                    (* CredentialProxy *)
  Lengths, Long, FlushAt, MaxRequests,                          (* RequestRecorder *)
  MaxBytes, MaxPartial,                                         (* LineReaders     *)
  Tools, Files, Passes, PassCalls, WorkTime,                    (* AgentWork       *)
  MaxJobs, Ids, Ttl, SessionTime,                               (* Sessions        *)
  Boxed, Workspaces, Trusted, Profiles, Configs, Gitconfig, Equipment  (* SandboxPlan *)

VARIABLES
  subject,
  log, status, writing, writer, copy, follower, cursor, seen, orphans, shown, since, disturbed,
  job, sender, lines, half, engine, inboxCursor, delivered, lapsed,
  day, rows, requests, prunedAt, best,
  specs, gitProxy, canonical, fetch, moved, landed,
  run, proxy, exchange, outcomes, flushed,
  pending, written, timer, summary, repeatRun, repeatLastOut, closed, history,
  kind, text, over, offset, partial, line, handed, dropped,
  now, began, open, work, intervals, total, passes, calls, jobBegan,
  clock, records, child, runs, used, decided,
  config, containers

fleetVars      == <<log, status, writing, writer, copy, follower, cursor, seen, orphans, shown,
                    since, disturbed>>
inboxVars      == <<job, sender, lines, half, engine, inboxCursor, delivered, lapsed>>
journalVars    == <<day, rows, requests, prunedAt, best>>
gitVars        == <<specs, gitProxy, canonical, fetch, moved, landed>>
credentialVars == <<run, proxy, exchange, outcomes, flushed>>
recorderVars   == <<pending, written, timer, summary, repeatRun, repeatLastOut, closed, history>>
readerVars     == <<kind, text, over, offset, partial, line, handed, dropped>>
workVars       == <<now, began, open, work, intervals, total, passes, calls, jobBegan>>
sessionVars    == <<clock, records, child, runs, used, decided>>
sandboxVars    == <<config, containers>>

Subjects ==
  {"fleet", "inbox", "journal", "git", "credentials", "recorder", "readers", "work", "sessions",
   "sandbox"}

Fleet       == INSTANCE FleetChannel
Inbox       == INSTANCE ControlInbox WITH cursor <- inboxCursor
Records     == INSTANCE Journal WITH Jobs <- Recordings, Horizon <- HalfDays, now <- day
Git         == INSTANCE GitProxy WITH Requests <- Connections, proxy <- gitProxy, exchange <- fetch
Cred        == INSTANCE CredentialProxy WITH Requests <- Exchanges, rows <- outcomes
Recorder    == INSTANCE RequestRecorder WITH requests <- history
Readers     == INSTANCE LineReaders
Work        == INSTANCE AgentWork WITH Kinds <- Tools, Horizon <- WorkTime
Continued   == INSTANCE Sessions WITH Horizon <- SessionTime, now <- clock, handed <- child
Sandboxes   == INSTANCE SandboxPlan WITH Jobs <- Boxed

(* What the constants stand for: a run is not a follower; a forge redirects  *)
(* a location to a location, and no path is the mark of none; no session is  *)
(* called as a reference is; a container is not named as the volume of the   *)
(* agent is (containerName), profiles are the finitely many of a file, and   *)
(* .gitconfig is no directory of skills.                                     *)
FleetConstants   == Runs \cap Followers = {} /\ KeepLines \in Nat
GitConstants     == /\ Moves \subseteq [Git!Locations -> Git!Locations]
                    /\ MaxHops \in Nat /\ Git!Nowhere \notin Paths
SessionConstants == /\ MaxJobs \in Nat /\ Ttl \in Nat /\ SessionTime \in Nat
                    /\ Ids \cap {Continued!None, Continued!Last} = {}
JournalConstants == TtlDays \in Nat /\ HalfDays \in Nat
RecorderConstants == /\ Lengths \subseteq Nat /\ Long \in Nat \ {0} /\ FlushAt \in Nat \ {0}
                     /\ MaxRequests \in Nat
WorkConstants == WorkTime \in Nat /\ Passes \in Nat \ {0}
SandboxConstants ==
  /\ Configs \subseteq Sandboxes!Config /\ IsFiniteSet(Profiles)
  /\ Boxed \cap {"agent", "missing"} = {} /\ Sandboxes!Agent \notin Sandboxes!Targets
  /\ Gitconfig # Equipment

ASSUME PartsAssumption ==
  /\ FleetConstants /\ JournalConstants /\ GitConstants /\ SessionConstants /\ SandboxConstants
  /\ RecorderConstants /\ WorkConstants
-----------------------------------------------------------------------------
(* What a part chooses at its start is chosen when it is the subject.        *)
Chosen ==
  /\ subject # "git" => /\ specs = [h \in Hosts |-> [secret |-> "value", allowPush |-> TRUE]]
                        /\ moved = [l \in Git!Locations |-> l]
  /\ subject # "credentials" => run = CHOOSE r \in Cred!Run : TRUE
  /\ subject # "readers" => kind = "jsonl"
  /\ subject # "sandbox" => config = CHOOSE c \in Configs : TRUE

Init ==
  /\ subject \in Subjects
  /\ Chosen
  /\ Fleet!Init /\ Inbox!Init /\ Records!Init /\ Git!Init /\ Cred!Init
  /\ Recorder!Init /\ Readers!Init /\ Work!Init /\ Continued!Init /\ Sandboxes!Init

Next ==
  /\ UNCHANGED subject
  /\ IF subject = "fleet"       THEN Fleet!Next       ELSE UNCHANGED fleetVars
  /\ IF subject = "inbox"       THEN Inbox!Next       ELSE UNCHANGED inboxVars
  /\ IF subject = "journal"     THEN Records!Next     ELSE UNCHANGED journalVars
  /\ IF subject = "git"         THEN Git!Next         ELSE UNCHANGED gitVars
  /\ IF subject = "credentials" THEN Cred!Next ELSE UNCHANGED credentialVars
  /\ IF subject = "recorder"    THEN Recorder!Next    ELSE UNCHANGED recorderVars
  /\ IF subject = "readers"     THEN Readers!Next     ELSE UNCHANGED readerVars
  /\ IF subject = "work"        THEN Work!Next        ELSE UNCHANGED workVars
  /\ IF subject = "sessions"    THEN Continued!Next   ELSE UNCHANGED sessionVars
  /\ IF subject = "sandbox"     THEN Sandboxes!Next   ELSE UNCHANGED sandboxVars

vars ==
  <<subject, fleetVars, inboxVars, journalVars, gitVars, credentialVars, recorderVars, readerVars,
    workVars, sessionVars, sandboxVars>>

Spec == Init /\ [][Next]_vars /\ Fleet!Fairness
-----------------------------------------------------------------------------
(* The type invariants of the parts.                                         *)
TypeOK ==
  /\ Fleet!TypeOK /\ Inbox!TypeOK /\ Records!TypeOK /\ Git!TypeOK /\ Cred!TypeOK
  /\ Recorder!TypeOK /\ Readers!TypeOK /\ Work!TypeOK /\ Continued!TypeOK /\ Sandboxes!TypeOK

(* A follower is told of an ending once, and of all there is to tell.        *)
ExactlyOnce == Fleet!ExactlyOnce

(* A run that was killed is shown to every follower in the end.              *)
DeathIsShown == Fleet!DeathIsShown

(* What is said to a running job while it can be told arrives, in order.     *)
MessagesArrive == Inbox!MessagesArrive

(* A counter is the highest any record of the job carried.                   *)
CountersRise == Records!CountersRise

(* What was measured or written is kept and counted as what it is.           *)
MeasuresHold == Records!MeasuresHold

(* A credential goes to its forge, and no push where none is allowed.        *)
OnlyWhatIsAllowed == Git!OnlyWhatIsAllowed

(* The second request of a fetch goes where the first found the repository.  *)
PackFollowsRefs == Git!PackFollowsRefs

(* The provider sees one ceiling, and the declared one where none was set.   *)
OneCeiling == Cred!OneCeiling

(* Every exchange is recorded once, for what happened to it first.           *)
RecordedOnce == Cred!RecordedOnce

(* What the summary and the table tell of the requests is what happened.     *)
RepetitionIsReal == Recorder!RepetitionIsReal

(* Every line is handed on once, whatever pieces the text comes in.          *)
LinesOnce == Readers!LinesOnce

(* The report of a run is the sum of what was done, nothing of it twice.     *)
WorkAddsUp == Work!WorkAddsUp

(* What is continued was asked for, and is cold only where that is allowed.  *)
ContinuesOnPurpose == Continued!ContinuesOnPurpose

(* What an untrusted run or a private store holds reaches no other run.      *)
StateStaysApart == Sandboxes!StateStaysApart

(* What any layer or profile mounts is mounted, as the nearest one says, and *)
(* the skills with it unless they were in a volume that is replaced.         *)
EquipmentAddsUp == Sandboxes!EquipmentAddsUp

(* A run with skills has them: refuted, see SandboxPlan.                     *)
SkillsArrive == Sandboxes!SkillsArrive
=============================================================================
