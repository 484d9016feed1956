---------------------------- MODULE FleetChannel ----------------------------
(***************************************************************************)
(* The machine-wide log of finished runs (lib/fleet-events.mjs) and those  *)
(* who follow it ("events --follow", commandEvents of pi-companion.mjs).   *)
(* A run announces its end by a line of its own; a follower reads the log  *)
(* from a cursor that counts lines, prints what it has not seen, and now   *)
(* and then sweeps the jobs for runs that were killed and announces them   *)
(* in their place.  recordFleetEvent rotates the log when it is too large. *)
(*                                                                         *)
(* All of them are processes of their own: between the copy of a rotation  *)
(* and its rewrite, and between the line a sweep appends and the read that *)
(* moves its cursor, others write.  A line is known by its eventKey, and   *)
(* the size of the log is its number of lines.                             *)
(***************************************************************************)
EXTENDS Integers, SequencesExt, Functions

CONSTANTS
  Runs,
  Followers,
  Ended,          (* the ANNOUNCED_STATUSES a run records of itself          *)
  MaxLog,         (* MAX_LOG_BYTES, in lines                                 *)
  KeepLines       (* KEEP_LINES                                              *)

VARIABLES
  log,            (* the lines of the log                                    *)
  status,         (* of each run, as enrichJob shows it                      *)
  writing,        (* the event a process is recording, NoEvent for none      *)
  writer,         (* where it is in recordFleetEvent                         *)
  copy,           (* the lines a rotation will write back                    *)
  follower,       (* where a follower is                                     *)
  cursor,
  seen,
  orphans,        (* what the sweep of a follower has still to record        *)
  shown,          (* how often a follower printed an event (history)         *)
  since,          (* events recorded since it was armed (history)            *)
  disturbed       (* has its place in the log been upset? (history)          *)

logVars      == <<log, writing, writer, copy>>
followerVars == <<follower, cursor, seen, orphans, shown>>
vars         == <<logVars, status, followerVars, since, disturbed>>

Processes == Runs \cup Followers

Events == [id : Runs, status : Ended \cup {"orphaned"}]

Event(run, s) == [id |-> run, status |-> s]
NoEvent == <<>>

TypeOK ==
  /\ log \in Seq(Events)
  /\ status \in [Runs -> {"running", "orphaned"} \cup Ended]
  /\ writing \in [Processes -> {NoEvent} \cup Events]
  /\ writer \in [Processes -> {"idle", "size", "rotate", "append"}]
  /\ copy \in [Processes -> Seq(Events)]
  /\ follower \in [Followers -> {"off", "poll", "sweep", "record", "jump"}]
  /\ cursor \in [Followers -> Nat]
  /\ seen \in [Followers -> SUBSET Events]
  /\ orphans \in [Followers -> SUBSET Events]
  /\ shown \in [Followers -> [Events -> Nat]]
  /\ since \in [Followers -> SUBSET Events]
  /\ disturbed \subseteq Followers

Init ==
  /\ log = <<>>
  /\ status = [r \in Runs |-> "running"]
  /\ writing = [p \in Processes |-> NoEvent]
  /\ writer = [p \in Processes |-> "idle"]
  /\ copy = [p \in Processes |-> <<>>]
  /\ follower = [f \in Followers |-> "off"]
  /\ cursor = [f \in Followers |-> 0]
  /\ seen = [f \in Followers |-> {}]
  /\ orphans = [f \in Followers |-> {}]
  /\ shown = [f \in Followers |-> [e \in Events |-> 0]]
  /\ since = [f \in Followers |-> {}]
  /\ disturbed = {}
-----------------------------------------------------------------------------
(* A run ends: its status is recorded, then announced by its own process.    *)
Begins(p, event) ==
  /\ writing' = [writing EXCEPT ![p] = event]
  /\ writer' = [writer EXCEPT ![p] = "size"]
  /\ UNCHANGED <<log, copy>>

RunEnds(r) ==
  /\ status[r] = "running"
  /\ \E s \in Ended :
       /\ status' = [status EXCEPT ![r] = s]
       /\ Begins(r, Event(r, s))
  /\ UNCHANGED <<followerVars, since, disturbed>>

(* A run is killed before it has recorded an end.                            *)
RunIsKilled(r) ==
  /\ status[r] = "running"
  /\ status' = [status EXCEPT ![r] = "orphaned"]
  /\ UNCHANGED <<logVars, followerVars, since, disturbed>>

(* rotateIfLarge: the size is looked at, and a large log is read.            *)
LookAtSize(p) ==
  /\ writer[p] = "size"
  /\ IF Len(log) > MaxLog
     THEN /\ writer' = [writer EXCEPT ![p] = "rotate"]
          /\ copy' = [copy EXCEPT ![p] =
               SubSeq(log, IF Len(log) > KeepLines THEN Len(log) - KeepLines + 1 ELSE 1, Len(log))]
     ELSE /\ writer' = [writer EXCEPT ![p] = "append"] /\ UNCHANGED copy
  /\ UNCHANGED <<log, writing, status, followerVars, since, disturbed>>

Armed == {f \in Followers : follower[f] # "off"}

Rotate(p) ==
  /\ writer[p] = "rotate"
  /\ log' = copy[p]
  /\ copy' = [copy EXCEPT ![p] = <<>>]
  /\ writer' = [writer EXCEPT ![p] = "append"]
  /\ disturbed' = disturbed \cup Armed
  /\ UNCHANGED <<writing, status, followerVars, since>>

AppendLine(p) ==
  /\ writer[p] = "append"
  /\ log' = Append(log, writing[p])
  /\ since' = [f \in Followers |-> IF f \in Armed THEN since[f] \cup {writing[p]} ELSE since[f]]
  /\ writer' = [writer EXCEPT ![p] = "idle"]
  /\ UNCHANGED <<writing, copy, status, followerVars, disturbed>>
-----------------------------------------------------------------------------
(* readFleetEvents: the lines from the cursor on, all of a shorter log.      *)
Unread(from) == IF from > Len(log) THEN log ELSE SubSeq(log, from + 1, Len(log))

(* A follower takes the history as seen, and begins at the end of the log.   *)
Arm(f) ==
  /\ follower[f] = "off"
  /\ follower' = [follower EXCEPT ![f] = "poll"]
  /\ seen' = [seen EXCEPT ![f] = Range(log)]
  /\ cursor' = [cursor EXCEPT ![f] = Len(log)]
  /\ UNCHANGED <<logVars, status, orphans, shown, since, disturbed>>

(* What a follower prints.                                                   *)
Prints(f, events) ==
  /\ seen' = [seen EXCEPT ![f] = @ \cup events]
  /\ shown' = [shown EXCEPT ![f] = [e \in Events |-> IF e \in events THEN @[e] + 1 ELSE @[e]]]

(* Mutant: the cursor alone tells what is new.                               *)
FreshByCursor(f, lines) == ToSet(lines)

Fresh(f, lines) == ToSet(lines) \ seen[f]

Poll(f) ==
  /\ follower[f] = "poll"
  /\ Prints(f, Fresh(f, Unread(cursor[f])))
  /\ cursor' = [cursor EXCEPT ![f] = Len(log)]
  /\ follower' \in {follower, [follower EXCEPT ![f] = "sweep"]}
  /\ UNCHANGED <<logVars, status, orphans, since, disturbed>>

(* Mutant: what is in the log already needs no sweep.                        *)
OrphansNotLogged(f) ==
  {Event(r, "orphaned") : r \in {r \in Runs : status[r] = "orphaned"}} \ (seen[f] \cup Range(log))

(* orphanEvents of a snapshot of all jobs.                                   *)
OrphanEvents(f) ==
  {Event(r, "orphaned") : r \in {r \in Runs : status[r] = "orphaned"}} \ seen[f]

Sweep(f) ==
  /\ follower[f] = "sweep"
  /\ orphans' = [orphans EXCEPT ![f] = OrphanEvents(f)]
  /\ follower' = [follower EXCEPT ![f] = IF OrphanEvents(f) = {} THEN "poll" ELSE "record"]
  /\ UNCHANGED <<logVars, status, cursor, seen, shown, since, disturbed>>

RecordOrphan(f) ==
  /\ follower[f] = "record"
  /\ \E e \in orphans[f] : Begins(f, e)
  /\ follower' = [follower EXCEPT ![f] = "jump"]
  /\ UNCHANGED <<status, cursor, seen, orphans, shown, since, disturbed>>

(* The orphan is printed, and the cursor moves to the end of the log: past   *)
(* its line, and past what others have appended since the last read.         *)
JumpPast(f) ==
  /\ follower[f] = "jump" /\ writer[f] = "idle"
  /\ Prints(f, {writing[f]})
  /\ orphans' = [orphans EXCEPT ![f] = @ \ {writing[f]}]
  /\ follower' = [follower EXCEPT ![f] = IF orphans[f] = {writing[f]} THEN "poll" ELSE "record"]
  /\ cursor' = [cursor EXCEPT ![f] = Len(log)]
  /\ disturbed' = IF Len(log) # cursor[f] + 1 THEN disturbed \cup {f} ELSE disturbed
  /\ UNCHANGED <<logVars, status, since>>
-----------------------------------------------------------------------------
Records(p) == LookAtSize(p) \/ Rotate(p) \/ AppendLine(p)

Follows(f) == Poll(f) \/ Sweep(f) \/ RecordOrphan(f) \/ JumpPast(f)

Next ==
  \/ \E r \in Runs : RunEnds(r) \/ RunIsKilled(r)
  \/ \E p \in Processes : Records(p)
  \/ \E f \in Followers : Arm(f) \/ Follows(f)

Spec == Init /\ [][Next]_vars

(* Processes run, and a follower sweeps again and again.                     *)
Fairness ==
  /\ \A p \in Processes : WF_vars(Records(p))
  /\ \A f \in Followers : WF_vars(Follows(f)) /\ SF_vars(Sweep(f))

FairSpec == Spec /\ Fairness
-----------------------------------------------------------------------------
(* A follower prints an ending once: not again when a rotation makes it read *)
(* the same lines, nor when several followers record the same death.         *)
ShownOnce == \A f \in Followers, e \in Events : shown[f][e] <= 1

AheadOf(f) == Range(SubSeq(log, cursor[f] + 1, Len(log)))

Misses(f) == f \in Armed /\ ~(since[f] \subseteq seen[f] \cup AheadOf(f))

(* As long as the log is not rotated, and no orphan of its own made it move  *)
(* past the lines of others, a follower has seen or has still before it      *)
(* every ending recorded since it was armed.                                 *)
NothingSkipped == \A f \in Followers \ disturbed : ~Misses(f)

(* A follower is told of an ending once, and of all there is to tell.        *)
ExactlyOnce == ShownOnce /\ NothingSkipped

(* A run that was killed is shown to every follower in the end, who ever     *)
(* records it and whatever becomes of the log.                               *)
DeathIsShown ==
  \A r \in Runs, f \in Followers :
    status[r] = "orphaned" /\ f \in Armed ~> Event(r, "orphaned") \in seen[f]

(* "Silence in this channel means still working and never died quietly" (the *)
(* comment of commandEvents): no ending is skipped, with or without a sweep. *)
SilenceMeansWorking == \A f \in Followers : ~Misses(f)
=============================================================================
