------------------------------- MODULE Journal -------------------------------
(***************************************************************************)
(* The durable journal (lib/db.mjs): one row per job, which each record of *)
(* the job is merged into; the statistics computed from the rows; and the  *)
(* retention of texts, which rides along with the writes.  SQLite makes    *)
(* each statement atomic; statements of two processes interleave.          *)
(*                                                                         *)
(* A row has one column of each kind that jobToRow and the merge tell      *)
(* apart.  Time is counted in halves of a day, so that a moment and the    *)
(* calendar day it lies in are different things.                           *)
(***************************************************************************)
EXTENDS Integers, Functions

CONSTANTS
  Jobs,
  TtlDays,        (* DEFAULT_TEXT_TTL_DAYS                                   *)
  Horizon         (* bound: time                                             *)

VARIABLES
  now,
  rows,           (* the table of jobs, NoRow where a job has none           *)
  requests,       (* when the requests in their table were started           *)
  prunedAt,       (* meta.text_pruned_at, Never if there is none             *)
  best            (* the highest turns a job was recorded with (history)     *)

vars == <<now, rows, requests, prunedAt, best>>

Null  == -1
Never == -1
NoRow == <<>>
Times == 0 .. Horizon

(* A job as recordJob gets it.  turns: a counter with DEFAULT 0 in the list  *)
(* of those merged by MAX; cut: one that defaults to 0 as well, but is not   *)
(* in that list (answers_cut, repeat_run: the proxy's numbers); idle: a      *)
(* measure (turns_idle) that an engine may not take at all; text: prompt,    *)
(* result_text and settings.  Only the record of the run's end has measures  *)
(* and the proxy's numbers, and it has the texts (runTrackedJob).            *)
Record == {job \in [turns : 0 .. 1, cut : 0 .. 1, idle : {Null, 0, 1}, text : BOOLEAN] :
             /\ job.idle <= job.turns /\ job.cut <= job.turns
             /\ job.idle # Null \/ job.cut > 0 => job.text}

Row == [turns : Nat, cut : Nat, idle : {Null} \cup Nat, text : BOOLEAN, created : Times]

TypeOK ==
  /\ now \in Times
  /\ rows \in [Jobs -> {NoRow} \cup Row]
  /\ requests \subseteq Times
  /\ prunedAt \in {Never} \cup Times
  /\ best \in [Jobs -> Nat]

Init ==
  /\ now = 0
  /\ rows = [j \in Jobs |-> NoRow]
  /\ requests = {} /\ prunedAt = Never
  /\ best = [j \in Jobs |-> 0]
-----------------------------------------------------------------------------
MaxOf(a, b)    == IF a > b THEN a ELSE b
Coalesce(a, b) == IF a = Null THEN b ELSE a

(* Mutant: every counter through MAX, and MAX of a NULL is NULL.             *)
MergedByMax(old, new) ==
  [old EXCEPT !.turns = MaxOf(@, new.turns), !.cut = MaxOf(@, new.cut),
              !.idle = IF Null \in {@, new.idle} THEN Null ELSE MaxOf(@, new.idle),
              !.text = @ \/ new.text]

(* Mutant: the latest record wins.                                           *)
MergedByReplacing(old, new) ==
  [old EXCEPT !.turns = new.turns, !.cut = new.cut, !.idle = new.idle, !.text = new.text]

(* ON CONFLICT DO UPDATE: MAX for the counters of the list, COALESCE for the *)
(* rest; a counter that is not in the list comes as 0 and not as NULL.       *)
MergedRow(old, new) ==
  [old EXCEPT !.turns = MaxOf(@, new.turns),
              !.cut = Coalesce(new.cut, @),
              !.idle = Coalesce(new.idle, @),
              !.text = @ \/ new.text]

(* jobToRow; created_at is a field of the job.                               *)
RowOf(job) ==
  [turns |-> job.turns, cut |-> job.cut, idle |-> job.idle, text |-> job.text, created |-> now]

Recorded(j, job) ==
  [rows EXCEPT ![j] = IF @ = NoRow THEN RowOf(job) ELSE MergedRow(@, job)]

Day(t) == t \div 2

(* Comparisons of created_at, which has a T between date and time, with      *)
(* datetime('now', ...), which has a blank: the boundary day counts as later *)
(* than any moment of it.                                                    *)
TextBefore(created, cutoff) == Day(created) < Day(cutoff)

Cutoff == now - 2 * TtlDays

Expired(created) == TextBefore(created, Cutoff)

PruneIsDue == prunedAt = Never \/ now - prunedAt >= 2

(* pruneJournalText: counters stay.                                          *)
PrunedTexts(table) ==
  [j \in Jobs |->
     IF table[j] # NoRow /\ Expired(table[j].created)
     THEN [table[j] EXCEPT !.text = FALSE] ELSE table[j]]

PrunedRequests == {t \in requests : ~Expired(t)}

PruneIfDue(table) ==
  IF PruneIsDue
  THEN /\ rows' = PrunedTexts(table)
       /\ requests' = PrunedRequests
       /\ prunedAt' = now
  ELSE /\ rows' = table /\ UNCHANGED <<requests, prunedAt>>

(* recordJobSafely: record, then prune if that is due.                       *)
RecordJob(j) ==
  \E job \in Record :
    /\ best' = [best EXCEPT ![j] = MaxOf(@, job.turns)]
    /\ PruneIfDue(Recorded(j, job))
    /\ UNCHANGED now

(* The statement fails (the file is busy) and nobody hears of it; pruning    *)
(* goes on.  With no database at all nothing happens.                        *)
RecordIsLost ==
  /\ PruneIfDue(rows)
  /\ UNCHANGED <<now, best>>

(* The recorder of a proxy writes the requests of its run; bound: those of   *)
(* the first moment, which expire in time.                                   *)
RecordRequests ==
  /\ requests = {} /\ now = 0
  /\ requests' = requests \cup {now}
  /\ UNCHANGED <<now, rows, prunedAt, best>>

Tick ==
  /\ now < Horizon /\ now' = now + 1
  /\ UNCHANGED <<rows, requests, prunedAt, best>>

Next == (\E j \in Jobs : RecordJob(j)) \/ RecordIsLost \/ RecordRequests \/ Tick

Spec == Init /\ [][Next]_vars
-----------------------------------------------------------------------------
(* queryStats, over the runs of one bucket.                                  *)
Bucket == {j \in Jobs : rows[j] # NoRow}
Measured == {j \in Bucket : rows[j].idle # Null}

(* turns_idle and turns_idle_turns, its denominator.                         *)
IdleTurns   == SumFunction([j \in Measured |-> rows[j].idle])
IdleTurnsOf == SumFunction([j \in Measured |-> rows[j].turns])
-----------------------------------------------------------------------------
(* A counter of the MAX list never goes back, whichever record of the job    *)
(* comes last, and whatever failed or was swept in between: it is the        *)
(* highest that any record of the job carried.  It is not so for the others. *)
CountersRise == \A j \in Bucket : rows[j].turns = best[j]

(* "Counters only ever move forward, so a late write from a slower path      *)
(* cannot reset a total that a later one already raised" (recordJob).        *)
NoCounterGoesBack ==
  [][\A j \in Bucket : rows'[j].turns >= rows[j].turns /\ rows'[j].cut >= rows[j].cut]_vars

(* A measure that was taken stays taken: the record of the start, or one of  *)
(* an engine that does not take it, comes and does not blank it.             *)
MeasureKept ==
  [][\A j \in Jobs : rows[j] # NoRow /\ rows[j].idle # Null => rows'[j].idle # Null]_vars

(* Runs that were not measured dilute no share: the idle turns of a bucket,  *)
(* out of the turns they are a share of, do not change when such a run is    *)
(* added to it.                                                              *)
UnmeasuredDoNotDilute ==
  [][\A j \in Jobs :
       rows[j] = NoRow /\ rows'[j] # NoRow /\ rows'[j].idle = Null =>
         IdleTurns' = IdleTurns /\ IdleTurnsOf' = IdleTurnsOf]_vars

(* Retention: a text goes no sooner than the time it may be kept, and when   *)
(* a sweep was made it is kept a day longer at most.                         *)
TextsExpire ==
  /\ [][\A j \in Jobs : rows[j] # NoRow /\ rows[j].text /\ ~rows'[j].text =>
          now - rows[j].created >= 2 * TtlDays]_vars
  /\ [][prunedAt' # prunedAt =>
          \A j \in Jobs : rows'[j] # NoRow /\ rows'[j].text => now - rows'[j].created < 2 * TtlDays + 2]_vars

(* What was measured or written of a run is kept and counted as what it is,  *)
(* for as long as it may be.                                                 *)
MeasuresHold == MeasureKept /\ UnmeasuredDoNotDilute /\ TextsExpire
=============================================================================
