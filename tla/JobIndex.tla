------------------------------ MODULE JobIndex ------------------------------
(***************************************************************************)
(* The job list kept in state.json: what upsertJob and saveState make of   *)
(* it.  A record keeps the moment of its last update and the set of        *)
(* updates merged into it; the fields an update carries are left out.      *)
(***************************************************************************)
EXTENDS Integers, FiniteSets

CONSTANTS
  Writers,      (* calls of upsertJob, each by a process of its own          *)
  Jobs,         (* job ids                                                   *)
  MaxJobs,      (* MAX_JOBS                                                  *)
  Times         (* values of nowIso(), in order                              *)

ASSUME IndexAssumption ==
  /\ MaxJobs \in Nat \ {0}
  /\ Times \subseteq Int

Record == [updatedAt : Times, updates : SUBSET Writers]

(* A job list: the jobs it names, each with its record.                      *)
Index == UNION {[S -> Record] : S \in SUBSET Jobs}

(* An empty list, and what loadState makes of a file that does not parse.    *)
Empty == [j \in {} |-> {}]

NewerThan(idx, j) == {k \in DOMAIN idx : idx[k].updatedAt > idx[j].updatedAt}

(* sort by updatedAt, newest first, and keep the first MAX_JOBS.             *)
Kept(idx) == {j \in DOMAIN idx : Cardinality(NewerThan(idx, j)) < MaxJobs}

Sliced(idx) == [j \in Kept(idx) |-> idx[j]]

(* The patch replaces the record it should have been merged into.            *)
MergedByReplacing(idx, w, j, t) == [updatedAt |-> t, updates |-> {w}]

(* {...state.jobs[index], ...patch, updatedAt}: the old fields are kept.     *)
Merged(idx, w, j, t) ==
  [updatedAt |-> t,
   updates   |-> {w} \cup (IF j \in DOMAIN idx THEN idx[j].updates ELSE {})]

(* The list after upsertJob(patch w of job j) at time t, before the slice.   *)
Upserted(idx, w, j, t) ==
  [k \in DOMAIN idx \cup {j} |-> IF k = j THEN Merged(idx, w, j, t) ELSE idx[k]]

(* Jobs an update pushes off the end of the list.                            *)
Overflow(idx, w, j, t) == DOMAIN idx \ DOMAIN Sliced(Upserted(idx, w, j, t))
=============================================================================
