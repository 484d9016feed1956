---------------------------- MODULE MCStateStore ----------------------------
(***************************************************************************)
(* A workspace whose list is full: with MaxJobs = 2 and two jobs left by   *)
(* an earlier session, the first update of a new job evicts one of them.   *)
(***************************************************************************)
EXTENDS StateStore, TLC

CONSTANTS w1, w2, w3, a, b, c

(* Two old jobs, a before b.                                                 *)
OldJobs ==
  (a :> [updatedAt |-> -1, updates |-> {}]) @@ (b :> [updatedAt |-> 0, updates |-> {}])

(* One moment for each call, after those of the old jobs.                    *)
Moments == -1 .. Cardinality(Writers)

(* The calls differ in nothing but their names.                              *)
SameWriters == Permutations(Writers)
=============================================================================
