---------------------------- MODULE JobRegistry ----------------------------
(***************************************************************************)
(* What the state directory promises its users: an update of the job list  *)
(* is one atomic step that loses nobody else's update, and the results     *)
(* (artifacts) of a job are removed only when the list is about to push    *)
(* that job out.  The promise ends for good when the lock that backs it is *)
(* broken (trusted becomes FALSE): by a writer that goes ahead without it, *)
(* or by one that removes a lock directory it did not make.                *)
(***************************************************************************)
EXTENDS JobIndex

CONSTANT InitialIndex

VARIABLES
  index,       (* the job list                                               *)
  artifacts,   (* jobs whose result files are on disk                        *)
  trusted      (* has the lock never been broken?                            *)

registryVars == <<index, artifacts, trusted>>

Init ==
  /\ index \in {InitialIndex, Empty}
  /\ artifacts = DOMAIN InitialIndex
  /\ trusted = TRUE

(* A writer puts the result files of a job on disk before it lists it.       *)
WriteResults(j) ==
  /\ artifacts' = artifacts \cup {j}
  /\ UNCHANGED <<index, trusted>>

(* Remove the results of the job that the next update will push out.         *)
Drop(j) ==
  /\ \E w \in Writers, k \in Jobs, t \in Times : j \in Overflow(index, w, k, t)
  /\ artifacts' = artifacts \ {j}
  /\ UNCHANGED <<index, trusted>>

Commit(w, j, t) ==
  /\ index' = Sliced(Upserted(index, w, j, t))
  /\ UNCHANGED <<artifacts, trusted>>

Break == trusted' = FALSE

Next ==
  \/ /\ trusted
     /\ \/ \E j \in Jobs : WriteResults(j) \/ Drop(j)
        \/ \E w \in Writers, j \in Jobs, t \in Times : Commit(w, j, t)
  \/ Break

Spec == Init /\ [][Next]_registryVars
=============================================================================
