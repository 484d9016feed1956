---------------------------- MODULE SandboxSlots ----------------------------
(***************************************************************************)
(* lib/sandbox.mjs: the slots of a concurrency pool.  A run counts the     *)
(* containers that docker shows, then the reservation files, and claims a  *)
(* slot with a file of its own when the sum is below the limit; the file   *)
(* stands for the container until docker shows it.  The runs are processes *)
(* that share nothing but docker and a directory.  A run of the json       *)
(* engine takes a slot again for each of its passes.                       *)
(*                                                                         *)
(* Faults names what may go wrong in a run:                                *)
(*   "crash"  the process of a run is killed,                              *)
(*   "docker" docker ps fails and is taken for an empty list,              *)
(*   "disk"   the reservation cannot be written,                           *)
(*   "slow"   a container takes longer to show than its file is trusted.   *)
(***************************************************************************)
EXTENDS Integers, FiniteSets

CONSTANTS
  Runs,
  Limit,       (* maxConcurrent of the pool                                  *)
  Passes,      (* bound: passes of a run                                     *)
  Faults

ASSUME SlotsAssumption ==
  /\ IsFiniteSet(Runs)
  /\ Limit \in Nat \ {0} /\ Passes \in Nat \ {0}
  /\ Faults \subseteq {"crash", "docker", "disk", "slow"}

VARIABLES
  pc,             (* where each run is                                       *)
  pass,           (* the pass it is in                                       *)
  up,             (* the containers it has just counted                      *)
  reservations,   (* the files: which run wrote them, in which pass          *)
  container,      (* the container of each run                               *)
  lapses          (* what made a check miss a slot that was taken (history)  *)

vars == <<pc, pass, up, reservations, container, lapses>>

Steps == {"look", "counted", "claim", "full", "claimed", "running", "failed", "over", "dead"}

TypeOK ==
  /\ pc \in [Runs -> Steps]
  /\ pass \in [Runs -> 1 .. Passes]
  /\ up \in [Runs -> 0 .. Cardinality(Runs)]
  /\ reservations \subseteq Runs \X (1 .. Passes)
  /\ container \in [Runs -> {"none", "starting", "up"}]
  /\ lapses \subseteq {"overlap"} \cup Faults

Init ==
  /\ pc = [r \in Runs |-> "look"]
  /\ pass = [r \in Runs |-> 1]
  /\ up = [r \in Runs |-> 0]
  /\ reservations = {}
  /\ container = [r \in Runs |-> "none"]
  /\ lapses = {}

Goto(r, from, to) ==
  /\ pc[r] = from
  /\ pc' = [pc EXCEPT ![r] = to]

Shown == {r \in Runs : container[r] = "up"}

(* Is a run other than r between its first count and its claim?              *)
Overlapped(r, steps) == \E q \in Runs \ {r} : pc[q] \in steps

Lapse(kind, happens) == lapses' = IF happens THEN lapses \cup {kind} ELSE lapses
-----------------------------------------------------------------------------
(* docker ps; a failure of it reads as no container at all.                  *)
CountContainers(r) ==
  /\ Goto(r, "look", "counted")
  /\ \/ /\ up' = [up EXCEPT ![r] = Cardinality(Shown)]
        /\ UNCHANGED lapses
     \/ /\ "docker" \in Faults
        /\ up' = [up EXCEPT ![r] = 0]
        /\ Lapse("docker", Shown # {})
  /\ UNCHANGED <<pass, reservations, container>>

(* The slots taken by the containers alone.                                  *)
TakenByContainers(r) == up[r]

Taken(r) == up[r] + Cardinality(reservations)

CountReservations(r) ==
  /\ Goto(r, "counted", IF Taken(r) < Limit THEN "claim" ELSE "full")
  /\ UNCHANGED <<pass, up, reservations, container, lapses>>

(* reserveSlot; a file that cannot be written is no reason not to start.     *)
Claim(r) ==
  /\ Goto(r, "claim", "claimed")
  /\ \/ /\ reservations' = reservations \cup {<<r, pass[r]>>}
        /\ Lapse("overlap", Overlapped(r, {"counted", "claim"}))
     \/ /\ "disk" \in Faults
        /\ lapses' = lapses \cup {"disk"}
        /\ UNCHANGED reservations
  /\ UNCHANGED <<pass, up, container>>

(* The pool is full: look again after the poll, or give up at the time-out.  *)
Poll(r) ==
  /\ Goto(r, "full", "look")
  /\ UNCHANGED <<pass, up, reservations, container, lapses>>

GiveUp(r) ==
  /\ Goto(r, "full", "failed")
  /\ UNCHANGED <<pass, up, reservations, container, lapses>>

(* docker run                                                                *)
Spawn(r) ==
  /\ Goto(r, "claimed", "running")
  /\ container' = [container EXCEPT ![r] = "starting"]
  /\ UNCHANGED <<pass, up, reservations, lapses>>

(* docker ps shows the container.                                            *)
Appear(r) ==
  /\ container[r] = "starting"
  /\ container' = [container EXCEPT ![r] = "up"]
  /\ Lapse("overlap", Overlapped(r, {"counted"}))
  /\ UNCHANGED <<pc, pass, up, reservations>>

(* It is gone: the agent ended, docker failed to start it, or it was removed. *)
Stop(r) ==
  /\ container[r] # "none"
  /\ container' = [container EXCEPT ![r] = "none"]
  /\ UNCHANGED <<pc, pass, up, reservations, lapses>>

(* A resumption more than the engine allows.                                 *)
EndPassOnceMore(r) ==
  /\ container[r] = "none" /\ pass[r] <= Passes
  /\ Goto(r, "running", "look")
  /\ pass' = [pass EXCEPT ![r] = @ + 1]
  /\ UNCHANGED <<up, reservations, container, lapses>>

(* The turn returns; a run of the json engine may resume a truncated one.    *)
EndPass(r) ==
  /\ container[r] = "none"
  /\ \/ Goto(r, "running", "over") /\ UNCHANGED pass
     \/ /\ pass[r] < Passes
        /\ Goto(r, "running", "look")
        /\ pass' = [pass EXCEPT ![r] = @ + 1]
  /\ UNCHANGED <<up, reservations, container, lapses>>

(* The container a reservation stands for has not been seen yet.             *)
Needed(r, p) == p = pass[r] /\ (pc[r] = "claimed" \/ container[r] = "starting")

(* releaseSlotWhenVisible: docker shows the container, or 15 seconds passed. *)
Release(r, p) ==
  /\ <<r, p>> \in reservations
  /\ pc[r] \notin {"claimed", "dead"}
  /\ ~Needed(r, p) \/ "slow" \in Faults
  /\ reservations' = reservations \ {<<r, p>>}
  /\ Lapse("slow", Needed(r, p))
  /\ UNCHANGED <<pc, pass, up, container>>

(* A reservation trusted for ever.                                           *)
NeverExpire(r, p) == FALSE /\ UNCHANGED vars

(* RESERVATION_WINDOW_MS passed, whatever became of the owner.               *)
Expire(r, p) ==
  /\ <<r, p>> \in reservations
  /\ ~Needed(r, p) \/ "slow" \in Faults
  /\ reservations' = reservations \ {<<r, p>>}
  /\ Lapse("slow", Needed(r, p))
  /\ UNCHANGED <<pc, pass, up, container>>

(* The process dies; its container goes on, and so does its reservation.     *)
Crash(r) ==
  /\ "crash" \in Faults
  /\ pc[r] \notin {"failed", "over", "dead"}
  /\ pc' = [pc EXCEPT ![r] = "dead"]
  /\ UNCHANGED <<pass, up, reservations, container, lapses>>

Run(r) ==
  CountContainers(r) \/ CountReservations(r) \/ Claim(r) \/ Poll(r) \/ Spawn(r) \/ EndPass(r)

Next ==
  \E r \in Runs :
    \/ Run(r) \/ GiveUp(r) \/ Crash(r) \/ Appear(r) \/ Stop(r)
    \/ \E p \in 1 .. Passes : Release(r, p) \/ Expire(r, p)

Spec == Init /\ [][Next]_vars

(* The processes run, docker starts what it is told to start, every agent    *)
(* ends (its run has a time-out), and time passes.  No waiter has to give up. *)
FairSpec ==
  /\ Spec
  /\ \A r \in Runs :
       /\ WF_vars(Run(r)) /\ WF_vars(Appear(r)) /\ WF_vars(Stop(r))
       /\ \A p \in 1 .. Passes : WF_vars(Expire(r, p))
-----------------------------------------------------------------------------
Containers == {r \in Runs : container[r] # "none"}

(* The pool never holds more containers than slots as long as no check was   *)
(* overlapped by another claim or by a container that came up between its    *)
(* two counts, and docker, the disk and the clock kept their part.           *)
CapKept == lapses = {} => Cardinality(Containers) <= Limit

(* A run that waits for a slot gets one in the end, though nothing queues    *)
(* the waiters and the dead never give their reservations back.              *)
EveryWaiterGetsIn ==
  \A r \in Runs : pc[r] = "look" ~> pc[r] \in {"claimed", "failed", "dead"}

(* maxConcurrent caps how many containers run at once (docs/sandbox.md).     *)
CapHolds == Cardinality(Containers) <= Limit
=============================================================================
