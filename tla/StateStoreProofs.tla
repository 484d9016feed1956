-------------------------- MODULE StateStoreProofs --------------------------
(***************************************************************************)
(* What holds of the job list for any number of calls, jobs and list       *)
(* entries, and under any faults.                                          *)
(***************************************************************************)
EXTENDS StateStore, TLAPS

USE IndexAssumption, StoreAssumption

(* The slice of an updated list is a list of jobs again.                     *)
LEMMA SlicedIsIndex ==
  ASSUME NEW idx \in Index, NEW w \in Writers, NEW j \in Jobs, NEW t \in Times
  PROVE  Sliced(Upserted(idx, w, j, t)) \in Index
<1> DEFINE up == Upserted(idx, w, j, t)
<1>1. PICK S \in SUBSET Jobs : idx \in [S -> Record]
  BY DEF Index
<1>2. Merged(idx, w, j, t) \in Record
  BY <1>1 DEF Merged, Record
<1>3. up \in [S \cup {j} -> Record]
  BY <1>1, <1>2 DEF Upserted
<1>4. Kept(up) \subseteq S \cup {j}
  BY <1>3 DEF Kept
<1>5. Sliced(up) \in [Kept(up) -> Record]
  BY <1>3, <1>4 DEF Sliced
<1> QED
  BY <1>4, <1>5 DEF Index

(* An update of the list keeps every update of a job that stays listed.      *)
LEMMA UpsertKeepsUpdates ==
  ASSUME NEW idx \in Index, NEW w \in Writers, NEW j \in Jobs, NEW t \in Times,
         NEW k \in DOMAIN idx \cap DOMAIN Sliced(Upserted(idx, w, j, t))
  PROVE  idx[k].updates \subseteq Sliced(Upserted(idx, w, j, t))[k].updates
  BY DEF Sliced, Kept, Upserted, Merged

LEMMA EmptyIsIndex == Empty \in Index
<1>1. Empty \in [{} -> Record]
  BY DEF Empty
<1> QED
  BY <1>1 DEF Index

(* Every variable keeps its type.                                            *)
THEOREM TypeCorrect == Spec => []TypeOK
<1>1. Init => TypeOK
  <2>1. DOMAIN InitialIndex \subseteq Jobs
    BY DEF Index
  <2> SUFFICES ASSUME Init PROVE TypeOK
    OBVIOUS
  <2>2. index \in Index /\ readable \in BOOLEAN /\ artifacts \subseteq Jobs
    BY <2>1, EmptyIsIndex DEF Init
  <2>3. view \in [Writers -> Index]
    BY EmptyIsIndex DEF Init
  <2> QED
    BY <2>2, <2>3 DEF Init, TypeOK, Steps
<1>2. TypeOK /\ [Next]_vars => TypeOK'
  <2> SUFFICES ASSUME TypeOK, [Next]_vars
               PROVE  TypeOK'
    OBVIOUS
  <2> USE DEF TypeOK, Goto, disk, dirs, Steps
  <2>1. CASE Tick
    BY <2>1 DEF Tick, Capped
  <2>2. ASSUME NEW w \in Writers, Begin(w) PROVE TypeOK'
    BY <2>2 DEF Begin
  <2>3. ASSUME NEW w \in Writers, Acquire(w) PROVE TypeOK'
    BY <2>3 DEF Acquire
  <2>4. ASSUME NEW w \in Writers, Inspect(w) PROVE TypeOK'
    BY <2>4 DEF Inspect
  <2>5. ASSUME NEW w \in Writers, Reclaim(w) PROVE TypeOK'
    BY <2>5 DEF Reclaim
  <2>6. ASSUME NEW w \in Writers, Expire(w) PROVE TypeOK'
    BY <2>6 DEF Expire
  <2>7. ASSUME NEW w \in Writers, Load(w) PROVE TypeOK'
    <3>1. Sliced(Upserted(index, w, target[w], clock')) \in Index
      BY <2>7, SlicedIsIndex DEF Load
    <3> QED
      BY <2>7, <3>1 DEF Load
  <2>8. ASSUME NEW w \in Writers, Compare(w) PROVE TypeOK'
    <3>1. Victims(w) \in SUBSET Jobs
      BY DEF Victims, Index
    <3> QED
      BY <2>8, <3>1 DEF Compare
  <2>9. ASSUME NEW w \in Writers, Evict(w) PROVE TypeOK'
    BY <2>9 DEF Evict
  <2>10. ASSUME NEW w \in Writers, Rename(w) PROVE TypeOK'
    BY <2>10 DEF Rename
  <2>11. ASSUME NEW w \in Writers, Release(w) PROVE TypeOK'
    BY <2>11 DEF Release
  <2>12. ASSUME NEW w \in Writers, SaveThrows(w) PROVE TypeOK'
    BY <2>12 DEF SaveThrows
  <2>13. ASSUME NEW w \in Writers, Crash(w) PROVE TypeOK'
    BY <2>13 DEF Crash
  <2>14. CASE UNCHANGED vars
    BY <2>14 DEF vars, locals
  <2> QED
    BY <2>1, <2>2, <2>3, <2>4, <2>5, <2>6, <2>7, <2>8, <2>9, <2>10, <2>11, <2>12, <2>13,
       <2>14
    DEF Next, Step
<1> QED
  BY <1>1, <1>2, PTL DEF Spec

-----------------------------------------------------------------------------
(* While no directory was removed by a writer that did not make it, the lock *)
(* directory belongs to the one call inside; and a call is inside without    *)
(* holding the lock only after it gave up waiting.                           *)
LockInv ==
  /\ \A w \in Writers : pc[w] \in {"release", "unwind"} => held[w]
  /\ \A w \in Writers : pc[w] \in Section /\ ~held[w] => "unlocked" \in breaches
  /\ \A w \in Writers : pc[w] \in {"start", "try", "reclaim"} => ~held[w]
  /\ "reclaimed" \notin breaches => \A w \in Writers : Inside(w) => lock = w

(* The lock directory tells who is inside as long as nobody removed one that *)
(* was not its own (lib/state.mjs, withStateLock).                           *)
THEOREM LockOwnership == Spec => []LockInv
<1>1. Init => LockInv
  BY DEF Init, LockInv, Inside, Section
<1>2. TypeOK /\ LockInv /\ [Next]_vars => LockInv'
  <2> SUFFICES ASSUME TypeOK, LockInv, [Next]_vars
               PROVE  LockInv'
    OBVIOUS
  <2> USE DEF TypeOK, LockInv, Inside, Section, Goto, Steps
  <2>1. CASE Tick
    BY <2>1 DEF Tick
  <2>2. ASSUME NEW w \in Writers, Begin(w) PROVE LockInv'
    BY <2>2 DEF Begin, dirs
  <2>3. ASSUME NEW w \in Writers, Acquire(w) PROVE LockInv'
    BY <2>3 DEF Acquire, MkdirSucceeds
  <2>4. ASSUME NEW w \in Writers, Inspect(w) PROVE LockInv'
    BY <2>4 DEF Inspect, dirs
  <2>5. ASSUME NEW w \in Writers, Reclaim(w) PROVE LockInv'
    BY <2>5 DEF Reclaim
  <2>6. ASSUME NEW w \in Writers, Expire(w) PROVE LockInv'
    BY <2>6 DEF Expire, dirs
  <2>7. ASSUME NEW w \in Writers, Load(w) PROVE LockInv'
    BY <2>7 DEF Load, dirs
  <2>8. ASSUME NEW w \in Writers, Compare(w) PROVE LockInv'
    BY <2>8 DEF Compare, dirs
  <2>9. ASSUME NEW w \in Writers, Evict(w) PROVE LockInv'
    BY <2>9 DEF Evict, dirs
  <2>10. ASSUME NEW w \in Writers, Rename(w) PROVE LockInv'
    BY <2>10 DEF Rename, dirs
  <2>11. ASSUME NEW w \in Writers, Release(w) PROVE LockInv'
    BY <2>11 DEF Release
  <2>12. ASSUME NEW w \in Writers, SaveThrows(w) PROVE LockInv'
    BY <2>12 DEF SaveThrows, dirs
  <2>13. ASSUME NEW w \in Writers, Crash(w) PROVE LockInv'
    BY <2>13 DEF Crash, dirs
  <2>14. CASE UNCHANGED vars
    BY <2>14 DEF vars, locals, dirs
  <2> QED
    BY <2>1, <2>2, <2>3, <2>4, <2>5, <2>6, <2>7, <2>8, <2>9, <2>10, <2>11, <2>12, <2>13,
       <2>14
    DEF Next, Step
<1> QED
  BY <1>1, <1>2, TypeCorrect, PTL DEF Spec

(* Two calls are never inside together before a directory is stolen.         *)
THEOREM MutualExclusionHolds == Spec => []MutualExclusion
<1>1. LockInv => MutualExclusion
  BY DEF LockInv, MutualExclusion
<1> QED
  BY <1>1, LockOwnership, PTL

(* Where no process dies and every holder is done within LOCK_TIMEOUT_MS, no *)
(* directory is ever stolen: breaking the lock takes a fault.                *)
PromptInv ==
  /\ "reclaimed" \notin breaches
  /\ \A w \in Writers : pc[w] \notin {"reclaim", "dead"}
  /\ lock # Free => Inside(lock) /\ lockAge <= LockTimeout

THEOREM PromptHoldersKeepTheLock ==
  ASSUME "crash" \notin Faults, "slow" \notin Faults
  PROVE  Spec => []("reclaimed" \notin breaches)
<1>1. Init => PromptInv
  BY DEF Init, PromptInv
<1>2. TypeOK /\ LockInv /\ PromptInv /\ [Next]_vars => PromptInv'
  <2> SUFFICES ASSUME TypeOK, LockInv, PromptInv, [Next]_vars
               PROVE  PromptInv'
    OBVIOUS
  <2> USE DEF TypeOK, LockInv, PromptInv, Inside, Section, Goto, Steps
  <2>1. CASE Tick
    BY <2>1 DEF Tick, HolderIsPrompt, Capped
  <2>2. ASSUME NEW w \in Writers, Begin(w) PROVE PromptInv'
    BY <2>2 DEF Begin, dirs
  <2>3. ASSUME NEW w \in Writers, Acquire(w) PROVE PromptInv'
    BY <2>3 DEF Acquire, MkdirSucceeds
  <2>4. ASSUME NEW w \in Writers, Inspect(w) PROVE PromptInv'
    BY <2>4 DEF Inspect, Stale, MkdirSucceeds
  <2>5. ASSUME NEW w \in Writers, Reclaim(w) PROVE PromptInv'
    BY <2>5 DEF Reclaim
  <2>6. ASSUME NEW w \in Writers, Expire(w) PROVE PromptInv'
    BY <2>6 DEF Expire, dirs
  <2>7. ASSUME NEW w \in Writers, Load(w) PROVE PromptInv'
    BY <2>7 DEF Load, dirs
  <2>8. ASSUME NEW w \in Writers, Compare(w) PROVE PromptInv'
    BY <2>8 DEF Compare, dirs
  <2>9. ASSUME NEW w \in Writers, Evict(w) PROVE PromptInv'
    BY <2>9 DEF Evict, dirs
  <2>10. ASSUME NEW w \in Writers, Rename(w) PROVE PromptInv'
    BY <2>10 DEF Rename, dirs
  <2>11. ASSUME NEW w \in Writers, Release(w) PROVE PromptInv'
    BY <2>11 DEF Release
  <2>12. ASSUME NEW w \in Writers, SaveThrows(w) PROVE PromptInv'
    BY <2>12 DEF SaveThrows, dirs
  <2>13. ASSUME NEW w \in Writers PROVE ~Crash(w)
    BY DEF Crash
  <2>14. CASE UNCHANGED vars
    BY <2>14 DEF vars, locals, dirs
  <2> QED
    BY <2>1, <2>2, <2>3, <2>4, <2>5, <2>6, <2>7, <2>8, <2>9, <2>10, <2>11, <2>12, <2>13,
       <2>14
    DEF Next, Step
<1>3. PromptInv => "reclaimed" \notin breaches
  BY DEF PromptInv
<1> QED
  BY <1>1, <1>2, <1>3, TypeCorrect, LockOwnership, PTL DEF Spec
-----------------------------------------------------------------------------
(* What a call inside the section is about to do to the list, while the lock *)
(* was never broken: the update of the list as it is now, at the time on the *)
(* clock, and the removal of what that update pushes out.                    *)
Fresh(w) ==
  /\ clock \in Times
  /\ view[w] = Sliced(Upserted(index, w, target[w], clock))

ViewInv ==
  Trusted =>
    \A w \in Writers :
      /\ pc[w] \in {"save", "write"} => Fresh(w)
      /\ pc[w] = "write" => victims[w] \subseteq Overflow(index, w, target[w], clock)

(* With an unbroken lock only one call is inside, so no list changes under   *)
(* another call's feet.                                                      *)
LEMMA OneInside ==
  ASSUME TypeOK, LockInv, Trusted, NEW v \in Writers, NEW w \in Writers,
         pc[v] \in Section, pc[w] \in Section
  PROVE  v = w
  BY DEF LockInv, Trusted, Inside, Section

(* A broken lock stays broken.                                               *)
LEMMA BreachesGrow ==
  ASSUME [Next]_vars
  PROVE  breaches \subseteq breaches'
  BY DEF Next, Step, vars, Tick, Begin, Acquire, Inspect, Reclaim, Expire, Load, Compare,
     Evict, Rename, SaveThrows, Release, Crash

(* The call inside the section saves what it would save if it were alone.    *)
THEOREM ViewIsFresh == Spec => []ViewInv
<1>1. Init => ViewInv
  BY DEF Init, ViewInv
<1>2. TypeOK /\ LockInv /\ ViewInv /\ [Next]_vars => ViewInv'
  <2> SUFFICES ASSUME TypeOK, LockInv, ViewInv, [Next]_vars, Trusted'
               PROVE  ViewInv'
    BY DEF ViewInv
  <2>0. Trusted
    BY BreachesGrow DEF Trusted
  <2> USE <2>0 DEF TypeOK, ViewInv, Fresh, Goto, Steps, Section, disk
  <2>1. CASE Tick
    BY <2>1 DEF Tick
  <2>2. ASSUME NEW w \in Writers, Begin(w) PROVE ViewInv'
    BY <2>2 DEF Begin
  <2>3. ASSUME NEW w \in Writers, Acquire(w) PROVE ViewInv'
    BY <2>3 DEF Acquire
  <2>4. ASSUME NEW w \in Writers, Inspect(w) PROVE ViewInv'
    BY <2>4 DEF Inspect
  <2>5. ASSUME NEW w \in Writers, Reclaim(w) PROVE ViewInv'
    BY <2>5 DEF Reclaim
  <2>6. ASSUME NEW w \in Writers, Expire(w) PROVE ViewInv'
    BY <2>6 DEF Expire, Trusted
  <2>7. ASSUME NEW w \in Writers, Load(w) PROVE ViewInv'
    <3>1. \A v \in Writers : pc[v] \in Section => v = w
      BY <2>7, OneInside DEF Load
    <3> QED
      BY <2>7, <3>1 DEF Load
  <2>8. ASSUME NEW w \in Writers, Compare(w) PROVE ViewInv'
    <3>1. Victims(w) \subseteq Overflow(index, w, target[w], clock)
      BY <2>8 DEF Compare, Victims, Overflow
    <3> QED
      BY <2>8, <3>1 DEF Compare
  <2>9. ASSUME NEW w \in Writers, Evict(w) PROVE ViewInv'
    BY <2>9 DEF Evict
  <2>10. ASSUME NEW w \in Writers, Rename(w) PROVE ViewInv'
    <3>1. \A v \in Writers : pc[v] \in Section => v = w
      BY <2>10, OneInside DEF Rename
    <3> QED
      BY <2>10, <3>1 DEF Rename
  <2>11. ASSUME NEW w \in Writers, Release(w) PROVE ViewInv'
    BY <2>11 DEF Release
  <2>12. ASSUME NEW w \in Writers, SaveThrows(w) PROVE ViewInv'
    BY <2>12 DEF SaveThrows
  <2>13. ASSUME NEW w \in Writers, Crash(w) PROVE ViewInv'
    BY <2>13 DEF Crash
  <2>14. CASE UNCHANGED vars
    BY <2>14 DEF vars, locals, Trusted
  <2> QED
    BY <2>1, <2>2, <2>3, <2>4, <2>5, <2>6, <2>7, <2>8, <2>9, <2>10, <2>11, <2>12, <2>13,
       <2>14
    DEF Next, Step
<1> QED
  BY <1>1, <1>2, TypeCorrect, LockOwnership, PTL DEF Spec
-----------------------------------------------------------------------------
(* With an unbroken lock, the only step that changes the list is the rename, *)
(* and it changes it by one update.                                          *)
LEMMA ListChangesByUpdate ==
  ASSUME TypeOK, ViewInv, [Next]_vars, Trusted'
  PROVE  \/ UNCHANGED index
         \/ \E w \in Writers, j \in Jobs, t \in Times :
              /\ index' = Sliced(Upserted(index, w, j, t))
              /\ UNCHANGED artifacts
<1>1. Trusted
  BY BreachesGrow DEF Trusted
<1>2. ASSUME NEW w \in Writers, Rename(w)
      PROVE  \E j \in Jobs, t \in Times :
               index' = Sliced(Upserted(index, w, j, t)) /\ UNCHANGED artifacts
  BY <1>1, <1>2 DEF Rename, Goto, ViewInv, Fresh, TypeOK
<1>3. ASSUME NEW w \in Writers, Step(w) \/ Crash(w), ~Rename(w)
      PROVE  UNCHANGED index
  BY <1>3 DEF Step, Begin, Acquire, Inspect, Reclaim, Expire, Load, Compare, Evict,
     SaveThrows, Release, Crash, disk
<1>4. ASSUME Tick \/ UNCHANGED vars PROVE UNCHANGED index
  BY <1>4 DEF Tick, vars, disk
<1> QED
  BY <1>2, <1>3, <1>4 DEF Next

(* With an unbroken lock, result files appear when a writer puts them there  *)
(* and go when the update in progress pushes their job out.                  *)
LEMMA ArtifactsChangeOneByOne ==
  ASSUME TypeOK, ViewInv, [Next]_vars, Trusted', artifacts' # artifacts
  PROVE  /\ UNCHANGED index
         /\ \/ \E j \in Jobs : artifacts' = artifacts \cup {j}
            \/ \E j \in Jobs : /\ artifacts' = artifacts \ {j}
                             /\ \E w \in Writers, k \in Jobs, t \in Times :
                                  j \in Overflow(index, w, k, t)
<1>1. Trusted
  BY BreachesGrow DEF Trusted
<1>2. ASSUME NEW w \in Writers, Begin(w)
      PROVE  UNCHANGED index /\ \E j \in Jobs : artifacts' = artifacts \cup {j}
  BY <1>2 DEF Begin, TypeOK
<1>3. ASSUME NEW w \in Writers, Evict(w)
      PROVE  /\ UNCHANGED index
             /\ \E j \in Jobs : /\ artifacts' = artifacts \ {j}
                               /\ \E k \in Jobs, t \in Times : j \in Overflow(index, w, k, t)
  <2>1. PICK j \in victims[w] : artifacts' = artifacts \ {j}
    BY <1>3 DEF Evict
  <2>2. /\ target[w] \in Jobs /\ clock \in Times /\ j \in Jobs
        /\ j \in Overflow(index, w, target[w], clock)
    BY <1>1, <1>3, <2>1 DEF Evict, ViewInv, Fresh, TypeOK
  <2> QED
    BY <1>3, <2>1, <2>2 DEF Evict
<1>4. ASSUME NEW w \in Writers, Step(w) \/ Crash(w), ~Begin(w), ~Evict(w)
      PROVE  UNCHANGED artifacts
  BY <1>4 DEF Step, Acquire, Inspect, Reclaim, Expire, Load, Compare, Rename, SaveThrows,
     Release, Crash, disk
<1>5. ASSUME Tick \/ UNCHANGED vars PROVE UNCHANGED artifacts
  BY <1>5 DEF Tick, vars, disk
<1> QED
  BY <1>2, <1>3, <1>4, <1>5 DEF Next

(* The registry speaks of the same lists.                                    *)
LEMMA SameLists ==
  /\ Registry!Empty = Empty
  /\ \A idx, w, j, t : Registry!Sliced(Registry!Upserted(idx, w, j, t))
                         = Sliced(Upserted(idx, w, j, t))
  /\ \A idx, w, j, t : Registry!Overflow(idx, w, j, t) = Overflow(idx, w, j, t)
<1>1. Registry!Empty = Empty
  BY DEF Empty, Registry!Empty
<1>2. ASSUME NEW idx, NEW w, NEW j, NEW t
      PROVE  Registry!Upserted(idx, w, j, t) = Upserted(idx, w, j, t)
  BY Zenon DEF Upserted, Merged, Registry!Upserted, Registry!Merged
<1>3. ASSUME NEW idx
      PROVE  Registry!Sliced(idx) = Sliced(idx)
  BY Zenon DEF Sliced, Kept, NewerThan, Cardinality, Registry!Sliced, Registry!Kept,
               Registry!NewerThan, Registry!Cardinality
<1>4. ASSUME NEW idx, NEW w, NEW j, NEW t
      PROVE  Registry!Overflow(idx, w, j, t) = Overflow(idx, w, j, t)
  BY <1>2, <1>3, Zenon DEF Overflow, Registry!Overflow
<1> QED
  BY <1>1, <1>2, <1>3, <1>4, Zenon

(* state.json under withStateLock is an atomic registry until the lock is    *)
(* broken.                                                                   *)
THEOREM StoreImplementsRegistry == Spec => ImplementsRegistry
<1>1. Init => Registry!Init
  BY SameLists DEF Init, Registry!Init, Trusted
<1>2. TypeOK /\ ViewInv /\ [Next]_vars => [Registry!Next]_(Registry!registryVars)
  <2> SUFFICES ASSUME TypeOK, ViewInv, [Next]_vars
               PROVE  [Registry!Next]_(Registry!registryVars)
    OBVIOUS
  <2>1. CASE ~Trusted'
    BY <2>1 DEF Registry!Next, Registry!Break
  <2>2. CASE Trusted'
    <3>1. Trusted = TRUE /\ Trusted' = TRUE
      BY <2>2, BreachesGrow DEF Trusted
    <3>2. ASSUME artifacts' # artifacts
          PROVE  \E j \in Jobs : Registry!WriteResults(j) \/ Registry!Drop(j)
      BY <2>2, <3>1, <3>2, ArtifactsChangeOneByOne, SameLists
      DEF Registry!WriteResults, Registry!Drop
    <3>3. ASSUME index' # index
          PROVE  \E w \in Writers, j \in Jobs, t \in Times : Registry!Commit(w, j, t)
      BY <2>2, <3>1, <3>3, ListChangesByUpdate, SameLists DEF Registry!Commit
    <3>4. CASE artifacts' = artifacts /\ index' = index
      BY <3>1, <3>4 DEF Registry!registryVars
    <3> QED
      BY <3>1, <3>2, <3>3, <3>4 DEF Registry!Next
  <2> QED
    BY <2>1, <2>2
<1> QED
  BY <1>1, <1>2, TypeCorrect, ViewIsFresh, PTL DEF Spec, ImplementsRegistry, Registry!Spec

(* Until the lock is broken no update is lost from a job that stays listed.  *)
THEOREM NoUpdateIsLost == Spec => NoUpdateLost
<1> DEFINE Kept1 == Trusted' => \A j \in DOMAIN index \cap DOMAIN index' :
                                 index[j].updates \subseteq index'[j].updates
<1>1. TypeOK /\ ViewInv /\ [Next]_vars => Kept1
  BY ListChangesByUpdate, UpsertKeepsUpdates DEF TypeOK
<1>2. TypeOK /\ ViewInv /\ [Next]_vars => [Kept1]_vars
  BY <1>1
<1> QED
  BY <1>2, TypeCorrect, ViewIsFresh, PTL DEF Spec, NoUpdateLost
=============================================================================
