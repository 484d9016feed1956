------------------------- MODULE SandboxSlotsProofs -------------------------
(***************************************************************************)
(* A pool keeps its cap while nothing lapsed, for any number of runs, any   *)
(* limit, any number of passes and any faults.                             *)
(***************************************************************************)
EXTENDS SandboxSlots, FiniteSetTheorems, FunctionTheorems, TLAPS

(* A step only ever adds to the lapses.                                      *)
LEMMA LapsesGrow == Next => lapses \subseteq lapses'
  BY DEF Next, Run, CountContainers, CountReservations, Claim, Poll, Spawn, EndPass, GiveUp,
         Crash, Appear, Stop, Release, Expire, Goto, Lapse

(* Every variable keeps its type: in particular what a run counted is never  *)
(* more than the containers there can be, whatever docker answered.          *)
THEOREM TypeCorrect == Spec => []TypeOK
<1>1. Init => TypeOK
  BY SlotsAssumption, FS_CardinalityType DEF Init, TypeOK, Steps
<1>2. TypeOK /\ [Next]_vars => TypeOK'
  <2>. SUFFICES ASSUME TypeOK, [Next]_vars PROVE TypeOK'
    OBVIOUS
  <2>. USE DEF TypeOK, Steps, Goto, Lapse
  <2>1. CASE UNCHANGED vars
    BY <2>1 DEF vars
  <2>2. ASSUME NEW r \in Runs, CountContainers(r) PROVE TypeOK'
    <3>1. /\ Shown \subseteq Runs /\ IsFiniteSet(Runs)
      BY SlotsAssumption DEF Shown
    <3>2. /\ Cardinality(Shown) \in Nat /\ Cardinality(Runs) \in Nat
          /\ Cardinality(Shown) <= Cardinality(Runs)
      BY <3>1, FS_Subset, FS_CardinalityType
    <3>3. /\ pc' \in [Runs -> Steps]
          /\ UNCHANGED <<pass, reservations, container>>
      BY <2>2 DEF CountContainers
    <3>4. up' \in [Runs -> 0 .. Cardinality(Runs)]
      BY <2>2, <3>2 DEF CountContainers
    <3>5. lapses' \subseteq {"overlap"} \cup Faults
      BY <2>2 DEF CountContainers
    <3>. QED BY <3>3, <3>4, <3>5
  <2>3. ASSUME NEW r \in Runs, CountReservations(r) PROVE TypeOK'
    BY <2>3 DEF CountReservations
  <2>4. ASSUME NEW r \in Runs, Claim(r) PROVE TypeOK'
    <3>1. /\ pc' \in [Runs -> Steps]
          /\ UNCHANGED <<pass, up, container>>
          /\ reservations' \subseteq Runs \X (1 .. Passes)
      BY <2>4 DEF Claim
    <3>2. lapses' \subseteq {"overlap"} \cup Faults
      BY <2>4 DEF Claim
    <3>. QED BY <3>1, <3>2
  <2>5. ASSUME NEW r \in Runs, Poll(r) \/ GiveUp(r) \/ Crash(r) PROVE TypeOK'
    BY <2>5 DEF Poll, GiveUp, Crash
  <2>6. ASSUME NEW r \in Runs, Spawn(r) \/ Stop(r) PROVE TypeOK'
    BY <2>6 DEF Spawn, Stop
  <2>7. ASSUME NEW r \in Runs, Appear(r) PROVE TypeOK'
    BY <2>7 DEF Appear
  <2>8. ASSUME NEW r \in Runs, EndPass(r) PROVE TypeOK'
    BY <2>8, SlotsAssumption DEF EndPass
  <2>9. ASSUME NEW r \in Runs, NEW p \in 1 .. Passes, Release(r, p) \/ Expire(r, p) PROVE TypeOK'
    BY <2>9 DEF Release, Expire
  <2>. QED BY <2>1, <2>2, <2>3, <2>4, <2>5, <2>6, <2>7, <2>8, <2>9 DEF Next, Run
<1>. QED BY <1>1, <1>2, PTL DEF Spec
-----------------------------------------------------------------------------
(* The runs that hold a slot: they claimed it, or have a container.          *)
Holders == {r \in Runs : pc[r] = "claimed" \/ container[r] # "none"}

NoContainerYet ==
  \A r \in Runs :
    pc[r] \in {"look", "counted", "claim", "full", "claimed"} => container[r] = "none"

HiddenIsReserved == \A r \in Runs : Needed(r, pass[r]) => <<r, pass[r]>> \in reservations

CountStands == \A r \in Runs : pc[r] = "counted" => Cardinality(Shown) <= up[r]

HoldersFit ==
  /\ Cardinality(Holders) <= Limit
  /\ \A r \in Runs : pc[r] = "claim" => Cardinality(Holders) < Limit

SlotInv ==
  /\ NoContainerYet
  /\ lapses = {} => HiddenIsReserved /\ CountStands /\ HoldersFit

LEMMA SetsAreFinite ==
  /\ IsFiniteSet(Runs)
  /\ Shown \subseteq Holders /\ Holders \subseteq Runs
  /\ IsFiniteSet(Shown) /\ Cardinality(Shown) \in Nat
  /\ IsFiniteSet(Holders) /\ Cardinality(Holders) \in Nat
<1>1. Shown \subseteq Holders /\ Holders \subseteq Runs /\ Shown \subseteq Runs
  BY DEF Shown, Holders
<1>. QED BY <1>1, SlotsAssumption, FS_Subset, FS_CardinalityType

(* Nobody holds a slot that neither docker nor a reservation accounts for.   *)
LEMMA HoldersAreCounted ==
  ASSUME TypeOK, HiddenIsReserved
  PROVE  /\ Cardinality(reservations) \in Nat
         /\ Cardinality(Holders) <= Cardinality(Shown) + Cardinality(reservations)
<1>. DEFINE Hidden == Holders \ Shown
            file == [r \in Hidden |-> <<r, pass[r]>>]
<1>1. IsFiniteSet(reservations)
  <2>1. IsFiniteSet(1 .. Passes)
    BY SlotsAssumption, FS_Interval
  <2>2. IsFiniteSet(Runs \X (1 .. Passes))
    BY <2>1, SlotsAssumption, FS_Product
  <2>. QED BY <2>2, FS_Subset DEF TypeOK
<1>2. file \in Injection(Hidden, reservations)
  <2>1. \A r \in Hidden : r \in Runs /\ Needed(r, pass[r])
    BY DEF Holders, Shown, Needed, TypeOK
  <2>2. file \in [Hidden -> reservations]
    BY <2>1 DEF HiddenIsReserved
  <2>3. \A a, b \in Hidden : file[a] = file[b] => a = b
    OBVIOUS
  <2>. QED BY <2>2, <2>3, Fun_IsInj
<1>3. IsFiniteSet(Hidden) /\ Cardinality(Hidden) <= Cardinality(reservations)
  BY <1>1, <1>2, FS_Injection DEF ExistsInjection
<1>4. Cardinality(Holders) <= Cardinality(Shown) + Cardinality(Hidden)
  <2>1. Holders = Shown \cup Hidden /\ Shown \cap Hidden = {}
    BY SetsAreFinite
  <2>. HIDE DEF Hidden
  <2>2. Cardinality(Shown \cup Hidden)
          = Cardinality(Shown) + Cardinality(Hidden) - Cardinality(Shown \cap Hidden)
    BY <1>3, SetsAreFinite, FS_Union
  <2>3. Cardinality(Shown \cap Hidden) = 0
    BY <2>1, FS_EmptySet
  <2>. QED BY <1>3, <2>1, <2>2, <2>3, SetsAreFinite, FS_CardinalityType
<1>. HIDE DEF Hidden
<1>. QED BY <1>1, <1>3, <1>4, SetsAreFinite, FS_CardinalityType
-----------------------------------------------------------------------------
(* A set of runs that loses members does not grow in number.                 *)
LEMMA FewerRuns ==
  ASSUME NEW A, NEW B, A \subseteq B, B \subseteq Runs
  PROVE  /\ Cardinality(A) \in Nat /\ Cardinality(B) \in Nat
         /\ Cardinality(A) <= Cardinality(B)
<1>1. IsFiniteSet(B)
  BY SlotsAssumption, FS_Subset
<1>. QED BY <1>1, FS_Subset, FS_CardinalityType

(* What every step but Claim, CountReservations, Appear and CountContainers  *)
(* does: no new holder, no new container in docker's list, nobody closer to  *)
(* a claim, and no reservation lost that was still needed.                   *)
LEMMA QuietStep ==
  ASSUME TypeOK, SlotInv, lapses \subseteq lapses',
         Holders' \subseteq Holders, Shown' \subseteq Shown,
         \A r \in Runs : pc'[r] \in {"counted", "claim"} => pc'[r] = pc[r] /\ up'[r] = up[r],
         NoContainerYet', lapses' = {} => HiddenIsReserved'
  PROVE  SlotInv'
<1>. SUFFICES ASSUME lapses' = {} PROVE CountStands' /\ HoldersFit'
  BY DEF SlotInv
<1>1. HiddenIsReserved /\ CountStands /\ HoldersFit
  BY DEF SlotInv
<1>2. /\ Cardinality(Holders) \in Nat /\ Cardinality(Holders') \in Nat
      /\ Cardinality(Holders') <= Cardinality(Holders)
  BY SetsAreFinite, FewerRuns
<1>3. /\ Cardinality(Shown) \in Nat /\ Cardinality(Shown') \in Nat
      /\ Cardinality(Shown') <= Cardinality(Shown)
  BY FewerRuns DEF Shown
<1>4. CountStands'
  <2>. SUFFICES ASSUME NEW r \in Runs, pc'[r] = "counted" PROVE Cardinality(Shown') <= up'[r]
    BY DEF CountStands
  <2>1. pc[r] = "counted" /\ up'[r] = up[r] /\ up[r] \in Int
    BY DEF TypeOK
  <2>. QED BY <1>1, <1>3, <2>1 DEF CountStands
<1>5. HoldersFit'
  BY <1>1, <1>2, SlotsAssumption DEF HoldersFit
<1>. QED BY <1>4, <1>5
LEMMA SlotInvStep == TypeOK /\ SlotInv /\ [Next]_vars => SlotInv'
<1>. SUFFICES ASSUME TypeOK, SlotInv, [Next]_vars PROVE SlotInv'
  OBVIOUS
<1>. USE DEF Goto
<1>1. NoContainerYet
  BY DEF SlotInv
<1>2. lapses = {} => HiddenIsReserved /\ CountStands /\ HoldersFit
  BY DEF SlotInv
<1>3. CASE UNCHANGED vars
  BY <1>3 DEF vars, SlotInv, NoContainerYet, HiddenIsReserved, CountStands, HoldersFit,
             Needed, Shown, Holders
<1>4. ASSUME NEW r \in Runs, CountContainers(r) PROVE SlotInv'
  <2>1. NoContainerYet' /\ lapses \subseteq lapses'
    BY <1>1, <1>4 DEF CountContainers, NoContainerYet, Lapse, TypeOK
  <2>2. Holders' = Holders /\ Shown' = Shown
    BY <1>4 DEF CountContainers, Holders, Shown, TypeOK
  <2>. SUFFICES ASSUME lapses' = {} PROVE HiddenIsReserved' /\ CountStands' /\ HoldersFit'
    BY <2>1 DEF SlotInv
  <2>3. HiddenIsReserved /\ CountStands /\ HoldersFit
    BY <1>2, <2>1
  <2>4. HiddenIsReserved'
    BY <1>4, <2>3 DEF CountContainers, HiddenIsReserved, Needed, TypeOK
  <2>5. Cardinality(Shown) \in Nat /\ (Shown = {} => Cardinality(Shown) = 0)
    BY SetsAreFinite, FS_EmptySet
  <2>6. Cardinality(Shown) <= up'[r] /\ \A q \in Runs \ {r} : up'[q] = up[q] /\ pc'[q] = pc[q]
    BY <1>4, <2>5 DEF CountContainers, Lapse, TypeOK
  <2>7. CountStands'
    BY <2>2, <2>3, <2>6 DEF CountStands
  <2>8. HoldersFit'
    BY <1>4, <2>2, <2>3 DEF HoldersFit, CountContainers, TypeOK
  <2>. QED BY <2>4, <2>7, <2>8
<1>5. ASSUME NEW r \in Runs, CountReservations(r) PROVE SlotInv'
  <2>1. NoContainerYet' /\ lapses' = lapses
    BY <1>1, <1>5 DEF CountReservations, NoContainerYet, TypeOK
  <2>2. Holders' = Holders /\ Shown' = Shown
    BY <1>5 DEF CountReservations, Holders, Shown, TypeOK
  <2>. SUFFICES ASSUME lapses' = {} PROVE HiddenIsReserved' /\ CountStands' /\ HoldersFit'
    BY <2>1 DEF SlotInv
  <2>3. HiddenIsReserved /\ CountStands /\ HoldersFit
    BY <1>2, <2>1
  <2>4. HiddenIsReserved'
    BY <1>5, <2>3 DEF CountReservations, HiddenIsReserved, Needed, TypeOK
  <2>5. CountStands'
    BY <1>5, <2>2, <2>3 DEF CountReservations, CountStands, TypeOK
  <2>6. pc'[r] = "claim" => Cardinality(Holders) < Limit
    <3>1. Cardinality(Shown) <= up[r]
      BY <1>5, <2>3 DEF CountReservations, CountStands
    <3>2. Cardinality(Holders) <= Cardinality(Shown) + Cardinality(reservations)
      BY <2>3, HoldersAreCounted
    <3>3. pc'[r] = "claim" => up[r] + Cardinality(reservations) < Limit
      BY <1>5 DEF CountReservations, Taken, TypeOK
    <3>4. /\ Cardinality(Shown) \in Int /\ Cardinality(Holders) \in Int
          /\ Cardinality(reservations) \in Int /\ up[r] \in Int /\ Limit \in Int
      BY <2>3, SetsAreFinite, HoldersAreCounted, SlotsAssumption DEF TypeOK
    <3>. QED BY <3>1, <3>2, <3>3, <3>4
  <2>7. HoldersFit'
    BY <1>5, <2>2, <2>3, <2>6 DEF HoldersFit, CountReservations, TypeOK
  <2>. QED BY <2>4, <2>5, <2>7
<1>6. ASSUME NEW r \in Runs, Claim(r) PROVE SlotInv'
  <2>1. NoContainerYet'
    BY <1>1, <1>6 DEF Claim, NoContainerYet, TypeOK
  <2>. SUFFICES ASSUME lapses' = {} PROVE HiddenIsReserved' /\ CountStands' /\ HoldersFit'
    BY <2>1 DEF SlotInv
  <2>2. /\ lapses = {} /\ ~Overlapped(r, {"counted", "claim"})
        /\ reservations' = reservations \cup {<<r, pass[r]>>}
    BY <1>6 DEF Claim, Lapse
  <2>3. HiddenIsReserved /\ CountStands /\ HoldersFit
    BY <1>2, <2>2
  <2>4. HiddenIsReserved'
    BY <1>6, <2>2, <2>3 DEF Claim, HiddenIsReserved, Needed, TypeOK
  <2>5. \A q \in Runs : pc'[q] \notin {"counted", "claim"}
    BY <1>6, <2>2 DEF Claim, Overlapped, TypeOK
  <2>6. Holders' = Holders \cup {r}
    BY <1>6 DEF Claim, Holders, TypeOK
  <2>7. Cardinality(Holders) < Limit
    BY <1>6, <2>3 DEF Claim, HoldersFit
  <2>8. Cardinality(Holders') <= Limit
    <3>1. Cardinality(Holders \cup {r})
            = IF r \in Holders THEN Cardinality(Holders) ELSE Cardinality(Holders) + 1
      BY SetsAreFinite, FS_AddElement
    <3>. QED BY <2>6, <2>7, <3>1, SetsAreFinite, SlotsAssumption
  <2>. QED BY <2>4, <2>5, <2>8 DEF CountStands, HoldersFit
<1>7. ASSUME NEW r \in Runs, Appear(r) PROVE SlotInv'
  <2>1. NoContainerYet' /\ lapses \subseteq lapses'
    BY <1>1, <1>7 DEF Appear, NoContainerYet, Lapse, TypeOK
  <2>. SUFFICES ASSUME lapses' = {} PROVE HiddenIsReserved' /\ CountStands' /\ HoldersFit'
    BY <2>1 DEF SlotInv
  <2>2. ~Overlapped(r, {"counted"})
    BY <1>7 DEF Appear, Lapse
  <2>3. HiddenIsReserved /\ CountStands /\ HoldersFit
    BY <1>2, <2>1
  <2>4. HiddenIsReserved'
    BY <1>7, <2>3 DEF Appear, HiddenIsReserved, Needed, TypeOK
  <2>5. \A q \in Runs : pc'[q] # "counted"
    BY <1>1, <1>7, <2>2 DEF Appear, Overlapped, NoContainerYet
  <2>6. Holders' = Holders /\ pc' = pc
    BY <1>7 DEF Appear, Holders, TypeOK
  <2>. QED BY <2>3, <2>4, <2>5, <2>6 DEF CountStands, HoldersFit
<1>8. ASSUME NEW r \in Runs, Poll(r) \/ GiveUp(r) \/ Crash(r) \/ Spawn(r) \/ Stop(r) \/ EndPass(r)
      PROVE  SlotInv'
  <2>. USE DEF Poll, GiveUp, Crash, Spawn, Stop, EndPass
  <2>1. NoContainerYet'
    BY <1>1, <1>8 DEF NoContainerYet, TypeOK
  <2>2. Holders' \subseteq Holders
    BY <1>1, <1>8 DEF Holders, NoContainerYet, TypeOK
  <2>3. Shown' \subseteq Shown
    BY <1>8 DEF Shown, TypeOK
  <2>4. lapses' = lapses
    BY <1>8
  <2>5. \A q \in Runs : pc'[q] \in {"counted", "claim"} => pc'[q] = pc[q] /\ up'[q] = up[q]
    BY <1>8 DEF TypeOK
  <2>6. HiddenIsReserved => HiddenIsReserved'
    BY <1>1, <1>8 DEF HiddenIsReserved, Needed, TypeOK
  <2>. QED BY <1>2, <2>1, <2>2, <2>3, <2>4, <2>5, <2>6, QuietStep
<1>9. ASSUME NEW r \in Runs, NEW p \in 1 .. Passes, Release(r, p) \/ Expire(r, p) PROVE SlotInv'
  <2>1. /\ UNCHANGED <<pc, pass, up, container>>
        /\ reservations' = reservations \ {<<r, p>>}
        /\ lapses' = IF Needed(r, p) THEN lapses \cup {"slow"} ELSE lapses
    BY <1>9 DEF Release, Expire, Lapse
  <2>2. NoContainerYet' /\ Holders' = Holders /\ Shown' = Shown
    BY <1>1, <2>1 DEF NoContainerYet, Holders, Shown
  <2>3. lapses' = {} => HiddenIsReserved'
    BY <1>2, <2>1 DEF HiddenIsReserved, Needed
  <2>. QED BY <2>1, <2>2, <2>3, QuietStep
<1>. QED BY <1>3, <1>4, <1>5, <1>6, <1>7, <1>8, <1>9 DEF Next, Run

(* The cap of CapKept, from the count that awaitSandboxSlot makes of the     *)
(* containers and of the reservations.                                       *)
THEOREM CapKeptHolds == Spec => []CapKept
<1>1. Init => SlotInv
  <2>. SUFFICES ASSUME Init PROVE SlotInv
    OBVIOUS
  <2>1. Holders = {}
    BY DEF Init, Holders
  <2>2. Cardinality(Holders) = 0
    BY <2>1, FS_EmptySet
  <2>. QED BY <2>2, SlotsAssumption
       DEF Init, SlotInv, NoContainerYet, HiddenIsReserved, Needed, CountStands, HoldersFit
<1>2. SlotInv => CapKept
  <2>. SUFFICES ASSUME SlotInv, lapses = {} PROVE Cardinality(Containers) <= Limit
    BY DEF CapKept
  <2>1. Cardinality(Holders) <= Limit
    BY DEF SlotInv, HoldersFit
  <2>2. Containers \subseteq Holders
    BY DEF Containers, Holders
  <2>. QED BY <2>1, <2>2, FewerRuns, SetsAreFinite, SlotsAssumption
<1>. QED BY <1>1, <1>2, SlotInvStep, TypeCorrect, PTL DEF Spec
=============================================================================
