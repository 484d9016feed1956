---------------------------- MODULE ChannelProofs ----------------------------
(***************************************************************************)
(* What holds of the ways in and out of a job, for any number of jobs,     *)
(* senders, followers, exchanges and requests: of the fleet channel, the   *)
(* control inbox and the sessions that jobs continue, and of the           *)
(* credential proxy and the git proxy of a run.                            *)
(***************************************************************************)
EXTENDS Parts, SequenceTheorems, TLAPS

(* A behaviour of the parts is one of each of them.                          *)
LEMMA FleetPart == Spec => Fleet!Spec
<1>1. Init => Fleet!Init
  BY DEF Init
<1>2. [Next]_vars => [Fleet!Next]_(Fleet!vars)
  BY DEF Next, vars, fleetVars, Fleet!vars, Fleet!logVars, Fleet!followerVars
<1>3. QED
  BY <1>1, <1>2, PTL DEF Spec, Fleet!Spec

LEMMA InboxPart == Spec => Inbox!Spec
<1>1. Init => Inbox!Init
  BY DEF Init
<1>2. [Next]_vars => [Inbox!Next]_(Inbox!vars)
  BY DEF Next, vars, inboxVars, Inbox!vars
<1>3. QED
  BY <1>1, <1>2, PTL DEF Spec, Inbox!Spec

LEMMA SessionsPart == Spec => Continued!Spec
<1>1. Init => Continued!Init
  BY DEF Init
<1>2. [Next]_vars => [Continued!Next]_(Continued!vars)
  BY DEF Next, vars, sessionVars, Continued!vars
<1>3. QED
  BY <1>1, <1>2, PTL DEF Spec, Continued!Spec
-----------------------------------------------------------------------------
LEMMA LinesOf ==
  ASSUME NEW S, NEW s \in Seq(S)
  PROVE  Fleet!Range(s) \subseteq S /\ Fleet!ToSet(s) = Fleet!Range(s)
BY DEF Fleet!Range, Fleet!ToSet

(* The lines from a cursor on, when a line is appended.                      *)
LEMMA AppendedAhead ==
  ASSUME NEW S, NEW s \in Seq(S), NEW e \in S, NEW c \in 0 .. Len(s)
  PROVE  Fleet!Range(SubSeq(Append(s, e), c + 1, Len(s) + 1)) = Fleet!Range(SubSeq(s, c + 1, Len(s))) \cup {e}
<1> DEFINE old == SubSeq(s, c + 1, Len(s))
           new == SubSeq(Append(s, e), c + 1, Len(s) + 1)
<1>1. Len(old) = Len(s) - c /\ \A i \in 1 .. Len(s) - c : old[i] = s[c + i]
  OBVIOUS
<1>2. Len(new) = Len(s) - c + 1 /\ \A i \in 1 .. Len(s) - c + 1 : new[i] = Append(s, e)[c + i]
  OBVIOUS
<1>3. DOMAIN old = 1 .. Len(s) - c /\ DOMAIN new = 1 .. Len(s) - c + 1
  BY <1>1, <1>2
<1>4. \A i \in 1 .. Len(s) - c : new[i] = old[i]
  BY <1>1, <1>2
<1>5. new[Len(s) - c + 1] = e
  BY <1>2
<1> HIDE DEF old, new
<1>6. Fleet!Range(new) = Fleet!Range(old) \cup {e}
  BY <1>3, <1>4, <1>5 DEF Fleet!Range
<1>7. QED
  BY <1>6 DEF old, new
-----------------------------------------------------------------------------
(* A process that records has something to record.                           *)
HasEvent == \A p \in Fleet!Processes : writer[p] # "idle" => writing[p] \in Fleet!Events

(* A follower has printed what it has seen since it was armed once, and what *)
(* its sweep still has to record it has not seen.                            *)
Told(f) ==
  /\ follower[f] = "off" => since[f] = {} /\ seen[f] = {}
  /\ follower[f] \in {"off", "poll", "sweep"} => orphans[f] = {}
  /\ orphans[f] \cap seen[f] = {}
  /\ follower[f] = "jump" => writing[f] \in orphans[f]
  /\ \A e \in Fleet!Events : shown[f][e] <= (IF e \in seen[f] THEN 1 ELSE 0)

(* An undisturbed follower has before it what it has not seen, and the line  *)
(* that its sweep appended is before it until its cursor jumps.              *)
Ahead(f) ==
  f \notin disturbed /\ follower[f] # "off" =>
    /\ cursor[f] <= Len(log)
    /\ since[f] \subseteq seen[f] \cup Fleet!AheadOf(f)
    /\ follower[f] = "jump" /\ writer[f] = "idle" => writing[f] \in Fleet!AheadOf(f)

FleetInv == Fleet!TypeOK /\ HasEvent /\ \A f \in Followers : Told(f) /\ Ahead(f)

LEMMA FleetInit == Fleet!Init => FleetInv
<1> SUFFICES ASSUME Fleet!Init PROVE FleetInv
  OBVIOUS
<1>1. Fleet!TypeOK
  BY DEF Fleet!Init, Fleet!TypeOK
<1>2. HasEvent /\ \A f \in Followers : Told(f) /\ Ahead(f)
  BY DEF Fleet!Init, HasEvent, Told, Ahead
<1>3. QED
  BY <1>1, <1>2 DEF FleetInv

LEMMA EventsHere ==
  /\ \A r \in Runs, s \in Ended \cup {"orphaned"} : Fleet!Event(r, s) \in Fleet!Events
  /\ \A f : Fleet!OrphanEvents(f) \subseteq Fleet!Events
BY DEF Fleet!Event, Fleet!Events, Fleet!OrphanEvents

(* A run ends: it is no follower.                                            *)
LEMMA RunKeeps ==
  ASSUME FleetConstants, FleetInv, NEW r \in Runs, Fleet!RunEnds(r) \/ Fleet!RunIsKilled(r)
  PROVE  FleetInv'
<1>1. CASE Fleet!RunEnds(r)
  <2>1. PICK s \in Ended : status' = [status EXCEPT ![r] = s] /\ Fleet!Begins(r, Fleet!Event(r, s))
    BY <1>1 DEF Fleet!RunEnds
  <2>2. /\ writing' = [writing EXCEPT ![r] = Fleet!Event(r, s)]
        /\ writer' = [writer EXCEPT ![r] = "size"]
        /\ UNCHANGED <<log, copy, follower, cursor, seen, orphans, shown, since, disturbed>>
    BY <1>1, <2>1 DEF Fleet!RunEnds, Fleet!Begins, Fleet!followerVars
  <2>3. Fleet!Event(r, s) \in Fleet!Events
    BY EventsHere
  <2>4. \A f \in Followers : writing'[f] = writing[f] /\ writer'[f] = writer[f]
    BY <2>2 DEF FleetConstants, FleetInv, Fleet!TypeOK, Fleet!Processes
  <2>5. Fleet!TypeOK'
    BY <2>1, <2>2, <2>3 DEF FleetInv, Fleet!TypeOK, Fleet!Processes
  <2>6. HasEvent'
    BY <2>2, <2>3 DEF FleetInv, HasEvent, Fleet!TypeOK
  <2>7. ASSUME NEW f \in Followers PROVE Told(f)' /\ Ahead(f)'
    BY <2>2, <2>4 DEF FleetInv, Told, Ahead, Fleet!AheadOf
  <2>8. QED
    BY <2>5, <2>6, <2>7 DEF FleetInv
<1>2. CASE Fleet!RunIsKilled(r)
  BY <1>2 DEF Fleet!RunIsKilled, Fleet!logVars, Fleet!followerVars, FleetInv, Fleet!TypeOK,
       HasEvent, Told, Ahead, Fleet!AheadOf
<1>3. QED
  BY <1>1, <1>2

LEMMA LookKeeps == ASSUME FleetConstants, FleetInv, NEW p \in Fleet!Processes, Fleet!LookAtSize(p) PROVE FleetInv'
<1>1. copy' \in [Fleet!Processes -> Seq(Fleet!Events)]
  <2> DEFINE from == IF Len(log) > KeepLines THEN Len(log) - KeepLines + 1 ELSE 1
  <2>1. log \in Seq(Fleet!Events) /\ Len(log) \in Nat
    BY DEF FleetInv, Fleet!TypeOK
  <2>2. from \in 1 .. Len(log) + 1
    BY <2>1 DEF FleetConstants
  <2> HIDE DEF from
  <2>3. SubSeq(log, from, Len(log)) \in Seq(Fleet!Events)
    BY <2>1, <2>2
  <2>4. QED
    BY <2>3 DEF Fleet!LookAtSize, FleetInv, Fleet!TypeOK, from
<1>2. writer' \in [Fleet!Processes -> {"idle", "size", "rotate", "append"}]
  BY DEF Fleet!LookAtSize, FleetInv, Fleet!TypeOK
<1>3. UNCHANGED <<log, writing, status, follower, cursor, seen, orphans, shown, since, disturbed>>
  BY DEF Fleet!LookAtSize, Fleet!followerVars
<1>4. \A x \in Fleet!Processes : (writer'[x] = "idle") <=> (writer[x] = "idle")
  BY DEF Fleet!LookAtSize, FleetInv, Fleet!TypeOK
<1>5. Fleet!TypeOK'
  BY <1>1, <1>2, <1>3 DEF FleetInv, Fleet!TypeOK
<1>6. HasEvent'
  BY <1>3, <1>4 DEF FleetInv, HasEvent
<1>7. ASSUME NEW f \in Followers PROVE Told(f)' /\ Ahead(f)'
  BY <1>3, <1>4 DEF FleetInv, Told, Ahead, Fleet!AheadOf, Fleet!Processes
<1>8. QED
  BY <1>5, <1>6, <1>7 DEF FleetInv

(* A rotation upsets the place of everyone who follows.                      *)
LEMMA RotateKeeps == ASSUME FleetInv, NEW p \in Fleet!Processes, Fleet!Rotate(p) PROVE FleetInv'
<1>1. UNCHANGED <<writing, status, follower, cursor, seen, orphans, shown, since>>
  BY DEF Fleet!Rotate, Fleet!followerVars
<1>2. Fleet!TypeOK'
  <2>1. copy[p] \in Seq(Fleet!Events) /\ <<>> \in Seq(Fleet!Events)
    BY DEF FleetInv, Fleet!TypeOK
  <2>2. log' \in Seq(Fleet!Events) /\ copy' \in [Fleet!Processes -> Seq(Fleet!Events)]
    BY <2>1 DEF Fleet!Rotate, FleetInv, Fleet!TypeOK
  <2>3. disturbed' \subseteq Followers
    BY DEF Fleet!Rotate, FleetInv, Fleet!TypeOK, Fleet!Armed
  <2>4. writer' \in [Fleet!Processes -> {"idle", "size", "rotate", "append"}]
    BY DEF Fleet!Rotate, FleetInv, Fleet!TypeOK
  <2>5. QED
    BY <1>1, <2>2, <2>3, <2>4 DEF FleetInv, Fleet!TypeOK
<1>3. HasEvent'
  BY <1>1 DEF Fleet!Rotate, FleetInv, HasEvent, Fleet!TypeOK
<1>4. ASSUME NEW f \in Followers PROVE Told(f)' /\ Ahead(f)'
  BY <1>1 DEF Fleet!Rotate, Fleet!Armed, FleetInv, Told, Ahead
<1>5. QED
  BY <1>2, <1>3, <1>4 DEF FleetInv

LEMMA AppendKeeps == ASSUME FleetInv, NEW p \in Fleet!Processes, Fleet!AppendLine(p) PROVE FleetInv'
<1> DEFINE e == writing[p]
<1>1. e \in Fleet!Events
  BY DEF Fleet!AppendLine, FleetInv, HasEvent
<1>2. UNCHANGED <<writing, copy, status, follower, cursor, seen, orphans, shown, disturbed>>
  BY DEF Fleet!AppendLine, Fleet!followerVars
<1>3. /\ log' = Append(log, e) /\ log \in Seq(Fleet!Events) /\ log' \in Seq(Fleet!Events)
      /\ Len(log') = Len(log) + 1
  BY <1>1 DEF Fleet!AppendLine, FleetInv, Fleet!TypeOK
<1>4. writer' = [writer EXCEPT ![p] = "idle"] /\ writer' \in [Fleet!Processes -> {"idle", "size", "rotate", "append"}]
  BY DEF Fleet!AppendLine, FleetInv, Fleet!TypeOK
<1>5. \A f \in Followers : since'[f] = IF follower[f] # "off" THEN since[f] \cup {e} ELSE since[f]
  BY DEF Fleet!AppendLine, Fleet!Armed
<1>6. since' \in [Followers -> SUBSET Fleet!Events]
  BY <1>1 DEF Fleet!AppendLine, FleetInv, Fleet!TypeOK
<1>7. Fleet!TypeOK'
  BY <1>2, <1>3, <1>4, <1>6 DEF FleetInv, Fleet!TypeOK
<1>8. HasEvent'
  BY <1>2, <1>4 DEF FleetInv, HasEvent, Fleet!TypeOK
<1>9. ASSUME NEW f \in Followers PROVE Told(f)'
  BY <1>2, <1>5 DEF FleetInv, Told
<1>10. ASSUME NEW f \in Followers, f \notin disturbed, follower[f] # "off" PROVE Ahead(f)'
  <2>1. cursor[f] \in 0 .. Len(log)
    BY <1>3, <1>10 DEF FleetInv, Fleet!TypeOK, Ahead
  <2>2. Fleet!AheadOf(f)' = Fleet!AheadOf(f) \cup {e}
    BY <1>1, <1>2, <1>3, <2>1, AppendedAhead DEF Fleet!AheadOf
  <2>3. writer[f] = "idle" \/ f = p \/ writer'[f] # "idle"
    BY <1>4 DEF FleetInv, Fleet!TypeOK, Fleet!Processes
  <2>4. cursor'[f] <= Len(log')
    BY <1>2, <1>3, <2>1
  <2>5. since'[f] \subseteq seen'[f] \cup Fleet!AheadOf(f)'
    <3>1. since[f] \subseteq seen[f] \cup Fleet!AheadOf(f)
      BY <1>10 DEF FleetInv, Ahead
    <3>2. QED
      BY <1>2, <1>5, <1>10, <2>2, <3>1
  <2>6. follower'[f] = "jump" /\ writer'[f] = "idle" => writing'[f] \in Fleet!AheadOf(f)'
    <3>1. CASE f = p
      BY <1>2, <2>2, <3>1
    <3>2. CASE f # p
      BY <1>2, <1>10, <2>2, <2>3, <3>2 DEF FleetInv, Ahead
    <3>3. QED
      BY <3>1, <3>2
  <2>7. QED
    BY <2>4, <2>5, <2>6 DEF Ahead
<1>11. ASSUME NEW f \in Followers PROVE Ahead(f)'
  BY <1>2, <1>10 DEF Ahead
<1>12. QED
  BY <1>7, <1>8, <1>9, <1>11 DEF FleetInv

(* A step of one follower, with its place in the log: the others do not      *)
(* notice it.                                                                *)
LEMMA OneFollower ==
  ASSUME FleetInv, NEW f \in Followers, Fleet!TypeOK', HasEvent', Told(f)', Ahead(f)',
         UNCHANGED <<log, since>>, disturbed' \in {disturbed, disturbed \cup {f}},
         \A g \in Followers \ {f} :
           /\ follower'[g] = follower[g] /\ cursor'[g] = cursor[g] /\ seen'[g] = seen[g]
           /\ orphans'[g] = orphans[g] /\ shown'[g] = shown[g]
           /\ writing'[g] = writing[g] /\ writer'[g] = writer[g]
  PROVE  FleetInv'
<1>1. ASSUME NEW g \in Followers \ {f} PROVE Told(g)' /\ Ahead(g)'
  <2>1. Fleet!AheadOf(g)' = Fleet!AheadOf(g)
    BY <1>1 DEF Fleet!AheadOf
  <2>2. Told(g)'
    BY <1>1 DEF FleetInv, Told
  <2>3. Ahead(g)'
    BY <1>1, <2>1 DEF FleetInv, Ahead
  <2>4. QED
    BY <2>2, <2>3
<1>2. QED
  BY <1>1 DEF FleetInv

LEMMA NothingAhead ==
  ASSUME Fleet!TypeOK, NEW c, c = Len(log) PROVE SubSeq(log, c + 1, Len(log)) = <<>>
BY DEF Fleet!TypeOK

LEMMA ArmKeeps == ASSUME FleetInv, NEW f \in Followers, Fleet!Arm(f) PROVE FleetInv'
<1>1. /\ UNCHANGED <<log, writing, writer, copy, status, orphans, shown, since, disturbed>>
      /\ follower[f] = "off" /\ follower' = [follower EXCEPT ![f] = "poll"]
      /\ seen' = [seen EXCEPT ![f] = Fleet!Range(log)]
      /\ cursor' = [cursor EXCEPT ![f] = Len(log)]
  BY DEF Fleet!Arm, Fleet!logVars
<1>2. log \in Seq(Fleet!Events) /\ Len(log) \in Nat /\ Fleet!Range(log) \subseteq Fleet!Events
  BY LinesOf DEF FleetInv, Fleet!TypeOK
<1>3. Fleet!TypeOK'
  BY <1>1, <1>2 DEF FleetInv, Fleet!TypeOK
<1>4. HasEvent'
  BY <1>1 DEF FleetInv, HasEvent
<1>5. /\ follower'[f] = "poll" /\ seen'[f] = Fleet!Range(log) /\ cursor'[f] = Len(log)
  BY <1>1 DEF FleetInv, Fleet!TypeOK
<1>6. since[f] = {} /\ orphans[f] = {}
  BY <1>1 DEF FleetInv, Told
<1>7. \A e \in Fleet!Events : shown[f][e] <= (IF e \in seen'[f] THEN 1 ELSE 0)
  <2> SUFFICES ASSUME NEW e \in Fleet!Events PROVE shown[f][e] <= (IF e \in seen'[f] THEN 1 ELSE 0)
    OBVIOUS
  <2>1. shown[f][e] \in Nat /\ shown[f][e] <= 0
    BY <1>1 DEF FleetInv, Told, Fleet!TypeOK
  <2>2. QED
    BY <2>1
<1>8. Told(f)'
  BY <1>1, <1>5, <1>6, <1>7 DEF Told
<1>9. Ahead(f)'
  BY <1>1, <1>2, <1>5, <1>6 DEF Ahead
<1>10. QED
  BY <1>1, <1>3, <1>4, <1>8, <1>9, OneFollower DEF FleetInv, Fleet!TypeOK

(* What is printed: the events of fresh, none of which was seen.             *)
LEMMA PrintsOnce ==
  ASSUME FleetInv, NEW f \in Followers, NEW fresh \in SUBSET Fleet!Events, fresh \cap seen[f] = {},
         Fleet!Prints(f, fresh)
  PROVE  /\ seen' \in [Followers -> SUBSET Fleet!Events] /\ shown' \in [Followers -> [Fleet!Events -> Nat]]
         /\ seen'[f] = seen[f] \cup fresh
         /\ \A e \in Fleet!Events : shown'[f][e] <= (IF e \in seen'[f] THEN 1 ELSE 0)
         /\ \A g \in Followers \ {f} : seen'[g] = seen[g] /\ shown'[g] = shown[g]
<1> DEFINE new == [e \in Fleet!Events |-> IF e \in fresh THEN shown[f][e] + 1 ELSE shown[f][e]]
<1>1. seen \in [Followers -> SUBSET Fleet!Events] /\ shown \in [Followers -> [Fleet!Events -> Nat]]
  BY DEF FleetInv, Fleet!TypeOK
<1>2. new \in [Fleet!Events -> Nat]
  BY <1>1
<1>3. seen' = [seen EXCEPT ![f] = seen[f] \cup fresh] /\ shown' = [shown EXCEPT ![f] = new]
  BY <1>1 DEF Fleet!Prints
<1>4. seen'[f] = seen[f] \cup fresh /\ shown'[f] = new
  BY <1>1, <1>3
<1>5. ASSUME NEW e \in Fleet!Events PROVE new[e] <= (IF e \in seen[f] \cup fresh THEN 1 ELSE 0)
  <2>1. shown[f][e] <= (IF e \in seen[f] THEN 1 ELSE 0) /\ shown[f][e] \in Nat
    BY <1>1 DEF FleetInv, Told
  <2>2. QED
    BY <2>1
<1> HIDE DEF new
<1>6. QED
  BY <1>1, <1>2, <1>3, <1>4, <1>5

LEMMA PollKeeps == ASSUME FleetInv, NEW f \in Followers, Fleet!Poll(f) PROVE FleetInv'
<1> DEFINE unread == Fleet!Unread(cursor[f])
           fresh  == Fleet!Fresh(f, unread)
<1>1. log \in Seq(Fleet!Events) /\ Len(log) \in Nat /\ cursor[f] \in Nat
  BY DEF FleetInv, Fleet!TypeOK
<1>2. unread \in Seq(Fleet!Events)
  BY <1>1 DEF Fleet!Unread
<1>3. fresh \in SUBSET Fleet!Events /\ fresh \cap seen[f] = {} /\ Fleet!ToSet(unread) = Fleet!Range(unread)
  BY <1>2, LinesOf DEF Fleet!Fresh
<1>4. Fleet!Prints(f, fresh)
  BY DEF Fleet!Poll
<1>5. /\ UNCHANGED <<log, writing, writer, copy, status, orphans, since, disturbed>>
      /\ cursor' = [cursor EXCEPT ![f] = Len(log)]
      /\ follower[f] = "poll"
      /\ follower' \in {follower, [follower EXCEPT ![f] = "sweep"]}
  BY DEF Fleet!Poll, Fleet!logVars
<1> HIDE DEF unread, fresh
<1>6. /\ seen' \in [Followers -> SUBSET Fleet!Events] /\ shown' \in [Followers -> [Fleet!Events -> Nat]]
      /\ seen'[f] = seen[f] \cup fresh
      /\ \A e \in Fleet!Events : shown'[f][e] <= (IF e \in seen'[f] THEN 1 ELSE 0)
      /\ \A g \in Followers \ {f} : seen'[g] = seen[g] /\ shown'[g] = shown[g]
  BY <1>3, <1>4, PrintsOnce
<1>7. cursor' \in [Followers -> Nat] /\ cursor'[f] = Len(log)
  BY <1>1, <1>5 DEF FleetInv, Fleet!TypeOK
<1>8. /\ follower' \in [Followers -> {"off", "poll", "sweep", "record", "jump"}]
      /\ follower'[f] \in {"poll", "sweep"}
      /\ \A g \in Followers \ {f} : follower'[g] = follower[g] /\ cursor'[g] = cursor[g]
  BY <1>5 DEF FleetInv, Fleet!TypeOK
<1>9. Fleet!TypeOK' /\ HasEvent'
  BY <1>5, <1>6, <1>7, <1>8 DEF FleetInv, Fleet!TypeOK, HasEvent
<1>10. orphans[f] = {}
  BY <1>5 DEF FleetInv, Told
<1>11. Told(f)'
  BY <1>5, <1>6, <1>8, <1>10 DEF Told
<1>12. f \notin disturbed => since[f] \subseteq seen'[f]
  <2> SUFFICES ASSUME f \notin disturbed PROVE since[f] \subseteq seen[f] \cup fresh
    BY <1>6
  <2>1. cursor[f] <= Len(log) /\ since[f] \subseteq seen[f] \cup Fleet!AheadOf(f)
    BY <1>5 DEF FleetInv, Ahead
  <2>2. unread = SubSeq(log, cursor[f] + 1, Len(log))
    BY <1>1, <2>1 DEF unread, Fleet!Unread
  <2>3. Fleet!AheadOf(f) \subseteq seen[f] \cup fresh
    BY <1>3, <2>2 DEF Fleet!AheadOf, fresh, Fleet!Fresh
  <2>4. QED
    BY <2>1, <2>3
<1>13. Ahead(f)'
  BY <1>1, <1>5, <1>7, <1>8, <1>12 DEF Ahead
<1>14. QED
  BY <1>5, <1>6, <1>8, <1>9, <1>11, <1>13, OneFollower

LEMMA SweepKeeps == ASSUME FleetInv, NEW f \in Followers, Fleet!Sweep(f) PROVE FleetInv'
<1>1. /\ UNCHANGED <<log, writing, writer, copy, status, cursor, seen, shown, since, disturbed>>
      /\ follower[f] = "sweep"
      /\ orphans' = [orphans EXCEPT ![f] = Fleet!OrphanEvents(f)]
      /\ follower' = [follower EXCEPT ![f] = IF Fleet!OrphanEvents(f) = {} THEN "poll" ELSE "record"]
  BY DEF Fleet!Sweep, Fleet!logVars
<1>2. Fleet!OrphanEvents(f) \subseteq Fleet!Events /\ Fleet!OrphanEvents(f) \cap seen[f] = {}
  BY EventsHere DEF Fleet!OrphanEvents
<1>3. Fleet!TypeOK' /\ HasEvent'
  BY <1>1, <1>2 DEF FleetInv, Fleet!TypeOK, HasEvent
<1>4. orphans'[f] = Fleet!OrphanEvents(f) /\ follower'[f] = IF Fleet!OrphanEvents(f) = {} THEN "poll" ELSE "record"
  BY <1>1 DEF FleetInv, Fleet!TypeOK
<1>5. Told(f)'
  BY <1>1, <1>2, <1>4 DEF FleetInv, Told
<1>6. Ahead(f)'
  BY <1>1, <1>4 DEF FleetInv, Ahead, Fleet!AheadOf
<1>7. QED
  BY <1>1, <1>3, <1>5, <1>6, OneFollower DEF FleetInv, Fleet!TypeOK

LEMMA RecordKeeps == ASSUME FleetInv, NEW f \in Followers, Fleet!RecordOrphan(f) PROVE FleetInv'
<1>1. PICK e \in orphans[f] : Fleet!Begins(f, e)
  BY DEF Fleet!RecordOrphan
<1>2. /\ UNCHANGED <<log, copy, status, cursor, seen, orphans, shown, since, disturbed>>
      /\ follower[f] = "record" /\ follower' = [follower EXCEPT ![f] = "jump"]
      /\ writing' = [writing EXCEPT ![f] = e] /\ writer' = [writer EXCEPT ![f] = "size"]
  BY <1>1 DEF Fleet!RecordOrphan, Fleet!Begins
<1>3. e \in Fleet!Events
  BY DEF FleetInv, Fleet!TypeOK
<1>4. Fleet!TypeOK'
  BY <1>2, <1>3 DEF FleetInv, Fleet!TypeOK, Fleet!Processes
<1>5. HasEvent'
  BY <1>2, <1>3 DEF FleetInv, Fleet!TypeOK, HasEvent
<1>6. writing'[f] = e /\ writer'[f] = "size" /\ follower'[f] = "jump"
  BY <1>2 DEF FleetInv, Fleet!TypeOK, Fleet!Processes
<1>7. Told(f)'
  BY <1>2, <1>6 DEF FleetInv, Told
<1>8. Ahead(f)'
  BY <1>2, <1>6 DEF FleetInv, Ahead, Fleet!AheadOf
<1>9. QED
  BY <1>2, <1>4, <1>5, <1>7, <1>8, OneFollower DEF FleetInv, Fleet!TypeOK, Fleet!Processes

(* The cursor of an undisturbed follower jumps past its own line only.       *)
LEMMA JumpKeeps == ASSUME FleetInv, NEW f \in Followers, Fleet!JumpPast(f) PROVE FleetInv'
<1> DEFINE e == writing[f]
<1>1. /\ UNCHANGED <<log, writing, writer, copy, status, since>>
      /\ follower[f] = "jump" /\ writer[f] = "idle"
      /\ Fleet!Prints(f, {e})
      /\ orphans' = [orphans EXCEPT ![f] = orphans[f] \ {e}]
      /\ follower' = [follower EXCEPT ![f] = IF orphans[f] = {e} THEN "poll" ELSE "record"]
      /\ cursor' = [cursor EXCEPT ![f] = Len(log)]
      /\ disturbed' = IF Len(log) # cursor[f] + 1 THEN disturbed \cup {f} ELSE disturbed
  BY DEF Fleet!JumpPast, Fleet!logVars, FleetInv, Fleet!TypeOK
<1>2. e \in orphans[f] /\ orphans[f] \cap seen[f] = {} /\ orphans[f] \subseteq Fleet!Events
  BY <1>1 DEF FleetInv, Told, Fleet!TypeOK
<1>3. log \in Seq(Fleet!Events) /\ Len(log) \in Nat /\ cursor[f] \in Nat
  BY DEF FleetInv, Fleet!TypeOK
<1>4. /\ seen' \in [Followers -> SUBSET Fleet!Events] /\ shown' \in [Followers -> [Fleet!Events -> Nat]]
      /\ seen'[f] = seen[f] \cup {e}
      /\ \A x \in Fleet!Events : shown'[f][x] <= (IF x \in seen'[f] THEN 1 ELSE 0)
      /\ \A g \in Followers \ {f} : seen'[g] = seen[g] /\ shown'[g] = shown[g]
  <2>1. {e} \in SUBSET Fleet!Events /\ {e} \cap seen[f] = {}
    BY <1>2
  <2> HIDE DEF e
  <2>2. QED
    BY <1>1, <2>1, PrintsOnce
<1>5. /\ cursor' \in [Followers -> Nat] /\ cursor'[f] = Len(log)
      /\ orphans' \in [Followers -> SUBSET Fleet!Events] /\ orphans'[f] = orphans[f] \ {e}
      /\ follower' \in [Followers -> {"off", "poll", "sweep", "record", "jump"}]
      /\ follower'[f] = IF orphans[f] = {e} THEN "poll" ELSE "record"
      /\ disturbed' \subseteq Followers
      /\ \A g \in Followers \ {f} :
           follower'[g] = follower[g] /\ cursor'[g] = cursor[g] /\ orphans'[g] = orphans[g]
  BY <1>1, <1>2, <1>3 DEF FleetInv, Fleet!TypeOK
<1>6. Fleet!TypeOK' /\ HasEvent'
  BY <1>1, <1>4, <1>5 DEF FleetInv, Fleet!TypeOK, HasEvent
<1>7. Told(f)'
  BY <1>1, <1>2, <1>4, <1>5 DEF Told
<1>8. f \notin disturbed' => since[f] \subseteq seen'[f]
  <2> SUFFICES ASSUME f \notin disturbed' PROVE since[f] \subseteq seen[f] \cup {e}
    BY <1>4
  <2>1. f \notin disturbed /\ Len(log) = cursor[f] + 1
    BY <1>1
  <2>2. since[f] \subseteq seen[f] \cup Fleet!AheadOf(f) /\ e \in Fleet!AheadOf(f)
    BY <1>1, <2>1 DEF FleetInv, Ahead
  <2> DEFINE s == SubSeq(log, cursor[f] + 1, Len(log))
  <2>3. DOMAIN s = {1}
    <3>1. DOMAIN s = 1 .. 1
      BY <1>3, <2>1
    <3>2. QED
      BY <3>1
  <2> HIDE DEF s
  <2>4. Fleet!Range(s) = {s[1]}
    BY <2>3 DEF Fleet!Range
  <2>5. Fleet!AheadOf(f) = {e}
    BY <2>2, <2>4 DEF Fleet!AheadOf, s
  <2>6. QED
    BY <2>2, <2>5
<1>9. Ahead(f)'
  BY <1>1, <1>3, <1>5, <1>8 DEF Ahead
<1>10. QED
  BY <1>1, <1>4, <1>5, <1>6, <1>7, <1>9, OneFollower

LEMMA FleetStep == FleetConstants /\ FleetInv /\ [Fleet!Next]_(Fleet!vars) => FleetInv'
<1> SUFFICES ASSUME FleetConstants, FleetInv, [Fleet!Next]_(Fleet!vars) PROVE FleetInv'
  OBVIOUS
<1>1. CASE UNCHANGED Fleet!vars
  BY <1>1 DEF Fleet!vars, Fleet!logVars, Fleet!followerVars, FleetInv, Fleet!TypeOK, HasEvent,
       Told, Ahead, Fleet!AheadOf
<1>2. QED
  BY <1>1, RunKeeps, LookKeeps, RotateKeeps, AppendKeeps, ArmKeeps, PollKeeps, SweepKeeps,
     RecordKeeps, JumpKeeps DEF Fleet!Next, Fleet!Records, Fleet!Follows

LEMMA FleetInvariant == Spec => []FleetInv
BY PartsAssumption, FleetPart, FleetInit, FleetStep, PTL DEF Fleet!Spec

(* Whatever is rotated and however many followers record the same death, a   *)
(* follower prints no ending twice; and it skips none that was recorded      *)
(* since it was armed unless its place in the log was upset.                 *)
THEOREM ToldExactlyOnce == Spec => []ExactlyOnce
<1>1. FleetInv => Fleet!ShownOnce
  <2> SUFFICES ASSUME FleetInv, NEW f \in Followers, NEW e \in Fleet!Events PROVE shown[f][e] <= 1
    BY DEF Fleet!ShownOnce
  <2>1. shown[f][e] \in Nat /\ shown[f][e] <= (IF e \in seen[f] THEN 1 ELSE 0)
    BY DEF FleetInv, Fleet!TypeOK, Told
  <2>2. QED
    BY <2>1
<1>2. FleetInv => Fleet!NothingSkipped
  BY DEF FleetInv, Ahead, Fleet!NothingSkipped, Fleet!Misses, Fleet!Armed
<1>3. QED
  BY <1>1, <1>2, FleetInvariant, PTL DEF ExactlyOnce, Fleet!ExactlyOnce
-----------------------------------------------------------------------------
(* A sender has one line at most, and none before it has pushed.             *)
SaidOnce ==
  /\ \A m, n \in DOMAIN lines : lines[m] = lines[n] => m = n
  /\ \A s \in Senders, m \in DOMAIN lines :
       sender[s] \in {"look", "push", "refused"} => lines[m] # s

(* What was delivered is before the cursor, and what is before the cursor    *)
(* was delivered, or came at a time when it could not be.                    *)
Read ==
  /\ \A i \in DOMAIN delivered : \E m \in 1 .. inboxCursor : delivered[i] = lines[m]
  /\ \A m \in 1 .. inboxCursor :
       lines[m] \in lapsed \/ \E i \in DOMAIN delivered : delivered[i] = lines[m]
  /\ engine = "none" => \A m \in DOMAIN lines : lines[m] \in lapsed

InboxInv ==
  /\ Inbox!TypeOK /\ SaidOnce /\ Read /\ Inbox!DeliveredOnceInOrder
  /\ half => lines # <<>>

LEMMA InboxInit == Inbox!Init => InboxInv
<1> SUFFICES ASSUME Inbox!Init PROVE InboxInv
  OBVIOUS
<1>1. lines = <<>> /\ delivered = <<>> /\ inboxCursor = 0 /\ ~half
  BY DEF Inbox!Init
<1>2. DOMAIN lines = {} /\ DOMAIN delivered = {} /\ 1 .. inboxCursor = {} /\ Len(lines) = 0
  BY <1>1
<1>3. lines \in Seq(Senders) /\ delivered \in Seq(Senders)
  BY <1>1
<1>4. Inbox!TypeOK
  <2>1. half \in BOOLEAN /\ lapsed \subseteq Senders
    BY DEF Inbox!Init
  <2>2. inboxCursor \in 0 .. Len(lines)
    BY <1>1, <1>2
  <2>3. QED
    BY <1>3, <2>1, <2>2 DEF Inbox!Init, Inbox!TypeOK
<1>5. QED
  BY <1>1, <1>2, <1>4 DEF InboxInv, SaidOnce, Read, Inbox!DeliveredOnceInOrder

(* What the file and the engine know of the messages does not change.        *)
LEMMA InboxFrame ==
  ASSUME InboxInv, UNCHANGED <<lines, half, inboxCursor, delivered>>, Inbox!TypeOK',
         lapsed \subseteq lapsed', engine' = "none" => engine = "none",
         \A s \in Senders : sender'[s] \in {"look", "push", "refused"}
                              => sender[s] \in {"look", "push", "refused"}
  PROVE  InboxInv'
<1>1. SaidOnce'
  BY DEF InboxInv, SaidOnce
<1>2. Read'
  BY DEF InboxInv, Read
<1>3. Inbox!DeliveredOnceInOrder'
  BY DEF InboxInv, Inbox!DeliveredOnceInOrder
<1>4. QED
  BY <1>1, <1>2, <1>3 DEF InboxInv

(* The end of the line is written.                                           *)
LEMMA RestKeeps == ASSUME InboxInv, NEW s \in Senders, Inbox!RestOfLine(s) PROVE InboxInv'
<1>1. Inbox!TypeOK'
  BY DEF InboxInv, Inbox!TypeOK, Inbox!RestOfLine
<1>2. SaidOnce'
  BY DEF InboxInv, SaidOnce, Inbox!RestOfLine, Inbox!TypeOK
<1>3. Read'
  BY DEF InboxInv, Read, Inbox!RestOfLine
<1>4. Inbox!DeliveredOnceInOrder'
  BY DEF InboxInv, Inbox!DeliveredOnceInOrder, Inbox!RestOfLine
<1>5. ~half'
  BY DEF Inbox!RestOfLine
<1>6. QED
  BY <1>1, <1>2, <1>3, <1>4, <1>5 DEF InboxInv

(* Until the engine begins to watch every line has lapsed.                   *)
LEMMA WatchKeeps == ASSUME InboxInv, Inbox!Watch PROVE InboxInv'
<1>1. /\ UNCHANGED <<job, sender, lines, half, delivered, lapsed>>
      /\ engine = "none" /\ engine' = "watching" /\ inboxCursor' = Len(lines)
  BY DEF Inbox!Watch
<1>2. lines \in Seq(Senders) /\ inboxCursor \in 0 .. Len(lines) /\ DOMAIN lines = 1 .. Len(lines)
  BY DEF InboxInv, Inbox!TypeOK
<1>3. Inbox!TypeOK'
  BY <1>1, <1>2 DEF InboxInv, Inbox!TypeOK
<1>4. SaidOnce' /\ Inbox!DeliveredOnceInOrder'
  BY <1>1 DEF InboxInv, SaidOnce, Inbox!DeliveredOnceInOrder
<1>5. Read'
  BY <1>1, <1>2 DEF InboxInv, Read
<1>6. QED
  BY <1>1, <1>3, <1>4, <1>5 DEF InboxInv

(* One line is added, of a sender that has none.                             *)
LEMMA PushKeeps == ASSUME InboxInv, NEW s \in Senders, Inbox!Push(s) PROVE InboxInv'
<1>1. /\ lines \in Seq(Senders) /\ inboxCursor \in 0 .. Len(lines)
      /\ DOMAIN lines = 1 .. Len(lines)
  BY DEF InboxInv, Inbox!TypeOK
<1>2. /\ lines' = Append(lines, s) /\ sender[s] = "push"
      /\ UNCHANGED <<job, engine, inboxCursor, delivered>>
      /\ lapsed \subseteq lapsed' /\ lapsed' \subseteq Senders /\ half' \in BOOLEAN
      /\ engine # "watching" => s \in lapsed'
  BY DEF Inbox!Push, InboxInv, Inbox!TypeOK
<1>3. /\ lines' \in Seq(Senders) /\ Len(lines') = Len(lines) + 1
      /\ DOMAIN lines' = 1 .. Len(lines) + 1
      /\ lines'[Len(lines) + 1] = s /\ \A m \in 1 .. Len(lines) : lines'[m] = lines[m]
  BY <1>1, <1>2
<1>4. \A m \in 1 .. Len(lines) : lines[m] # s
  BY <1>1, <1>2 DEF InboxInv, SaidOnce
<1>5. Inbox!TypeOK'
  BY <1>1, <1>2, <1>3 DEF InboxInv, Inbox!TypeOK, Inbox!Push
<1>6. SaidOnce'
  <2>1. \A m, n \in DOMAIN lines' : lines'[m] = lines'[n] => m = n
    BY <1>1, <1>3, <1>4 DEF InboxInv, SaidOnce
  <2>2. \A t \in Senders : sender'[t] \in {"look", "push", "refused"}
          => t # s /\ sender[t] \in {"look", "push", "refused"}
    BY DEF Inbox!Push, InboxInv, Inbox!TypeOK
  <2>3. QED
    BY <1>1, <1>3, <2>1, <2>2 DEF InboxInv, SaidOnce
<1>7. Read'
  BY <1>1, <1>2, <1>3 DEF InboxInv, Read
<1>8. Inbox!DeliveredOnceInOrder'
  BY <1>1, <1>2, <1>3, <1>4 DEF InboxInv, Read, Inbox!DeliveredOnceInOrder
<1>9. lines' # <<>>
  BY <1>3
<1>10. QED
  BY <1>5, <1>6, <1>7, <1>8, <1>9 DEF InboxInv

(* The lines from the cursor to line e are delivered, in their order, and    *)
(* those behind it have lapsed.                                              *)
LEMMA LinesDelivered ==
  ASSUME InboxInv, NEW c \in Nat, NEW e \in Nat, c = inboxCursor, c <= e, e <= Len(lines),
         delivered' = delivered \o SubSeq(lines, c + 1, e), inboxCursor' = Len(lines),
         UNCHANGED <<job, sender, lines, half, engine>>, engine = "watching",
         lapsed \subseteq lapsed', lapsed' \subseteq Senders,
         \A m \in DOMAIN lines : m > e => lines[m] \in lapsed'
  PROVE  InboxInv'
<1> DEFINE d == Len(delivered)
<1>1. /\ lines \in Seq(Senders) /\ delivered \in Seq(Senders)
      /\ DOMAIN lines = 1 .. Len(lines) /\ DOMAIN delivered = 1 .. d /\ d \in Nat
      /\ Len(lines) \in Nat
  BY DEF InboxInv, Inbox!TypeOK
<1> DEFINE new == SubSeq(lines, c + 1, e)
<1>2. /\ new \in Seq(Senders) /\ Len(new) = e - c
      /\ \A i \in 1 .. e - c : new[i] = lines[c + i]
  BY <1>1
<1> HIDE DEF new
<1>3. /\ delivered' \in Seq(Senders) /\ Len(delivered') = d + (e - c)
      /\ DOMAIN delivered' = 1 .. d + (e - c)
      /\ \A i \in 1 .. d : delivered'[i] = delivered[i]
      /\ \A i \in 1 .. e - c : delivered'[d + i] = lines[c + i]
  <2>0. delivered' = delivered \o new
    BY DEF new
  <2>1. delivered' \in Seq(Senders) /\ Len(delivered') = d + (e - c)
    <3>1. delivered \o new \in Seq(Senders) /\ Len(delivered \o new) = Len(delivered) + Len(new)
      BY <1>1, <1>2, ConcatProperties
    <3>2. QED
      BY <1>2, <2>0, <3>1
  <2>2. \A i \in 1 .. d : delivered'[i] = delivered[i]
    BY <1>1, <1>2, <2>0
  <2>3. \A i \in 1 .. e - c : delivered'[d + i] = new[i]
    BY <1>1, <1>2, <2>0
  <2>4. QED
    BY <1>1, <1>2, <2>1, <2>2, <2>3
<1>4. Inbox!TypeOK'
  <2>1. lapsed' \subseteq Senders
    OBVIOUS
  <2>2. QED
    BY <1>1, <1>3, <2>1 DEF InboxInv, Inbox!TypeOK
<1>5. SaidOnce'
  BY DEF InboxInv, SaidOnce
(* Where a delivered message was in the file.                                *)
<1>6. \A i \in DOMAIN delivered' : \/ i \in 1 .. d /\ delivered'[i] = delivered[i]
                                   \/ i - d \in 1 .. e - c /\ delivered'[i] = lines[c + (i - d)]
  <2> SUFFICES ASSUME NEW i \in 1 .. d + (e - c), i \notin 1 .. d
               PROVE  i - d \in 1 .. e - c /\ delivered'[i] = lines[c + (i - d)]
    BY <1>3
  <2>1. i - d \in 1 .. e - c /\ d + (i - d) = i
    BY <1>1
  <2>2. QED
    BY <1>3, <2>1
<1>7. Read'
  <2>1. \A i \in DOMAIN delivered' : \E m \in 1 .. Len(lines) : delivered'[i] = lines[m]
    <3> SUFFICES ASSUME NEW i \in DOMAIN delivered'
                 PROVE  \E m \in 1 .. Len(lines) : delivered'[i] = lines[m]
      OBVIOUS
    <3>1. CASE i \in 1 .. d /\ delivered'[i] = delivered[i]
      BY <1>1, <3>1 DEF InboxInv, Read
    <3>2. CASE i - d \in 1 .. e - c /\ delivered'[i] = lines[c + (i - d)]
      <4>1. c + (i - d) \in 1 .. Len(lines)
        BY <1>1, <3>2
      <4>2. QED
        BY <3>2, <4>1
    <3>3. QED
      BY <1>6, <3>1, <3>2
  <2>2. ASSUME NEW m \in 1 .. Len(lines)
        PROVE  lines[m] \in lapsed' \/ \E i \in DOMAIN delivered' : delivered'[i] = lines[m]
    <3>1. CASE m \in 1 .. c
      <4>1. lines[m] \in lapsed \/ \E i \in DOMAIN delivered : delivered[i] = lines[m]
        BY <3>1 DEF InboxInv, Read
      <4>2. QED
        BY <1>1, <1>3, <4>1
    <3>2. CASE m \in c + 1 .. e
      <4>1. m - c \in 1 .. e - c /\ c + (m - c) = m
        BY <1>1, <3>2
      <4>2. delivered'[d + (m - c)] = lines[m] /\ d + (m - c) \in DOMAIN delivered'
        BY <1>1, <1>3, <4>1
      <4>3. QED
        BY <4>2
    <3>3. CASE m > e
      BY <1>1, <3>3
    <3>4. QED
      BY <1>1, <3>1, <3>2, <3>3
  <2>3. QED
    BY <2>1, <2>2 DEF Read
<1>8. Inbox!DeliveredOnceInOrder'
  <2> SUFFICES ASSUME NEW i \in DOMAIN delivered', NEW j \in DOMAIN delivered',
                      NEW m \in DOMAIN lines, NEW n \in DOMAIN lines,
                      i < j, delivered'[i] = lines[m], delivered'[j] = lines[n]
               PROVE  m < n
    BY DEF Inbox!DeliveredOnceInOrder
  <2>0. \A p, q \in 1 .. Len(lines) : lines[p] = lines[q] => p = q
    BY <1>1 DEF InboxInv, SaidOnce
  <2>1. CASE i \in 1 .. d /\ j \in 1 .. d
    BY <1>1, <1>3, <2>1 DEF InboxInv, Inbox!DeliveredOnceInOrder
  <2>2. CASE j \notin 1 .. d
    <3>1. j - d \in 1 .. e - c /\ delivered'[j] = lines[c + (j - d)]
      BY <1>6, <2>2
    <3>2. n = c + (j - d)
      <4>1. c + (j - d) \in 1 .. Len(lines)
        BY <1>1, <3>1
      <4>2. QED
        BY <1>1, <2>0, <3>1, <4>1
    <3>3. CASE i \in 1 .. d
      <4>1. PICK p \in 1 .. c : delivered[i] = lines[p]
        BY <1>1, <3>3 DEF InboxInv, Read
      <4>2. m = p
        BY <1>1, <1>3, <2>0, <3>3, <4>1
      <4>3. QED
        BY <1>1, <3>1, <3>2, <4>2
    <3>4. CASE i \notin 1 .. d
      <4>1. PICK k \in 1 .. e - c : k = i - d /\ delivered'[i] = lines[c + k]
        BY <1>6, <3>4
      <4>2. c + k \in 1 .. Len(lines)
        BY <1>1
      <4>3. m = c + k
        BY <1>1, <2>0, <4>1, <4>2
      <4>4. k < j - d
        BY <1>1, <1>3, <4>1
      <4>5. QED
        BY <1>1, <3>1, <3>2, <4>3, <4>4
    <3>5. QED
      BY <3>3, <3>4
  <2>3. QED
    BY <1>1, <1>3, <2>1, <2>2
<1>9. QED
  BY <1>4, <1>5, <1>7, <1>8 DEF InboxInv

(* The whole lines behind the cursor are delivered; the half one has lapsed. *)
LEMMA DrainKeeps == ASSUME InboxInv, Inbox!Drain PROVE InboxInv'
<1>1. lines \in Seq(Senders) /\ inboxCursor \in Nat /\ Len(lines) \in Nat
  BY DEF InboxInv, Inbox!TypeOK
<1>2. /\ inboxCursor' = Len(lines) /\ inboxCursor < Len(lines)
      /\ UNCHANGED <<job, sender, lines, half, engine>> /\ engine = "watching"
  BY DEF Inbox!Drain
<1>3. CASE half
  <2>1. /\ delivered' = delivered \o SubSeq(lines, inboxCursor + 1, Len(lines) - 1)
        /\ lapsed' = lapsed \cup {lines[Len(lines)]}
    BY <1>3 DEF Inbox!Drain, Inbox!Messages, Inbox!Last
  <2>2. Len(lines) - 1 \in Nat /\ inboxCursor <= Len(lines) - 1 /\ Len(lines) - 1 <= Len(lines)
    BY <1>1, <1>2
  <2>3. lines[Len(lines)] \in Senders
    BY <1>1, <1>2
  <2>4. lapsed \subseteq lapsed' /\ lapsed' \subseteq Senders
    BY <2>1, <2>3 DEF InboxInv, Inbox!TypeOK
  <2>5. \A m \in DOMAIN lines : m > Len(lines) - 1 => lines[m] \in lapsed'
    <3>1. \A m \in DOMAIN lines : m > Len(lines) - 1 => m = Len(lines)
      BY <1>1
    <3>2. QED
      BY <2>1, <3>1
  <2>6. QED
    BY <1>1, <1>2, <2>1, <2>2, <2>4, <2>5, LinesDelivered
<1>4. CASE ~half
  <2>1. delivered' = delivered \o SubSeq(lines, inboxCursor + 1, Len(lines)) /\ lapsed' = lapsed
    BY <1>4 DEF Inbox!Drain, Inbox!Messages
  <2>2. inboxCursor <= Len(lines) /\ Len(lines) <= Len(lines)
    BY <1>1, <1>2
  <2>3. lapsed \subseteq lapsed' /\ lapsed' \subseteq Senders
    BY <2>1 DEF InboxInv, Inbox!TypeOK
  <2>4. \A m \in DOMAIN lines : m > Len(lines) => lines[m] \in lapsed'
    BY <1>1
  <2>5. QED
    BY <1>1, <1>2, <2>1, <2>2, <2>3, <2>4, LinesDelivered
<1>5. QED
  BY <1>3, <1>4

LEMMA InboxStep == InboxInv /\ [Inbox!Next]_(Inbox!vars) => InboxInv'
<1> SUFFICES ASSUME InboxInv, [Inbox!Next]_(Inbox!vars) PROVE InboxInv'
  OBVIOUS
<1>1. CASE UNCHANGED Inbox!vars
  <2>1. Inbox!TypeOK'
    BY <1>1 DEF InboxInv, Inbox!TypeOK, Inbox!vars
  <2>2. QED
    BY <1>1, <2>1, InboxFrame DEF Inbox!vars
<1>2. CASE Inbox!StartRun \/ Inbox!RecordEnd
  <2>1. Inbox!TypeOK'
    BY <1>2 DEF InboxInv, Inbox!TypeOK, Inbox!StartRun, Inbox!RecordEnd
  <2>2. QED
    BY <1>2, <2>1, InboxFrame DEF Inbox!StartRun, Inbox!RecordEnd
<1>3. CASE Inbox!Stop
  <2>1. Range(SubSeq(lines, inboxCursor + 1, Len(lines))) \subseteq Senders
    <3>1. lines \in Seq(Senders) /\ inboxCursor \in 0 .. Len(lines)
      BY DEF InboxInv, Inbox!TypeOK
    <3>2. SubSeq(lines, inboxCursor + 1, Len(lines)) \in Seq(Senders)
      BY <3>1
    <3>3. QED
      BY <3>2, RangeOfSeq
  <2>2. Inbox!TypeOK'
    BY <1>3, <2>1 DEF InboxInv, Inbox!TypeOK, Inbox!Stop, Inbox!Range, Range
  <2>3. QED
    BY <1>3, <2>2, InboxFrame DEF Inbox!Stop
<1>4. ASSUME NEW s \in Senders, Inbox!LookAtJob(s) PROVE InboxInv'
  <2>1. Inbox!TypeOK'
    BY <1>4 DEF InboxInv, Inbox!TypeOK, Inbox!LookAtJob
  <2>2. QED
    BY <1>4, <2>1, InboxFrame DEF Inbox!LookAtJob, InboxInv, Inbox!TypeOK
<1>5. QED
  BY <1>1, <1>2, <1>3, <1>4, WatchKeeps, DrainKeeps, PushKeeps, RestKeeps DEF Inbox!Next, Inbox!Sends

LEMMA InboxInvariant == Spec => []InboxInv
BY InboxPart, InboxInit, InboxStep, PTL DEF Inbox!Spec

(* A message that is sent while the engine watches is delivered, once and in *)
(* the order of the file, whatever the polls of the engine fall between: for *)
(* any number of senders, with and without lines that are read half written. *)
THEOREM MessagesGetThrough == Spec => []MessagesArrive
<1>1. InboxInv => Inbox!NoMessageDropped
  <2> SUFFICES ASSUME InboxInv, NEW x \in Range(lines)
               PROVE  x \in Inbox!ToSet(delivered) \cup lapsed
                              \cup Range(SubSeq(lines, inboxCursor + 1, Len(lines)))
    BY DEF Inbox!NoMessageDropped, Inbox!Range, Range
  <2>1. /\ lines \in Seq(Senders) /\ inboxCursor \in 0 .. Len(lines)
        /\ DOMAIN lines = 1 .. Len(lines) /\ DOMAIN delivered = 1 .. Len(delivered)
    BY DEF InboxInv, Inbox!TypeOK
  <2>2. PICK m \in 1 .. Len(lines) : x = lines[m]
    BY <2>1 DEF Range
  <2>3. CASE m \in 1 .. inboxCursor
    BY <2>1, <2>2, <2>3 DEF InboxInv, Read, Inbox!ToSet
  <2>4. CASE m > inboxCursor
    <3> DEFINE rest == SubSeq(lines, inboxCursor + 1, Len(lines))
    <3>1. /\ DOMAIN rest = 1 .. Len(lines) - inboxCursor
          /\ \A i \in 1 .. Len(lines) - inboxCursor : rest[i] = lines[inboxCursor + i]
      BY <2>1
    <3>2. m - inboxCursor \in 1 .. Len(lines) - inboxCursor /\ inboxCursor + (m - inboxCursor) = m
      BY <2>1, <2>4
    <3> HIDE DEF rest
    <3>3. x \in Range(rest)
      BY <2>2, <3>1, <3>2 DEF Range
    <3>4. QED
      BY <3>3 DEF rest
  <2>5. QED
    BY <2>1, <2>3, <2>4
<1>2. InboxInv => MessagesArrive
  BY <1>1 DEF InboxInv, MessagesArrive, Inbox!MessagesArrive
<1>3. QED
  BY <1>2, InboxInvariant, PTL
-----------------------------------------------------------------------------
SessionTypes ==
  /\ clock \in Nat
  /\ records \in [Continued!Jobs -> [status : Continued!Statuses, session : Ids \cup {Continued!None},
                                     at : Nat]]
  /\ runs \in [Continued!Jobs -> Ids \cup {Continued!None}]
  /\ child \in [Continued!Jobs -> {Continued!Nothing} \cup Continued!Child]
  /\ DOMAIN decided = Continued!Jobs

(* A job that is absent has nothing; one that runs has no session in the     *)
(* list yet, which is written when it has completed.                         *)
Begun(j) ==
  /\ records[j].status = "absent"
       => runs[j] = Continued!None /\ child[j] = Continued!Nothing /\ decided[j] = Continued!Nothing
  /\ runs[j] # Continued!None => records[j].status = "running"
  /\ records[j].session # Continued!None => records[j].status = "completed"

(* The child that a command left behind continues what the command resolved. *)
Inherits(j) ==
  child[j] # Continued!Nothing =>
    /\ records[j].status = "pending"
    /\ child[j].command = "continue" =>
         child[j].inherited = decided[j].session /\ decided[j].session \in Ids
    /\ child[j].command = "delegate" => decided[j].command = "delegate"

Continues(j) ==
  runs[j] # Continued!None /\ decided[j] # Continued!Nothing /\ decided[j].command = "continue"
    => runs[j] = decided[j].session

Warm(j) == decided[j] # Continued!Nothing /\ ~decided[j].staleOk => decided[j].idle <= Ttl

OfJob(j) == Begun(j) /\ Inherits(j) /\ Continues(j) /\ Warm(j)

SessionInv == SessionTypes /\ \A j \in Continued!Jobs : OfJob(j)

LEMMA SessionInit == Continued!Init => SessionInv
<1> SUFFICES ASSUME Continued!Init PROVE SessionInv
  OBVIOUS
<1>1. SessionTypes
  BY DEF Continued!Init, SessionTypes, Continued!Statuses
<1>2. ASSUME NEW j \in Continued!Jobs PROVE OfJob(j)
  BY DEF Continued!Init, OfJob, Begun, Inherits, Continues, Warm
<1>3. QED
  BY <1>1, <1>2 DEF SessionInv

(* A step of one job leaves the others as they are.                          *)
LEMMA OneJob ==
  ASSUME SessionInv, NEW j \in Continued!Jobs, SessionTypes', OfJob(j)',
         \A k \in Continued!Jobs \ {j} :
           /\ records'[k] = records[k] /\ runs'[k] = runs[k]
           /\ child'[k] = child[k] /\ decided'[k] = decided[k]
  PROVE  SessionInv'
<1>1. ASSUME NEW k \in Continued!Jobs \ {j} PROVE OfJob(k)'
  <2>1. OfJob(k)
    BY DEF SessionInv
  <2>2. /\ records'[k] = records[k] /\ runs'[k] = runs[k]
        /\ child'[k] = child[k] /\ decided'[k] = decided[k]
    OBVIOUS
  <2>3. QED
    BY <2>1, <2>2 DEF OfJob, Begun, Inherits, Continues, Warm
<1>2. QED
  BY <1>1 DEF SessionInv

(* A reference leads to a session of pi, an id to that session.              *)
LEMMA WhatIsFound ==
  ASSUME SessionInv, NEW r, NEW s, s \in Continued!Found(r) \/ s \in Continued!Resolved(r)
  PROVE  s \in Ids /\ (r \in Ids => s = r)
<1>1. CASE s \in Continued!Found(r)
  BY <1>1 DEF Continued!Found, Continued!Known
<1>2. CASE s \in Continued!Resolved(r)
  <2>1. \A k \in Continued!Jobs : records[k].session \in Ids \cup {Continued!None}
    BY DEF SessionInv, SessionTypes
  <2>2. QED
    BY <1>2, <2>1 DEF Continued!Resolved
<1>3. QED
  BY <1>1, <1>2

(* The job last active of a session is the one its idle time is counted      *)
(* from, and it is not live.                                                 *)
LEMMA AdmittedIsWarm ==
  ASSUME SessionConstants, SessionInv, NEW s \in Ids, Continued!Admitted(s, FALSE)
  PROVE  (IF s \in Continued!Known THEN clock - Continued!LastUse(s) ELSE 0) <= Ttl
<1>1. CASE s \notin Continued!Known
  BY <1>1 DEF SessionConstants
<1>2. CASE s \in Continued!Known
  <2>1. PICK k \in Continued!NewestOf(s) : Continued!Age(k) <= Ttl
    BY <1>2 DEF Continued!Admitted
  <2>2. /\ k \in Continued!Jobs /\ k \in Continued!JobsOf(s) /\ records[k].session = s
        /\ \A i \in Continued!JobsOf(s) : records[i].at <= records[k].at
    BY DEF Continued!NewestOf, Continued!JobsOf
  <2>3. records[k].status = "completed"
    BY <2>2 DEF SessionConstants, SessionInv, OfJob, Begun
  <2>4. Continued!Age(k) = clock - records[k].at
    BY <2>3 DEF Continued!Age, Continued!Live
  <2> DEFINE S == {records[i].at : i \in Continued!JobsOf(s)}
  <2>5. \A i \in Continued!JobsOf(s) : records[i].at \in Nat
    BY DEF SessionInv, SessionTypes, Continued!JobsOf
  <2>6. records[k].at \in S /\ \A x \in S : x \in Nat /\ records[k].at >= x
    BY <2>2, <2>5
  <2> HIDE DEF S
  <2>7. Continued!Max(S) \in S /\ \A x \in S : Continued!Max(S) >= x
    BY <2>6 DEF Continued!Max
  <2>8. Continued!Max(S) = records[k].at
    BY <2>6, <2>7
  <2>9. Continued!LastUse(s) = records[k].at
    BY <2>8 DEF Continued!LastUse, S
  <2>10. QED
    BY <1>2, <2>1, <2>4, <2>9
<1>3. QED
  BY <1>1, <1>2

(* Pi is started for a job that had none.                                    *)
LEMMA PiStarts ==
  ASSUME SessionInv, NEW j \in Continued!Jobs, NEW s \in Ids, Continued!RunOn(j, s)
  PROVE  /\ records' \in [Continued!Jobs -> [status : Continued!Statuses, at : Nat,
                                             session : Ids \cup {Continued!None}]]
         /\ runs' \in [Continued!Jobs -> Ids \cup {Continued!None}]
         /\ records'[j].status = "running" /\ records'[j].session = records[j].session
         /\ runs'[j] = s
         /\ \A k \in Continued!Jobs \ {j} : records'[k] = records[k] /\ runs'[k] = runs[k]
<1>1. records' = [records EXCEPT ![j] = [records[j] EXCEPT !.status = "running", !.at = clock]]
  BY DEF Continued!RunOn, Continued!Record
<1>2. runs' = [runs EXCEPT ![j] = s]
  BY DEF Continued!RunOn
<1>3. records[j] \in [status : Continued!Statuses, session : Ids \cup {Continued!None}, at : Nat]
  BY DEF SessionInv, SessionTypes
<1> DEFINE r == [records[j] EXCEPT !.status = "running", !.at = clock]
<1>4. /\ r \in [status : Continued!Statuses, session : Ids \cup {Continued!None}, at : Nat]
      /\ r.status = "running" /\ r.session = records[j].session
  BY <1>3 DEF SessionInv, SessionTypes, Continued!Statuses
<1> HIDE DEF r
<1>5. records' = [records EXCEPT ![j] = r]
  BY <1>1 DEF r
<1>6. QED
  BY <1>2, <1>4, <1>5 DEF SessionInv, SessionTypes

LEMMA FreshKeeps ==
  ASSUME SessionConstants, SessionInv, NEW j \in Continued!Jobs, Continued!DelegateFresh(j)
  PROVE  SessionInv'
<1>1. PICK s \in Ids : Continued!RunOn(j, s)
  BY DEF Continued!DelegateFresh, Continued!NewSession
<1>2. UNCHANGED <<clock, child, decided>> /\ records[j].status = "absent"
  BY DEF Continued!DelegateFresh, Continued!Fresh
<1>3. /\ records[j].session = Continued!None
      /\ child[j] = Continued!Nothing /\ decided[j] = Continued!Nothing
  BY <1>2 DEF SessionInv, OfJob, Begun
<1>4. SessionTypes'
  BY <1>1, <1>2, PiStarts DEF SessionInv, SessionTypes
<1>5. records'[j].status = "running" /\ records'[j].session = Continued!None
  BY <1>1, <1>3, PiStarts
<1>6. OfJob(j)'
  BY <1>2, <1>3, <1>5 DEF OfJob, Begun, Inherits, Continues, Warm
<1>7. QED
  BY <1>1, <1>2, <1>4, <1>6, PiStarts, OneJob

(* A command that has decided on a session starts pi, or leaves a child.     *)
LEMMA ProceedsKeeps ==
  ASSUME SessionConstants, SessionInv, NEW j \in Continued!Jobs, NEW s \in Ids, Continued!Fresh(j),
         NEW command \in {"delegate", "continue"}, NEW reference \in Ids \cup {Continued!Last},
         NEW staleOk \in BOOLEAN, NEW background \in BOOLEAN,
         Continued!Admitted(s, staleOk), Continued!Decides(j, command, s, staleOk),
         Continued!Proceeds(j, command, reference, s, staleOk, background),
         UNCHANGED clock
  PROVE  SessionInv'
<1> DEFINE idle == IF s \in Continued!Known THEN clock - Continued!LastUse(s) ELSE 0
           alone == \A k \in Continued!Jobs : runs[k] # s
           decision == [command |-> command, session |-> s, staleOk |-> staleOk, idle |-> idle,
                        alone |-> alone]
<1>1. decided' = [decided EXCEPT ![j] = decision]
  BY DEF Continued!Decides
<1>2. /\ decision.command = command /\ decision.session = s /\ decision.idle = idle
      /\ decision.staleOk = staleOk
  OBVIOUS
<1>3. ~staleOk => idle <= Ttl
  <2>1. CASE staleOk
    BY <2>1
  <2>2. CASE staleOk = FALSE
    BY <2>2, AdmittedIsWarm
  <2>3. QED
    BY <2>1, <2>2
<1> HIDE DEF idle, alone, decision
<1>4. /\ decided'[j] = decision /\ DOMAIN decided' = Continued!Jobs
      /\ \A k \in Continued!Jobs \ {j} : decided'[k] = decided[k]
  BY <1>1 DEF SessionInv, SessionTypes
<1>5. Warm(j)'
  BY <1>2, <1>3, <1>4 DEF Warm
<1>6. /\ records[j].status = "absent" /\ records[j].session = Continued!None
      /\ child[j] = Continued!Nothing /\ runs[j] = Continued!None
  BY DEF SessionInv, OfJob, Begun, Continued!Fresh
<1>7. CASE background
  <2> DEFINE c == [command |-> command, reference |-> reference, staleOk |-> staleOk,
                   inherited |-> IF command = "continue" THEN s ELSE Continued!None]
             r == [records[j] EXCEPT !.status = "pending", !.at = clock]
  <2>1. /\ child' = [child EXCEPT ![j] = c] /\ records' = [records EXCEPT ![j] = r]
        /\ UNCHANGED runs
    BY <1>7 DEF Continued!Proceeds, Continued!Detach, Continued!Record
  <2>2. /\ r \in [status : Continued!Statuses, session : Ids \cup {Continued!None}, at : Nat]
        /\ r.status = "pending" /\ r.session = Continued!None
    BY <1>6 DEF SessionInv, SessionTypes, Continued!Statuses
  <2>3. c \in Continued!Child /\ c.command = command /\ (command = "continue" => c.inherited = s)
    BY DEF Continued!Child
  <2> HIDE DEF c, r
  <2>4. SessionTypes'
    BY <1>4, <2>1, <2>2, <2>3 DEF SessionInv, SessionTypes
  <2>5. child'[j] = c /\ records'[j] = r /\ runs'[j] = Continued!None
    BY <1>6, <2>1 DEF SessionInv, SessionTypes
  <2>6. \A k \in Continued!Jobs \ {j} :
          records'[k] = records[k] /\ runs'[k] = runs[k] /\ child'[k] = child[k]
    BY <2>1 DEF SessionInv, SessionTypes
  <2>7. Begun(j)' /\ Inherits(j)' /\ Continues(j)'
    BY <1>2, <1>4, <2>2, <2>3, <2>5 DEF Begun, Inherits, Continues
  <2>8. QED
    BY <1>4, <1>5, <2>4, <2>6, <2>7, OneJob DEF OfJob
<1>8. CASE ~background
  <2>1. Continued!RunOn(j, s) /\ UNCHANGED child
    BY <1>8 DEF Continued!Proceeds
  <2>2. SessionTypes'
    BY <1>4, <2>1, PiStarts DEF SessionInv, SessionTypes
  <2>3. /\ records'[j].status = "running" /\ records'[j].session = Continued!None
        /\ runs'[j] = s /\ child'[j] = Continued!Nothing
    BY <1>6, <2>1, PiStarts
  <2>4. Begun(j)' /\ Inherits(j)' /\ Continues(j)'
    BY <1>2, <1>4, <2>3 DEF Begun, Inherits, Continues
  <2>5. \A k \in Continued!Jobs \ {j} :
          records'[k] = records[k] /\ runs'[k] = runs[k] /\ child'[k] = child[k]
    BY <2>1, PiStarts
  <2>6. QED
    BY <1>4, <1>5, <2>2, <2>4, <2>5, OneJob DEF OfJob
<1>9. QED
  BY <1>7, <1>8

(* The child of "continue" starts pi on the session it inherited.            *)
LEMMA ChildKeeps ==
  ASSUME SessionConstants, SessionInv, NEW j \in Continued!Jobs, Continued!ChildStarts(j)
  PROVE  SessionInv'
<1> DEFINE ref == Continued!Reference(child[j])
<1>1. /\ child[j] # Continued!Nothing /\ child' = [child EXCEPT ![j] = Continued!Nothing]
      /\ UNCHANGED <<clock, decided>>
  BY DEF Continued!ChildStarts
<1>2. /\ records[j].status = "pending" /\ records[j].session = Continued!None
      /\ runs[j] = Continued!None
  BY <1>1 DEF SessionInv, OfJob, Begun, Inherits
<1>3. /\ child'[j] = Continued!Nothing
      /\ \A k \in Continued!Jobs \ {j} : child'[k] = child[k] /\ decided'[k] = decided[k]
      /\ child' \in [Continued!Jobs -> {Continued!Nothing} \cup Continued!Child]
  BY <1>1 DEF SessionInv, SessionTypes
<1>4. PICK s \in IF child[j].command = "continue" THEN Continued!Found(ref)
                 ELSE Continued!Resolved(ref) :
        Continued!RunOn(j, s) \/ UNCHANGED <<records, runs>>
  BY DEF Continued!ChildStarts
<1>5. s \in Ids /\ (ref \in Ids => s = ref)
  BY <1>4, WhatIsFound
<1>6. child[j] \in Continued!Child /\ child[j].command \in {"delegate", "continue"}
  BY <1>1 DEF SessionInv, SessionTypes, Continued!Child
<1>7. decided[j].command = "continue" => s = decided[j].session
  <2> SUFFICES ASSUME decided[j].command = "continue" PROVE s = decided[j].session
    OBVIOUS
  <2>1. child[j].command = "continue"
    BY <1>1, <1>6 DEF SessionInv, OfJob, Inherits
  <2>2. child[j].inherited = decided[j].session /\ decided[j].session \in Ids
    BY <1>1, <2>1 DEF SessionInv, OfJob, Inherits
  <2>3. ref = decided[j].session
    BY <2>2 DEF Continued!Reference, SessionConstants
  <2>4. QED
    BY <1>5, <2>2, <2>3
<1>8. CASE Continued!RunOn(j, s)
  <2>1. SessionTypes'
    BY <1>1, <1>3, <1>5, <1>8, PiStarts DEF SessionInv, SessionTypes
  <2>2. /\ records'[j].status = "running" /\ records'[j].session = Continued!None
        /\ runs'[j] = s
    BY <1>2, <1>5, <1>8, PiStarts
  <2>3. OfJob(j)'
    BY <1>1, <1>3, <1>7, <2>2 DEF SessionInv, OfJob, Begun, Inherits, Continues, Warm
  <2>4. QED
    BY <1>3, <1>5, <1>8, <2>1, <2>3, PiStarts, OneJob
<1>9. CASE UNCHANGED <<records, runs>>
  <2>1. SessionTypes'
    BY <1>1, <1>3, <1>9 DEF SessionInv, SessionTypes
  <2>2. OfJob(j)'
    BY <1>1, <1>2, <1>3, <1>9 DEF SessionInv, OfJob, Begun, Inherits, Continues, Warm
  <2>3. QED
    BY <1>3, <1>9, <2>1, <2>2, OneJob
<1>10. QED
  BY <1>4, <1>8, <1>9

(* The last record of a job, with its session if it has completed.           *)
LEMMA EndKeeps ==
  ASSUME SessionInv, NEW j \in Continued!Jobs, Continued!RunEnds(j) \/ Continued!RunFails(j)
  PROVE  SessionInv'
<1>1. /\ runs[j] # Continued!None /\ runs' = [runs EXCEPT ![j] = Continued!None]
      /\ UNCHANGED <<clock, child, decided>>
  BY DEF Continued!RunEnds, Continued!RunFails
<1>2. /\ records[j] \in [status : Continued!Statuses, session : Ids \cup {Continued!None}, at : Nat]
      /\ runs[j] \in Ids \cup {Continued!None} /\ clock \in Nat
      /\ records[j].status = "running" /\ records[j].session = Continued!None
  BY <1>1 DEF SessionInv, SessionTypes, OfJob, Begun
<1>3. PICK r \in [status : Continued!Statuses, session : Ids \cup {Continued!None}, at : Nat] :
        /\ records' = [records EXCEPT ![j] = r]
        /\ r.status \in {"completed", "failed"}
        /\ r.status = "failed" => r.session = Continued!None
  <2>1. CASE Continued!RunEnds(j)
    <3> DEFINE r == [status |-> "completed", session |-> runs[j], at |-> clock]
    <3>1. r \in [status : Continued!Statuses, session : Ids \cup {Continued!None}, at : Nat]
      BY <1>2 DEF Continued!Statuses
    <3>2. r.status = "completed" /\ records' = [records EXCEPT ![j] = r]
      BY <2>1 DEF Continued!RunEnds
    <3> HIDE DEF r
    <3>3. QED
      BY <3>1, <3>2
  <2>2. CASE Continued!RunFails(j)
    <3> DEFINE r == [records[j] EXCEPT !.status = "failed", !.at = clock]
    <3>1. r \in [status : Continued!Statuses, session : Ids \cup {Continued!None}, at : Nat]
      BY <1>2 DEF Continued!Statuses
    <3>2. /\ r.status = "failed" /\ r.session = Continued!None
          /\ records' = [records EXCEPT ![j] = r]
      BY <1>2, <2>2 DEF Continued!RunFails
    <3> HIDE DEF r
    <3>3. QED
      BY <3>1, <3>2
  <2>3. QED
    BY <2>1, <2>2
<1>4. SessionTypes'
  BY <1>1, <1>3 DEF SessionInv, SessionTypes
<1>5. records'[j] = r /\ runs'[j] = Continued!None
  BY <1>1, <1>3 DEF SessionInv, SessionTypes
<1>6. child[j] = Continued!Nothing
  BY <1>2 DEF SessionInv, OfJob, Inherits
<1>7. OfJob(j)'
  BY <1>1, <1>3, <1>5, <1>6 DEF SessionInv, OfJob, Begun, Inherits, Continues, Warm
<1>8. \A k \in Continued!Jobs \ {j} : records'[k] = records[k] /\ runs'[k] = runs[k]
  BY <1>1, <1>3 DEF SessionInv, SessionTypes
<1>9. QED
  BY <1>1, <1>4, <1>7, <1>8, OneJob

LEMMA SessionStep ==
  SessionConstants /\ SessionInv /\ [Continued!Next]_(Continued!vars) => SessionInv'
<1> SUFFICES ASSUME SessionConstants, SessionInv, [Continued!Next]_(Continued!vars)
             PROVE  SessionInv'
  OBVIOUS
<1>1. CASE UNCHANGED Continued!vars
  BY <1>1 DEF Continued!vars, SessionInv, SessionTypes, OfJob, Begun, Inherits, Continues, Warm
<1>2. CASE Continued!Tick
  <2>1. clock' \in Nat /\ UNCHANGED <<records, child, runs, decided>>
    BY <1>2 DEF Continued!Tick, SessionInv, SessionTypes
  <2>2. QED
    BY <2>1 DEF SessionInv, SessionTypes, OfJob, Begun, Inherits, Continues, Warm
<1>3. ASSUME NEW j \in Continued!Jobs, Continued!DelegateSession(j) PROVE SessionInv'
  <2>0. PICK reference \in Ids \cup {Continued!Last}, staleOk \in BOOLEAN,
             background \in BOOLEAN : \E s \in Continued!Resolved(reference) :
          /\ Continued!Admitted(s, staleOk)
          /\ Continued!Proceeds(j, "delegate", reference, s, staleOk, background)
          /\ Continued!Decides(j, "delegate", s, staleOk)
    BY <1>3 DEF Continued!DelegateSession
  <2>1. PICK s \in Continued!Resolved(reference) :
          /\ Continued!Admitted(s, staleOk)
          /\ Continued!Proceeds(j, "delegate", reference, s, staleOk, background)
          /\ Continued!Decides(j, "delegate", s, staleOk)
    BY <2>0
  <2>2. s \in Ids
    BY WhatIsFound
  <2>3. Continued!Fresh(j) /\ UNCHANGED clock
    BY <1>3 DEF Continued!DelegateSession
  <2>4. QED
    BY <2>1, <2>2, <2>3, ProceedsKeeps
<1>4. ASSUME NEW j \in Continued!Jobs, Continued!Continue(j) PROVE SessionInv'
  <2>0. PICK reference \in Ids \cup {Continued!Last}, staleOk \in BOOLEAN,
             background \in BOOLEAN : \E s \in Continued!Found(reference) :
          /\ Continued!Admitted(s, staleOk)
          /\ Continued!Proceeds(j, "continue", reference, s, staleOk, background)
          /\ Continued!Decides(j, "continue", s, staleOk)
    BY <1>4 DEF Continued!Continue
  <2>1. PICK s \in Continued!Found(reference) :
          /\ Continued!Admitted(s, staleOk)
          /\ Continued!Proceeds(j, "continue", reference, s, staleOk, background)
          /\ Continued!Decides(j, "continue", s, staleOk)
    BY <2>0
  <2>2. s \in Ids
    BY WhatIsFound
  <2>3. Continued!Fresh(j) /\ UNCHANGED clock
    BY <1>4 DEF Continued!Continue
  <2>4. QED
    BY <2>1, <2>2, <2>3, ProceedsKeeps
<1>5. QED
  BY <1>1, <1>2, <1>3, <1>4, FreshKeeps, ChildKeeps, EndKeeps DEF Continued!Next

LEMMA SessionInvariant == Spec => []SessionInv
BY PartsAssumption, SessionsPart, SessionInit, SessionStep, PTL DEF Continued!Spec

(* A continuation works on the session that its command line resolved, in    *)
(* the background too, and a cold history is continued only where that was   *)
(* allowed: for any number of commands and sessions and any TTL.             *)
THEOREM ContinuedOnPurpose == Spec => []ContinuesOnPurpose
<1>1. SessionInv => ContinuesOnPurpose
  BY DEF SessionInv, OfJob, Continues, Warm, ContinuesOnPurpose, Continued!ContinuesOnPurpose,
       Continued!ContinuesWhatWasResolved, Continued!ColdOnlyOnPurpose
<1>2. QED
  BY <1>1, SessionInvariant, PTL
-----------------------------------------------------------------------------
(* The two proxies.  A behaviour of the parts is one of each of them.        *)
LEMMA CredPart == Spec => Cred!Spec
<1>1. Init => Cred!Init
  BY DEF Init
<1>2. [Next]_vars => [Cred!Next]_(Cred!vars)
  BY DEF Next, vars, credentialVars, Cred!vars
<1>3. QED
  BY <1>1, <1>2, PTL DEF Spec, Cred!Spec

LEMMA GitPart == Spec => Git!Spec
<1>1. Init => Git!Init
  BY DEF Init
<1>2. [Next]_vars => [Git!Next]_(Git!vars)
  BY DEF Next, vars, gitVars, Git!vars
<1>3. QED
  BY <1>1, <1>2, PTL DEF Spec, Git!Spec
-----------------------------------------------------------------------------
(* An exchange that has begun.                                               *)
ExchangeBegun ==
  [stage : {"live", "destroyed", "over"}, head : BOOLEAN, body : Cred!Forwarded,
   client : {"open", "gone", "whole", "cut", "refused", "padded"}]

LEMMA ExchangeIs ==
  /\ Cred!Exchange = {Cred!Idle} \cup ExchangeBegun
  /\ Cred!Idle \notin ExchangeBegun /\ Cred!Idle.stage = "idle"
  /\ \A x \in Cred!Exchange : x # Cred!Idle <=> x \in ExchangeBegun
BY DEF Cred!Exchange, ExchangeBegun, Cred!Idle

(* What Body returns, of any run: never two spellings of the ceiling.        *)
LEMMA BodyTypes ==
  ASSUME NEW form, run \in Cred!Run, NEW ceilings \in {{}, {Cred!Field}}, NEW body \in Cred!Body(form, ceilings)
  PROVE  /\ body \in Cred!Forwarded
         /\ body.ceilings # Cred!Spellings
         /\ body.model = "real" /\ run.declared # {} => body.ceilings # {}
<1>1. Cred!Field \in Cred!Spellings
  BY DEF Cred!Field, Cred!Stated, Cred!Run, Cred!Spellings, Cred!Unset, Cred!Old, Cred!New
<1>2. ceilings \subseteq Cred!Spellings /\ ceilings # Cred!Spellings
  BY <1>1 DEF Cred!Spellings, Cred!Old, Cred!New
<1>3. run.declared \subseteq Cred!Spellings
  BY DEF Cred!Run
<1>4. \A c : {c} # Cred!Spellings
  BY DEF Cred!Spellings, Cred!Old, Cred!New
<1>5. Cred!Spellings # {}
  BY DEF Cred!Spellings
<1>6. \A d \in Cred!WithDeclared(ceilings) :
        /\ d \subseteq Cred!Spellings /\ d # Cred!Spellings
        /\ run.declared # {} => d # {}
  BY <1>2, <1>3, <1>4, <1>5 DEF Cred!WithDeclared
<1>7. CASE run.named /\ form = "chat"
  <2>1. body \in [model : {"real"}, ceilings : Cred!WithDeclared(ceilings)]
    BY <1>7 DEF Cred!Body
  <2>2. QED
    BY <2>1, <1>6 DEF Cred!Forwarded
<1>8. CASE ~(run.named /\ form = "chat")
  <2>1. body \in [model : {"asked"}, ceilings : {ceilings}]
    BY <1>8 DEF Cred!Body
  <2>2. QED
    BY <2>1, <1>2 DEF Cred!Forwarded
<1>9. QED
  BY <1>7, <1>8
-----------------------------------------------------------------------------
(* Of one exchange: its body was made by Body, and its row is there exactly  *)
(* when something has happened to it.  What its client got of an answer is   *)
(* settled only when the exchange is over.                                   *)
BodyIsFit(q) ==
  exchange[q] # Cred!Idle =>
    /\ exchange[q].body.ceilings # Cred!Spellings
    /\ exchange[q].body.model = "real" /\ run.declared # {} => exchange[q].body.ceilings # {}

Accounted(q) ==
  /\ exchange[q].stage \in {"idle", "live"} => outcomes[q] = <<>>
  /\ exchange[q].stage \in {"destroyed", "over"} => Len(outcomes[q]) = 1
  /\ exchange[q] # Cred!Idle =>
       /\ exchange[q].client \notin {"open", "gone"} => exchange[q].stage = "over"
       /\ exchange[q].client = "whole" => outcomes[q] = <<"ok">>
       /\ proxy = "closed" =>
            /\ exchange[q].client # "open"
            /\ exchange[q].client # "gone" => q \in flushed

ProxyInv == Cred!TypeOK /\ \A q \in Exchanges : BodyIsFit(q) /\ Accounted(q)

LEMMA ProxyInit == Cred!Init => ProxyInv
BY DEF Cred!Init, ProxyInv, Cred!TypeOK, BodyIsFit, Accounted, Cred!Exchange, Cred!Idle

(* Every other exchange stays as it is.                                      *)
LEMMA OtherExchangesStay ==
  ASSUME ProxyInv, NEW q \in Exchanges, NEW x \in Cred!Exchange, NEW r \in Seq(Cred!Outcomes),
         exchange' = [exchange EXCEPT ![q] = x], outcomes' = [outcomes EXCEPT ![q] = r],
         UNCHANGED <<run, proxy, flushed>>,
         BodyIsFit(q)', Accounted(q)'
  PROVE  ProxyInv'
<1>1. Cred!TypeOK'
  BY DEF ProxyInv, Cred!TypeOK
<1>2. \A p \in Exchanges \ {q} : exchange'[p] = exchange[p] /\ outcomes'[p] = outcomes[p]
  BY DEF ProxyInv, Cred!TypeOK
<1>3. ASSUME NEW p \in Exchanges \ {q} PROVE BodyIsFit(p)' /\ Accounted(p)'
  BY <1>2, <1>3 DEF ProxyInv, BodyIsFit, Accounted
<1>4. QED
  BY <1>1, <1>3 DEF ProxyInv

LEMMA RequestKeeps == ASSUME ProxyInv, NEW q \in Exchanges, Cred!Arrive(q) PROVE ProxyInv'
<1>1. CASE exchange' = exchange
  BY <1>1 DEF Cred!Arrive, ProxyInv, Cred!TypeOK, BodyIsFit, Accounted
<1>2. CASE exchange' # exchange
  <2>0. PICK form \in Cred!Bodies, ceilings \in {{}, {Cred!Field}} :
          \E body \in Cred!Body(form, ceilings) :
            exchange' = [exchange EXCEPT ![q] =
              [stage |-> "live", head |-> FALSE, body |-> body, client |-> "open"]]
    BY <1>2 DEF Cred!Arrive
  <2>1. PICK body \in Cred!Body(form, ceilings) :
          exchange' = [exchange EXCEPT ![q] =
            [stage |-> "live", head |-> FALSE, body |-> body, client |-> "open"]]
    BY <2>0
  <2>2. /\ body \in Cred!Forwarded /\ body.ceilings # Cred!Spellings
        /\ body.model = "real" /\ run.declared # {} => body.ceilings # {}
    BY BodyTypes DEF ProxyInv, Cred!TypeOK
  <2> DEFINE x == [stage |-> "live", head |-> FALSE, body |-> body, client |-> "open"]
  <2>3. x \in ExchangeBegun
    BY <2>2 DEF ExchangeBegun
  <2>4. x.stage = "live" /\ x.body = body /\ x.client = "open"
    OBVIOUS
  <2>5. exchange'[q] = x /\ exchange' = [exchange EXCEPT ![q] = x]
    BY <2>1 DEF ProxyInv, Cred!TypeOK
  <2>6. UNCHANGED <<run, proxy, outcomes, flushed>> /\ proxy = "open" /\ exchange[q].stage = "idle"
    BY ExchangeIs DEF Cred!Arrive
  <2> HIDE DEF x
  <2>7. BodyIsFit(q)'
    BY <2>2, <2>4, <2>5, <2>6 DEF BodyIsFit
  <2>8. Accounted(q)'
    BY <2>4, <2>5, <2>6 DEF Accounted, ProxyInv
  <2>9. outcomes[q] \in Seq(Cred!Outcomes) /\ outcomes' = [outcomes EXCEPT ![q] = outcomes[q]]
    BY <2>6 DEF ProxyInv, Cred!TypeOK
  <2>10. QED
    BY <2>3, <2>5, <2>6, <2>7, <2>8, <2>9, ExchangeIs, OtherExchangesStay
<1>3. QED
  BY <1>1, <1>2

(* An exchange that has begun goes on: to x, with the rows r.                *)
LEMMA GoesOn ==
  ASSUME ProxyInv, NEW q \in Exchanges, exchange[q] # Cred!Idle, NEW x \in ExchangeBegun,
         x.body = exchange[q].body, exchange' = [exchange EXCEPT ![q] = x],
         NEW r \in Seq(Cred!Outcomes), outcomes' = [outcomes EXCEPT ![q] = r],
         UNCHANGED <<run, proxy, flushed>>, Accounted(q)'
  PROVE  ProxyInv'
<1>1. exchange'[q] = x
  BY DEF ProxyInv, Cred!TypeOK
<1>2. BodyIsFit(q)'
  BY <1>1, ExchangeIs DEF ProxyInv, BodyIsFit
<1>3. QED
  BY <1>2, ExchangeIs, OtherExchangesStay

(* A record with its row: the row is the first one, or it was there.         *)
LEMMA FinishIs ==
  ASSUME ProxyInv, NEW q \in Exchanges, NEW outcome \in Cred!Outcomes
  PROVE  \E r \in Seq(Cred!Outcomes) :
           /\ Cred!Finish(q, outcome) = [outcomes EXCEPT ![q] = r]
           /\ exchange[q].stage = "live" => r = << outcome >>
           /\ exchange[q].stage = "destroyed" => r = outcomes[q] /\ Len(r) = 1
<1>1. outcomes \in [Exchanges -> Seq(Cred!Outcomes)]
  BY DEF ProxyInv, Cred!TypeOK
<1>2. CASE outcomes[q] = <<>>
  <2>1. Cred!Finish(q, outcome) = [outcomes EXCEPT ![q] = << outcome >>]
    BY <1>1, <1>2 DEF Cred!Finish
  <2>2. exchange[q].stage # "destroyed"
    BY <1>2 DEF ProxyInv, Accounted
  <2>3. << outcome >> \in Seq(Cred!Outcomes)
    OBVIOUS
  <2>4. QED
    BY <2>1, <2>2, <2>3
<1>3. CASE outcomes[q] # <<>>
  <2>1. Cred!Finish(q, outcome) = [outcomes EXCEPT ![q] = outcomes[q]]
    BY <1>1, <1>3 DEF Cred!Finish
  <2>2. exchange[q].stage # "live"
    BY <1>3 DEF ProxyInv, Accounted
  <2>3. exchange[q].stage = "destroyed" => Len(outcomes[q]) = 1
    BY DEF ProxyInv, Accounted
  <2>4. QED
    BY <1>1, <2>1, <2>2, <2>3
<1>4. QED
  BY <1>2, <1>3

(* The end of an exchange, whole only of an answer that has ended.           *)
LEMMA ExchangeEndKeeps ==
  ASSUME ProxyInv, NEW q \in Exchanges, exchange[q].stage \in {"live", "destroyed"},
         NEW outcome \in Cred!Outcomes, NEW client \in {"whole", "cut", "refused", "padded"},
         client = "whole" => outcome = "ok" /\ exchange[q].stage = "live",
         outcomes' = Cred!Finish(q, outcome), Cred!Over(q, client), UNCHANGED <<run, proxy, flushed>>
  PROVE  ProxyInv'
<1>1. exchange[q] \in ExchangeBegun /\ exchange[q] # Cred!Idle
  BY ExchangeIs DEF ProxyInv, Cred!TypeOK
<1> DEFINE to == IF exchange[q].client = "gone" THEN "gone" ELSE client
           x == [exchange[q] EXCEPT !.stage = "over", !.client = to]
<1>2. /\ x \in ExchangeBegun /\ x.body = exchange[q].body
      /\ x.stage = "over" /\ x.client = to
  BY <1>1 DEF ExchangeBegun
<1>3. exchange' = [exchange EXCEPT ![q] = x]
  BY <1>1 DEF Cred!Over, ProxyInv, Cred!TypeOK
<1>4. PICK r \in Seq(Cred!Outcomes) :
        /\ outcomes' = [outcomes EXCEPT ![q] = r]
        /\ exchange[q].stage = "live" => r = << outcome >>
        /\ exchange[q].stage = "destroyed" => Len(r) = 1
  BY FinishIs
<1>5. Len(r) = 1
  BY <1>4
<1>6. outcomes'[q] = r /\ exchange'[q] = x
  BY <1>3, <1>4 DEF ProxyInv, Cred!TypeOK
<1>7. proxy = "closed" => exchange[q].client # "open"
  BY <1>1 DEF ProxyInv, Accounted
<1>8. to = "whole" => r = <<"ok">>
  BY <1>4
<1>9. proxy = "closed" => to = "gone"
  BY <1>1, <1>7 DEF ProxyInv, Accounted
<1> HIDE DEF to, x
<1>10. Accounted(q)'
  BY <1>2, <1>5, <1>6, <1>8, <1>9 DEF Accounted
<1>11. QED
  BY <1>1, <1>2, <1>3, <1>4, <1>10, GoesOn

LEMMA HeadersKeep == ASSUME ProxyInv, NEW q \in Exchanges, Cred!Headers(q) PROVE ProxyInv'
<1>1. exchange[q] \in ExchangeBegun /\ exchange[q] # Cred!Idle
  BY ExchangeIs DEF Cred!Headers, Cred!Is, ProxyInv, Cred!TypeOK
<1> DEFINE x == [exchange[q] EXCEPT !.head = TRUE]
<1>2. /\ x \in ExchangeBegun /\ x.body = exchange[q].body
      /\ x.stage = exchange[q].stage /\ x.client = exchange[q].client
  BY <1>1 DEF ExchangeBegun
<1>3. exchange' = [exchange EXCEPT ![q] = x] /\ exchange'[q] = x
  BY <1>1 DEF Cred!Headers, ProxyInv, Cred!TypeOK
<1>4. /\ outcomes[q] \in Seq(Cred!Outcomes) /\ outcomes' = [outcomes EXCEPT ![q] = outcomes[q]]
      /\ UNCHANGED <<run, proxy, outcomes, flushed>>
  BY DEF Cred!Headers, ProxyInv, Cred!TypeOK
<1> HIDE DEF x
<1>5. Accounted(q)'
  BY <1>1, <1>2, <1>3, <1>4 DEF Accounted, ProxyInv
<1>6. QED
  BY <1>1, <1>2, <1>3, <1>4, <1>5, GoesOn

LEMMA TimeoutKeeps == ASSUME ProxyInv, NEW q \in Exchanges, Cred!Timeout(q) PROVE ProxyInv'
<1>1. exchange[q] \in ExchangeBegun /\ exchange[q] # Cred!Idle
  BY ExchangeIs DEF Cred!Timeout, Cred!Is, ProxyInv, Cred!TypeOK
<1> DEFINE x == [exchange[q] EXCEPT !.stage = "destroyed"]
<1>2. /\ x \in ExchangeBegun /\ x.body = exchange[q].body
      /\ x.stage = "destroyed" /\ x.client = exchange[q].client
  BY <1>1 DEF ExchangeBegun
<1>3. exchange' = [exchange EXCEPT ![q] = x] /\ exchange'[q] = x
  BY <1>1 DEF Cred!Timeout, ProxyInv, Cred!TypeOK
<1>4. PICK r \in Seq(Cred!Outcomes) : outcomes' = [outcomes EXCEPT ![q] = r] /\ r = <<"timeout">>
  BY FinishIs DEF Cred!Timeout, Cred!Is, Cred!Outcomes
<1>5. outcomes'[q] = r /\ Len(r) = 1
  BY <1>4 DEF ProxyInv, Cred!TypeOK
<1>6. /\ exchange[q].client \in {"open", "gone"}
      /\ proxy = "closed" => exchange[q].client = "gone"
  BY <1>1 DEF Cred!Timeout, Cred!Is, ProxyInv, Accounted
<1>7. UNCHANGED <<run, proxy, flushed>>
  BY DEF Cred!Timeout
<1> HIDE DEF x
<1>8. Accounted(q)'
  BY <1>2, <1>3, <1>5, <1>6, <1>7 DEF Accounted
<1>9. QED
  BY <1>1, <1>2, <1>3, <1>4, <1>7, <1>8, GoesOn

LEMMA ClientLeavesKeeps == ASSUME ProxyInv, NEW q \in Exchanges, Cred!ClientLeaves(q) PROVE ProxyInv'
<1>1. exchange[q] \in ExchangeBegun /\ exchange[q] # Cred!Idle
  BY ExchangeIs DEF Cred!ClientLeaves, ProxyInv, Cred!TypeOK
<1> DEFINE x == [exchange[q] EXCEPT !.client = "gone"]
<1>2. /\ x \in ExchangeBegun /\ x.body = exchange[q].body
      /\ x.stage = exchange[q].stage /\ x.client = "gone"
  BY <1>1 DEF ExchangeBegun
<1>3. exchange' = [exchange EXCEPT ![q] = x] /\ exchange'[q] = x
  BY <1>1 DEF Cred!ClientLeaves, ProxyInv, Cred!TypeOK
<1>4. /\ outcomes[q] \in Seq(Cred!Outcomes) /\ outcomes' = [outcomes EXCEPT ![q] = outcomes[q]]
      /\ UNCHANGED <<run, proxy, outcomes, flushed>>
  BY DEF Cred!ClientLeaves, ProxyInv, Cred!TypeOK
<1> HIDE DEF x
<1>5. Accounted(q)'
  BY <1>1, <1>2, <1>3, <1>4 DEF Accounted, ProxyInv
<1>6. QED
  BY <1>1, <1>2, <1>3, <1>4, <1>5, GoesOn

(* close: who still waits is gone, and the rows that are there are written.  *)
LEMMA ProxyCloseKeeps == ASSUME ProxyInv, Cred!Close PROVE ProxyInv'
<1> DEFINE left(q) == IF exchange[q] # Cred!Idle /\ exchange[q].client = "open"
                      THEN [exchange[q] EXCEPT !.client = "gone"] ELSE exchange[q]
<1>1. ASSUME NEW q \in Exchanges
      PROVE  /\ left(q) \in Cred!Exchange /\ (left(q) = Cred!Idle <=> exchange[q] = Cred!Idle)
             /\ left(q).stage = exchange[q].stage
             /\ exchange[q] # Cred!Idle =>
                  /\ left(q).body = exchange[q].body
                  /\ left(q).client = IF exchange[q].client = "open" THEN "gone" ELSE exchange[q].client
  <2>1. CASE exchange[q] = Cred!Idle
    BY <2>1, ExchangeIs
  <2>2. CASE exchange[q] # Cred!Idle
    <3>1. exchange[q] \in ExchangeBegun
      BY <2>2, ExchangeIs DEF ProxyInv, Cred!TypeOK
    <3>2. [exchange[q] EXCEPT !.client = "gone"] \in ExchangeBegun
      BY <3>1 DEF ExchangeBegun
    <3>3. QED
      BY <2>2, <3>1, <3>2, ExchangeIs DEF ExchangeBegun
  <2>3. QED
    BY <2>1, <2>2
<1>2. exchange' = [q \in Exchanges |-> left(q)]
  BY DEF Cred!Close
<1>3. UNCHANGED <<run, outcomes>> /\ proxy' = "closed" /\ flushed' = {q \in Exchanges : outcomes[q] # <<>>}
  BY DEF Cred!Close
<1> HIDE DEF left
<1>4. Cred!TypeOK'
  BY <1>1, <1>2, <1>3 DEF ProxyInv, Cred!TypeOK
<1>5. ASSUME NEW q \in Exchanges PROVE BodyIsFit(q)' /\ Accounted(q)'
  <2>1. exchange'[q] = left(q)
    BY <1>2
  <2>2. BodyIsFit(q)'
    BY <1>1, <1>3, <2>1 DEF ProxyInv, BodyIsFit
  <2>3. Len(outcomes[q]) = 1 => outcomes[q] # <<>>
    OBVIOUS
  <2>4. Accounted(q)'
    BY <1>1, <1>3, <2>1, <2>3 DEF ProxyInv, Accounted
  <2>5. QED
    BY <2>2, <2>4
<1>6. QED
  BY <1>4, <1>5 DEF ProxyInv

LEMMA ProxyStep == ProxyInv /\ [Cred!Next]_(Cred!vars) => ProxyInv'
<1> SUFFICES ASSUME ProxyInv, [Cred!Next]_(Cred!vars) PROVE ProxyInv'
  OBVIOUS
<1>1. CASE UNCHANGED Cred!vars
  BY <1>1 DEF Cred!vars, ProxyInv, Cred!TypeOK, BodyIsFit, Accounted
<1>2. ASSUME NEW q \in Exchanges, Cred!UpstreamEnds(q) \/ Cred!UpstreamAborts(q) \/ Cred!UpstreamError(q)
      PROVE  ProxyInv'
  <2>1. CASE Cred!UpstreamEnds(q)
    BY <2>1, ExchangeEndKeeps DEF Cred!UpstreamEnds, Cred!Streams, Cred!Is, Cred!Outcomes
  <2>2. CASE Cred!UpstreamAborts(q)
    BY <2>2, ExchangeEndKeeps DEF Cred!UpstreamAborts, Cred!Streams, Cred!Is, Cred!Outcomes
  <2>3. CASE Cred!UpstreamError(q)
    <3>1. PICK client \in {"padded", "cut", "refused"} : Cred!Over(q, client)
      BY <2>3 DEF Cred!UpstreamError
    <3>2. QED
      BY <2>3, <3>1, ExchangeEndKeeps DEF Cred!UpstreamError, Cred!Is, Cred!Outcomes
  <2>4. QED
    BY <1>2, <2>1, <2>2, <2>3
<1>3. QED
  BY <1>1, <1>2, RequestKeeps, HeadersKeep, TimeoutKeeps, ClientLeavesKeeps,
       ProxyCloseKeeps DEF Cred!Next

LEMMA ProxyInvariant == Spec => []ProxyInv
BY CredPart, ProxyInit, ProxyStep, PTL DEF Cred!Spec

(* The provider never sees two spellings of one ceiling, and of a run that   *)
(* declares one it never sees a chat request without: whatever the compat    *)
(* entries say and whatever pi sends.                                        *)
THEOREM CeilingsAreFit == Spec => []OneCeiling
<1>1. ProxyInv => OneCeiling
  BY DEF ProxyInv, BodyIsFit, OneCeiling, Cred!OneCeiling
<1>2. QED
  BY <1>1, ProxyInvariant, PTL

(* Of every exchange there is one row, whichever events of it follow one     *)
(* another; the one that was read as whole is recorded as ok, and no row of  *)
(* an exchange that is over is lost when the proxy closes.                   *)
THEOREM RowsAreKept == Spec => []RecordedOnce
<1>1. ASSUME ProxyInv, NEW q \in Exchanges
      PROVE  /\ Len(outcomes[q]) <= 1
             /\ Cred!Is(q, "over") => Len(outcomes[q]) = 1
             /\ exchange[q] # Cred!Idle /\ exchange[q].client = "whole" => outcomes[q] = <<"ok">>
             /\ proxy = "closed" /\ exchange[q] # Cred!Idle /\ exchange[q].client # "gone" => q \in flushed
  <2>1. exchange[q].stage \in {"idle", "live", "destroyed", "over"}
    BY <1>1, ExchangeIs DEF ProxyInv, Cred!TypeOK, ExchangeBegun
  <2>2. outcomes[q] = <<>> \/ Len(outcomes[q]) = 1
    BY <1>1, <2>1 DEF ProxyInv, Accounted
  <2>3. Len(outcomes[q]) <= 1
    <3>1. Len(<<>>) = 0
      OBVIOUS
    <3>2. CASE outcomes[q] = <<>>
      BY <3>1, <3>2
    <3>3. CASE Len(outcomes[q]) = 1
      BY <3>3
    <3>4. QED
      BY <2>2, <3>2, <3>3
  <2>4. Cred!Is(q, "over") => Len(outcomes[q]) = 1
    BY <1>1 DEF ProxyInv, Accounted, Cred!Is
  <2>5. QED
    BY <1>1, <2>3, <2>4 DEF ProxyInv, Accounted
<1>2. ProxyInv => RecordedOnce
  BY <1>1 DEF RecordedOnce, Cred!RecordedOnce
<1>3. QED
  BY <1>2, ProxyInvariant, PTL
-----------------------------------------------------------------------------
(* A request that has begun.                                                 *)
FetchBegun ==
  [stage : {"sent", "relay"}, end : Git!GetEnds \cup Git!PostEnds, for : Git!Locations,
   at : Git!Locations, hops : 0 .. MaxHops]

LEMMA FetchIs ==
  /\ Git!Exchange = {Git!Idle} \cup FetchBegun
  /\ Git!Idle.stage = "idle"
  /\ \A x \in Git!Exchange : x # Git!Idle <=> x \in FetchBegun
BY DEF Git!Exchange, FetchBegun, Git!Idle

(* A location is its host and its path.                                      *)
LEMMA SameLocation ==
  \A l, m \in Git!Locations :
    /\ l.host = m.host /\ l.path = m.path => l = m
    /\ [l EXCEPT !.path = m.path] \in Git!Locations
    /\ [l EXCEPT !.path = m.path].host = l.host
    /\ [l EXCEPT !.path = m.path].path = m.path
BY DEF Git!Locations

(* What a request of an exchange may do.                                     *)
Allowed(host, end) ==
  /\ Git!Prepared(host)
  /\ end \in Git!Pushes => specs[host].allowPush

LEMMA GateAllows == \A host, path, end : Git!Gate(host, path, end) => Allowed(host, end)
BY DEF Git!Gate, Allowed
-----------------------------------------------------------------------------
(* What is remembered of a location is where its forge redirects it to.      *)
Remembers ==
  \A l \in Git!Locations :
    canonical[l] # Git!Nowhere => canonical[l] = moved[l].path /\ moved[l].path # l.path

(* A fetch of a location that moved plainly is at the one or at the other,   *)
(* and when it is at the other the proxy has remembered it.                  *)
OnItsWay(q) ==
  fetch[q] # Git!Idle /\ Git!PlainMove(fetch[q].for) =>
    \/ fetch[q].at = fetch[q].for
    \/ fetch[q].at = moved[fetch[q].for] /\ Git!Canonical(fetch[q].for) = fetch[q].at

(* What landed, landed where the forge has the repository.                   *)
Landed ==
  \A l \in Git!Locations :
    landed[l] # Git!Nowhere /\ Git!PlainMove(l) => landed[l] = moved[l] /\ Git!Canonical(l) = moved[l]

IsAllowed(q) == fetch[q] # Git!Idle => Allowed(fetch[q].at.host, fetch[q].end)

FetchInv ==
  /\ Git!TypeOK
  /\ Remembers /\ Landed
  /\ \A q \in Connections : OnItsWay(q) /\ IsAllowed(q)

LEMMA FetchInit == GitConstants /\ Git!Init => FetchInv
<1> SUFFICES ASSUME GitConstants, Git!Init PROVE FetchInv
  OBVIOUS
<1>1. Git!TypeOK
  BY FetchIs DEF Git!Init, Git!TypeOK
<1>2. Remembers /\ Landed
  BY DEF Git!Init, Remembers, Landed
<1>3. \A q \in Connections : OnItsWay(q) /\ IsAllowed(q)
  BY DEF Git!Init, OnItsWay, IsAllowed
<1>4. QED
  BY <1>1, <1>2, <1>3 DEF FetchInv

LEMMA CanonicalIs ==
  ASSUME GitConstants, FetchInv, NEW l \in Git!Locations
  PROVE  /\ Git!Canonical(l) \in Git!Locations /\ Git!Canonical(l).host = l.host
         /\ canonical[l] # Git!Nowhere /\ moved[l].host = l.host => Git!Canonical(l) = moved[l]
         /\ canonical[l] = Git!Nowhere => Git!Canonical(l) = l
         /\ Git!PlainMove(l) => Git!Canonical(l) \in {l, moved[l]}
<1>1. moved[l] \in Git!Locations /\ canonical[l] \in {Git!Nowhere} \cup Paths
  BY DEF FetchInv, Git!TypeOK, GitConstants
<1>2. CASE canonical[l] = Git!Nowhere
  BY <1>2 DEF Git!Canonical, Git!Locations
<1>3. CASE canonical[l] # Git!Nowhere
  <2>1. canonical[l] = moved[l].path
    BY <1>3 DEF FetchInv, Remembers
  <2>2. Git!Canonical(l) = [l EXCEPT !.path = moved[l].path]
    BY <1>3, <2>1 DEF Git!Canonical
  <2>3. /\ Git!Canonical(l) \in Git!Locations /\ Git!Canonical(l).host = l.host
        /\ Git!Canonical(l).path = moved[l].path
    BY <1>1, <2>2, SameLocation
  <2>4. moved[l].host = l.host => Git!Canonical(l) = moved[l]
    <3>1. Git!Canonical(l) \in [host : Hosts, path : Paths] /\ moved[l] \in [host : Hosts, path : Paths]
      BY <1>1, <2>3 DEF Git!Locations
    <3>2. QED
      BY <2>3, <3>1
  <2>5. Git!PlainMove(l) => moved[l].host = l.host
    BY DEF Git!PlainMove
  <2>6. QED
    BY <1>3, <2>3, <2>4, <2>5
<1>4. QED
  BY <1>2, <1>3

(* Where the other exchanges are does not change, nor what is remembered.    *)
LEMMA OneExchange ==
  ASSUME FetchInv, NEW q \in Connections, NEW x \in Git!Exchange, fetch' = [fetch EXCEPT ![q] = x],
         UNCHANGED <<specs, gitProxy, canonical, moved>>,
         landed' \in [Git!Locations -> {Git!Nowhere} \cup Git!Locations], Landed',
         OnItsWay(q)', IsAllowed(q)'
  PROVE  FetchInv'
<1>1. Git!TypeOK'
  BY DEF FetchInv, Git!TypeOK
<1>2. \A p \in Connections \ {q} : fetch'[p] = fetch[p]
  BY DEF FetchInv, Git!TypeOK
<1>3. fetch'[q] = x
  BY DEF FetchInv, Git!TypeOK
<1>4. ASSUME NEW p \in Connections \ {q} PROVE OnItsWay(p)' /\ IsAllowed(p)'
  BY <1>2, <1>4 DEF FetchInv, OnItsWay, IsAllowed, Git!Canonical, Git!PlainMove, Allowed,
       Git!Prepared
<1>5. Remembers'
  BY DEF FetchInv, Remembers
<1>6. QED
  BY <1>1, <1>4, <1>5 DEF FetchInv

LEMMA FetchArrives ==
  ASSUME GitConstants, FetchInv, NEW q \in Connections, Git!Arrive(q)
  PROVE  FetchInv'
<1>1. CASE fetch' = fetch
  BY <1>1 DEF Git!Arrive, FetchInv, Git!TypeOK, Remembers, Landed, OnItsWay, IsAllowed,
       Git!Canonical, Git!PlainMove,
       Allowed, Git!Prepared
<1>2. CASE fetch' # fetch
  <2>1. PICK host \in Hosts, path \in Paths \cup {BadPath}, end \in Git!GetEnds \cup Git!PostEnds :
          /\ Git!Gate(host, path, end)
          /\ fetch' = [fetch EXCEPT ![q] =
               [stage |-> "sent", end |-> end, for |-> [host |-> host, path |-> path],
                at |-> Git!Canonical([host |-> host, path |-> path]), hops |-> 0]]
    BY <1>2 DEF Git!Arrive
  <2> DEFINE l == [host |-> host, path |-> path]
             x == [stage |-> "sent", end |-> end, for |-> l, at |-> Git!Canonical(l), hops |-> 0]
  <2>2. l \in Git!Locations /\ l.host = host
    BY <2>1 DEF Git!Gate, Git!Locations
  <2> HIDE DEF l
  <2>3. Git!Canonical(l) \in Git!Locations /\ Git!Canonical(l).host = host
    BY <2>2, CanonicalIs
  <2>4. x \in FetchBegun
    BY <2>2, <2>3 DEF FetchBegun, GitConstants
  <2>5. x.for = l /\ x.at = Git!Canonical(l) /\ x.end = end
    OBVIOUS
  <2>6. fetch' = [fetch EXCEPT ![q] = x]
    BY <2>1 DEF l
  <2> HIDE DEF x
  <2>7. fetch'[q] = x
    BY <2>6 DEF FetchInv, Git!TypeOK
  <2>8. UNCHANGED <<specs, gitProxy, canonical, moved, landed>>
    BY DEF Git!Arrive
  <2>9. IsAllowed(q)'
    BY <2>1, <2>3, <2>5, <2>7, <2>8, GateAllows DEF IsAllowed, Allowed, Git!Prepared
  <2>10. OnItsWay(q)'
    <3>1. Git!PlainMove(l) => Git!Canonical(l) \in {l, moved[l]}
      BY <2>2, CanonicalIs
    <3>2. QED
      BY <2>5, <2>7, <2>8, <3>1 DEF OnItsWay, Git!PlainMove, Git!Canonical
  <2>11. Landed' /\ landed' \in [Git!Locations -> {Git!Nowhere} \cup Git!Locations]
    BY <2>8 DEF FetchInv, Git!TypeOK, Landed, Git!PlainMove, Git!Canonical
  <2>12. QED
    BY <2>4, <2>6, <2>8, <2>9, <2>10, <2>11, FetchIs, OneExchange
<1>3. QED
  BY <1>1, <1>2

LEMMA AnswerKeeps ==
  ASSUME GitConstants, FetchInv, NEW q \in Connections, Git!Answer(q)
  PROVE  FetchInv'
<1> DEFINE e == fetch[q]
           x == [e EXCEPT !.stage = "relay"]
<1>1. e \in FetchBegun /\ e # Git!Idle
  BY FetchIs DEF Git!Answer, Git!Sent, FetchInv, Git!TypeOK
<1>2. x \in FetchBegun /\ x.for = e.for /\ x.at = e.at /\ x.end = e.end
  BY <1>1 DEF FetchBegun
<1>3. fetch' = [fetch EXCEPT ![q] = x] /\ fetch'[q] = x
  BY <1>1 DEF Git!Answer, FetchInv, Git!TypeOK
<1>4. UNCHANGED <<specs, gitProxy, canonical, moved>>
  BY DEF Git!Answer
<1>5. e.for \in Git!Locations /\ e.at \in Git!Locations
  BY <1>1 DEF FetchBegun
<1>6. landed' \in [Git!Locations -> {Git!Nowhere} \cup Git!Locations]
  BY <1>5 DEF Git!Answer, FetchInv, Git!TypeOK
<1>7. Git!PlainMove(e.for) => e.at = moved[e.for] /\ Git!Canonical(e.for) = moved[e.for]
  <2>1. moved[e.at] = e.at
    BY DEF Git!Answer
  <2>2. CASE e.at = e.for
    <3>1. canonical[e.for] = Git!Nowhere
      BY <1>5, <2>1, <2>2 DEF FetchInv, Remembers
    <3>2. QED
      BY <1>5, <2>1, <2>2, <3>1, CanonicalIs
  <2>3. QED
    BY <1>1, <2>2 DEF FetchInv, OnItsWay
<1>8. \A l \in Git!Locations : landed'[l] # landed[l] => l = e.for /\ landed'[l] = e.at
  BY DEF Git!Answer, FetchInv, Git!TypeOK
<1> HIDE DEF e, x
<1>9. Landed'
  <2> SUFFICES ASSUME NEW l \in Git!Locations, landed'[l] # Git!Nowhere, Git!PlainMove(l)
               PROVE  landed'[l] = moved[l] /\ Git!Canonical(l) = moved[l]
    BY <1>4 DEF Landed, Git!PlainMove, Git!Canonical
  <2>1. CASE landed'[l] = landed[l]
    BY <2>1 DEF FetchInv, Landed
  <2>2. CASE landed'[l] # landed[l]
    BY <2>2, <1>7, <1>8
  <2>3. QED
    BY <2>1, <2>2
<1>10. OnItsWay(q)' /\ IsAllowed(q)'
  BY <1>1, <1>2, <1>3, <1>4
     DEF e, FetchInv, OnItsWay, IsAllowed, Git!Canonical, Git!PlainMove, Allowed, Git!Prepared
<1>11. QED
  BY <1>2, <1>3, <1>4, <1>6, <1>9, <1>10, FetchIs, OneExchange

LEMMA PathMoved ==
  ASSUME GitConstants, FetchInv, NEW l \in Git!Locations, moved[l].host = l.host
  PROVE  [l EXCEPT !.path = moved[l].path] = moved[l]
<1>1. moved[l] \in [host : Hosts, path : Paths] /\ l \in [host : Hosts, path : Paths]
  BY DEF FetchInv, Git!TypeOK, GitConstants, Git!Locations
<1>2. QED
  BY <1>1

(* What is added to the memory of the proxy.                                 *)
LEMMA RememberedIs ==
  ASSUME GitConstants, FetchInv, NEW from \in Git!Locations, moved[from] # from,
         canonical' = Git!Remembered(from, moved[from]), moved' = moved
  PROVE  /\ canonical' \in [Git!Locations -> {Git!Nowhere} \cup Paths]
         /\ Remembers'
         /\ \A l \in Git!Locations : Git!PlainMove(l) /\ Git!Canonical(l) = moved[l] => Git!Canonical(l)' = moved[l]
         /\ Git!PlainMove(from) => Git!Canonical(from)' = moved[from]
<1>1. /\ moved[from] \in Git!Locations /\ moved[from].path \in Paths /\ Git!Nowhere \notin Paths
      /\ canonical \in [Git!Locations -> {Git!Nowhere} \cup Paths]
  BY DEF FetchInv, Git!TypeOK, GitConstants, Git!Locations
<1>2. canonical' \in [Git!Locations -> {Git!Nowhere} \cup Paths]
  BY <1>1 DEF Git!Remembered
<1>3. /\ \A l \in Git!Locations : canonical'[l] = canonical[l] \/ (l = from /\ canonical'[l] = moved[l].path /\ moved[l].path # l.path)
      /\ moved[from].path # from.path => canonical'[from] = moved[from].path
      /\ moved[from].path = from.path => canonical' = canonical
  BY <1>1 DEF Git!Remembered
<1>4. Remembers'
  BY <1>3 DEF FetchInv, Remembers
<1>5. ASSUME NEW l \in Git!Locations, Git!PlainMove(l), canonical'[l] # Git!Nowhere PROVE Git!Canonical(l)' = moved[l]
  <2>1. canonical'[l] = moved[l].path /\ moved[l].host = l.host
    BY <1>4, <1>5 DEF Remembers, Git!PlainMove
  <2>2. Git!Canonical(l)' = [l EXCEPT !.path = moved[l].path]
    BY <1>5, <2>1 DEF Git!Canonical
  <2>3. QED
    BY <2>1, <2>2, PathMoved
<1>6. ASSUME NEW l \in Git!Locations, Git!PlainMove(l), Git!Canonical(l) = moved[l], canonical'[l] = Git!Nowhere
      PROVE  Git!Canonical(l)' = moved[l]
  <2>1. canonical[l] = Git!Nowhere
    BY <1>1, <1>3, <1>6
  <2>2. QED
    BY <1>6, <2>1 DEF Git!Canonical
<1>7. Git!PlainMove(from) => canonical'[from] # Git!Nowhere
  <2>1. Git!PlainMove(from) => moved[from].path # from.path
    BY <1>1 DEF Git!PlainMove, Git!Locations
  <2>2. QED
    BY <1>1, <1>3, <2>1
<1>8. QED
  BY <1>2, <1>4, <1>5, <1>6, <1>7

LEMMA RedirectKeeps ==
  ASSUME GitConstants, FetchInv, NEW q \in Connections, Git!Redirect(q)
  PROVE  FetchInv'
<1> DEFINE e == fetch[q]
<1>1. e \in FetchBegun /\ e # Git!Idle /\ e.for \in Git!Locations /\ e.at \in Git!Locations
  BY FetchIs DEF Git!Redirect, Git!Sent, FetchInv, Git!TypeOK, FetchBegun
<1>2. UNCHANGED <<specs, gitProxy, moved, landed>> /\ moved[e.at] # e.at
  BY DEF Git!Redirect
<1>0. PICK for \in Git!Locations, from \in Git!Locations : for = e.for /\ from = e.at
  BY <1>1
<1>3. PICK end \in Git!GetEnds :
        IF Git!Followed(q, end)
        THEN /\ canonical' = Git!Remembered(e.at, moved[e.at])
             /\ fetch' = [fetch EXCEPT ![q].at = moved[@], ![q].end = end, ![q].hops = @ + 1]
        ELSE fetch' = [fetch EXCEPT ![q] = Git!Idle] /\ UNCHANGED canonical
  BY DEF Git!Redirect
<1>4. CASE ~Git!Followed(q, end)
  <2>1. fetch' = [fetch EXCEPT ![q] = Git!Idle] /\ UNCHANGED canonical /\ Git!Idle \in Git!Exchange
    BY <1>3, <1>4, FetchIs
  <2>2. fetch'[q] = Git!Idle
    BY <2>1 DEF FetchInv, Git!TypeOK
  <2>3. OnItsWay(q)' /\ IsAllowed(q)'
    BY <2>2 DEF OnItsWay, IsAllowed
  <2>4. Landed' /\ landed' \in [Git!Locations -> {Git!Nowhere} \cup Git!Locations]
    BY <1>2, <2>1 DEF FetchInv, Git!TypeOK, Landed, Git!PlainMove, Git!Canonical
  <2>5. QED
    BY <1>2, <2>1, <2>3, <2>4, OneExchange
<1>5. CASE Git!Followed(q, end)
  <2> DEFINE x == [e EXCEPT !.at = moved[e.at], !.end = end, !.hops = e.hops + 1]
  <2>1. moved[e.at] \in Git!Locations
    BY <1>1 DEF FetchInv, Git!TypeOK, GitConstants
  <2>2. /\ e.hops < MaxHops
        /\ Allowed(moved[e.at].host, end)
    BY <1>5, GateAllows DEF Git!Followed
  <2>3. x \in FetchBegun /\ x.for = e.for /\ x.at = moved[e.at] /\ x.end = end
    <3>1. e.hops + 1 \in 0 .. MaxHops
      BY <1>1, <2>2 DEF FetchBegun, GitConstants
    <3>2. QED
      BY <1>1, <2>1, <3>1 DEF FetchBegun
  <2>4. fetch' = [fetch EXCEPT ![q] = x] /\ fetch'[q] = x
    BY <1>1, <1>3, <1>5 DEF FetchInv, Git!TypeOK, FetchBegun
  <2> HIDE DEF x
  <2>5. canonical' = Git!Remembered(e.at, moved[e.at])
    BY <1>3, <1>5
  <2>6. /\ canonical' \in [Git!Locations -> {Git!Nowhere} \cup Paths] /\ Remembers'
        /\ \A l \in Git!Locations : Git!PlainMove(l) /\ Git!Canonical(l) = moved[l] => Git!Canonical(l)' = moved[l]
        /\ Git!PlainMove(from) => Git!Canonical(from)' = moved[from]
    <3>1. moved[from] # from /\ moved' = moved /\ canonical' = Git!Remembered(from, moved[from])
      BY <1>2, <1>0, <2>5
    <3>2. QED
      BY <3>1, RememberedIs
  <2>7. Git!TypeOK'
    BY <1>2, <2>3, <2>4, <2>6, FetchIs DEF FetchInv, Git!TypeOK
  <2>8. Landed'
    BY <1>2, <2>6 DEF FetchInv, Landed, Git!PlainMove
  <2>9. ASSUME NEW p \in Connections \ {q} PROVE OnItsWay(p)' /\ IsAllowed(p)'
    <3>1. fetch'[p] = fetch[p]
      BY <2>4 DEF FetchInv, Git!TypeOK
    <3>2. fetch[p] # Git!Idle => fetch[p].for \in Git!Locations
      BY FetchIs DEF FetchInv, Git!TypeOK, FetchBegun
    <3>3. QED
      BY <1>2, <2>6, <3>1, <3>2 DEF FetchInv, OnItsWay, IsAllowed, Git!PlainMove, Allowed,
           Git!Prepared
  <2>10. OnItsWay(q)'
    <3>1. Git!PlainMove(for) => from = for
      BY <1>1, <1>2, <1>0 DEF FetchInv, OnItsWay, Git!PlainMove
    <3>2. fetch'[q].for = for /\ fetch'[q].at = moved[from] /\ moved' = moved
      BY <1>2, <1>0, <2>3, <2>4
    <3>3. Git!PlainMove(for)' <=> Git!PlainMove(for)
      BY <3>2 DEF Git!PlainMove
    <3>4. Git!PlainMove(for) => Git!Canonical(for)' = moved[for]
      BY <2>6, <3>1
    <3>5. QED
      BY <3>1, <3>2, <3>3, <3>4 DEF OnItsWay
  <2>11. IsAllowed(q)'
    BY <1>2, <2>2, <2>3, <2>4 DEF IsAllowed, Allowed, Git!Prepared
  <2>12. QED
    BY <2>6, <2>7, <2>8, <2>9, <2>10, <2>11 DEF FetchInv
<1>6. QED
  BY <1>4, <1>5

LEMMA FetchStep == GitConstants /\ FetchInv /\ [Git!Next]_(Git!vars) => FetchInv'
<1> SUFFICES ASSUME GitConstants, FetchInv, [Git!Next]_(Git!vars) PROVE FetchInv'
  OBVIOUS
<1> USE DEF FetchInv, Git!TypeOK, Remembers, Landed, OnItsWay, IsAllowed, Git!Canonical, Git!PlainMove, Allowed, Git!Prepared
<1>1. CASE UNCHANGED Git!vars
  BY <1>1 DEF Git!vars
<1>2. ASSUME NEW q \in Connections, Git!Over(q) PROVE FetchInv'
  <2>1. fetch'[q] = Git!Idle /\ UNCHANGED <<specs, gitProxy, canonical, moved, landed>>
    BY <1>2 DEF Git!Over
  <2>2. \A p \in Connections \ {q} : fetch'[p] = fetch[p]
    BY <1>2 DEF Git!Over
  <2>3. fetch' \in [Connections -> Git!Exchange]
    BY <1>2, FetchIs DEF Git!Over
  <2>4. QED
    BY <2>1, <2>2, <2>3
<1>3. CASE Git!Close
  BY <1>3, FetchIs DEF Git!Close
<1>4. QED
  BY <1>1, <1>2, <1>3, FetchArrives, AnswerKeeps, RedirectKeeps DEF Git!Next

LEMMA FetchInvariant == Spec => []FetchInv
BY PartsAssumption, GitPart, FetchInit, FetchStep, PTL DEF Git!Spec

(* A credential goes to the forge it is for and no push to a forge that does *)
(* not allow it, whatever the forges redirect to and however the proxy       *)
(* rewrites what it remembers.                                               *)
THEOREM OnlyAllowedGoesOut == Spec => []OnlyWhatIsAllowed
<1>1. FetchInv => OnlyWhatIsAllowed
  BY DEF OnlyWhatIsAllowed, FetchInv, IsAllowed, Allowed, Git!OnlyWhatIsAllowed
<1>2. QED
  BY <1>1, FetchInvariant, PTL

(* The second request of a fetch goes where the first one found the          *)
(* repository, whatever other fetches the proxy answers in between.          *)
THEOREM PackGoesAlong == Spec => PackFollowsRefs
<1> DEFINE Along == \A q \in Connections :
             Git!Begins(q) /\ fetch'[q].end = "fetch pack" =>
               LET l == fetch'[q].for
               IN  Git!PlainMove(l) /\ landed[l] # Git!Nowhere => fetch'[q].at = landed[l]
<1>1. FetchInv /\ [Git!Next]_(Git!vars) => [Along]_(Git!vars)
  <2> SUFFICES ASSUME FetchInv, Git!Next, NEW q \in Connections, Git!Begins(q),
                      Git!PlainMove(fetch'[q].for), landed[fetch'[q].for] # Git!Nowhere
               PROVE  fetch'[q].at = landed[fetch'[q].for]
    BY DEF Git!vars
  <2>1. Git!Arrive(q)
    <3>1. fetch[q].stage = "idle"
      BY FetchIs DEF Git!Begins
    <3>2. ~Git!Close
      BY DEF Git!Close, Git!Begins
    <3>3. ASSUME NEW p \in Connections, Git!Arrive(p) \/ Git!Redirect(p) \/ Git!Answer(p) \/ Git!Over(p) PROVE p = q
      BY <3>3 DEF Git!Arrive, Git!Redirect, Git!Answer, Git!Over, Git!Begins, FetchInv, Git!TypeOK
    <3>4. ~Git!Redirect(q) /\ ~Git!Answer(q) /\ ~Git!Over(q)
      BY <3>1 DEF Git!Redirect, Git!Answer, Git!Over, Git!Sent, Git!Begins
    <3>5. QED
      BY <3>2, <3>3, <3>4 DEF Git!Next
  <2>2. PICK host \in Hosts, path \in Paths \cup {BadPath}, end \in Git!GetEnds \cup Git!PostEnds :
          /\ Git!Gate(host, path, end)
          /\ fetch' = [fetch EXCEPT ![q] =
               [stage |-> "sent", end |-> end, for |-> [host |-> host, path |-> path],
                at |-> Git!Canonical([host |-> host, path |-> path]), hops |-> 0]]
    BY <2>1 DEF Git!Arrive, Git!Begins
  <2> DEFINE l == [host |-> host, path |-> path]
  <2>3. l \in Git!Locations
    BY <2>2 DEF Git!Gate, Git!Locations
  <2>4. fetch'[q].for = l /\ fetch'[q].at = Git!Canonical(l)
    BY <2>2 DEF FetchInv, Git!TypeOK
  <2>5. QED
    BY <2>3, <2>4 DEF FetchInv, Landed
<1>2. QED
  BY <1>1, GitPart, FetchInvariant, PTL DEF Git!Spec, PackFollowsRefs, Git!PackFollowsRefs
=============================================================================
