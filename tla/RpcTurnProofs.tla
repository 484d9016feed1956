---------------------------- MODULE RpcTurnProofs ----------------------------
(***************************************************************************)
(* What holds of a run of any length, with any ceilings: the counts of the *)
(* messages that the engine sends of its own accord.                       *)
(***************************************************************************)
EXTENDS RpcTurn, FiniteSets, FiniteSetTheorems, FunctionTheorems, SequenceTheorems, TLAPS

(* A cut that still waits for its answer keeps the counts apart: it is the   *)
(* reason kept, or the nudge that waits for the agent to settle.             *)
CountInv ==
  /\ cuts \in Nat /\ replies \in Nat /\ loopNudges \in Nat
  /\ replies <= cuts
  /\ nudgePending \/ lastCut => replies < cuts
  /\ loopNudges <= MaxNudges
  /\ nudgePending => loopNudges < MaxNudges

LEMMA InitCounts == Init => CountInv
BY TurnAssumption DEF Init, CountInv

LEMMA CountsUnchanged ==
  CountInv /\ UNCHANGED <<cuts, replies, loopNudges, nudgePending, lastCut>> => CountInv'
BY DEF CountInv

(* pi cannot touch the counts.                                               *)
LEMMA PiKeepsCounts == CountInv /\ (PiWorks \/ PiIsGone) => CountInv'
<1> SUFFICES ASSUME CountInv, PiWorks \/ PiIsGone PROVE CountInv'
  OBVIOUS
<1>1. UNCHANGED <<engine, history>>
  BY DEF PiWorks, PiIsGone, PiReadsPrompt, PiTurnsDown, PiReadsControl, PiBegins,
         PiTakesTurn, PiAnswers, PiSettles, Emits
<1>2. QED
  BY <1>1, CountsUnchanged DEF engine, nudging, history

(* One step of the engine for each kind of line that pi writes.              *)
LEMMA EventsKeepCounts == CountInv /\ HandlesEvent => CountInv'
<1> SUFFICES ASSUME CountInv, HandlesEvent PROVE CountInv'
  OBVIOUS
<1>1. CASE OnRefusal
  BY <1>1, CountsUnchanged DEF OnRefusal, nudging, history
<1>2. ASSUME NEW type, OnStart(type) PROVE CountInv'
  BY <1>2, CountsUnchanged DEF OnStart, nudging, history
<1>3. CASE OnMessageEnd
  <2> DEFINE cut     == Head(fromPi).cut
             circles == /\ Hits(Slid(Append(bloatWindow, Head(fromPi).bloated))) >= BloatHits
                        /\ MayNudge
             steer   == circles /\ ~cut /\ CanSend
  <2>1. /\ lastCut' <=> cut
        /\ cuts' = cuts + (IF cut THEN 1 ELSE 0)
        /\ nudgePending' <=> nudgePending \/ (circles /\ cut)
        /\ loopNudges' = loopNudges + (IF steer THEN 1 ELSE 0)
        /\ replies' = replies
    BY <1>3 DEF OnMessageEnd
  <2>2. circles => loopNudges < MaxNudges /\ ~nudgePending
    BY DEF MayNudge
  <2>3. steer => circles /\ ~cut
    OBVIOUS
  <2> HIDE DEF cut, circles, steer
  <2>4. CASE cut
    BY <2>1, <2>2, <2>3, <2>4, TurnAssumption DEF CountInv
  <2>5. CASE ~cut
    BY <2>1, <2>2, <2>3, <2>5, TurnAssumption DEF CountInv
  <2>6. QED
    BY <2>4, <2>5
<1>4. CASE SettledNudge
  <2>1. /\ nudgePending /\ ~nudgePending' /\ cuts' = cuts
        /\ loopNudges' = loopNudges + (IF CanSend THEN 1 ELSE 0)
        /\ replies' = replies + (IF CanSend THEN 1 ELSE 0)
        /\ lastCut' <=> lastCut /\ ~CanSend
    BY <1>4 DEF SettledNudge, OnSettled
  <2>2. QED
    BY <2>1, TurnAssumption DEF CountInv
<1>5. CASE SettledRecover
  <2>1. /\ lastCut /\ ~nudgePending /\ (nudgePending' <=> nudgePending)
        /\ cuts' = cuts /\ loopNudges' = loopNudges
        /\ replies' = replies + (IF CanSend THEN 1 ELSE 0)
        /\ lastCut' <=> lastCut /\ ~CanSend
    BY <1>5 DEF SettledRecover, OnSettled, Recovers, ReasonAnswered
  <2>2. QED
    BY <2>1 DEF CountInv
<1>6. CASE SettledOver
  BY <1>6, CountsUnchanged DEF SettledOver, OnSettled
<1>7. QED
  BY <1>1, <1>2, <1>3, <1>4, <1>5, <1>6 DEF HandlesEvent

LEMMA StepKeepsCounts == CountInv /\ [Next]_vars => CountInv'
<1> SUFFICES ASSUME CountInv, [Next]_vars PROVE CountInv'
  OBVIOUS
<1>1. CASE PiWorks \/ PiIsGone
  BY <1>1, PiKeepsCounts
<1>2. CASE HandlesEvent
  BY <1>2, EventsKeepCounts
<1>3. CASE GiveUpWaiting \/ CloseSession \/ Return
  BY <1>3, CountsUnchanged DEF GiveUpWaiting, CloseSession, Return, nudging, history
<1>4. CASE UserSteers \/ UserAborts
  BY <1>4, CountsUnchanged DEF UserSteers, UserAborts, nudging, history
<1>5. CASE UNCHANGED vars
  BY <1>5, CountsUnchanged DEF vars, engine, nudging, history
<1>6. QED
  BY <1>1, <1>2, <1>3, <1>4, <1>5 DEF Next, Engine

THEOREM CountsInvariant == Spec => []CountInv
BY InitCounts, StepKeepsCounts, PTL DEF Spec

(* Continuations and nudges sent to a settled agent never outnumber the      *)
(* answers that were cut off, whatever the ceilings and however long the     *)
(* run: each cut is answered by one message at most.                         *)
THEOREM OneMessagePerCutHolds == Spec => []OneMessagePerCut
<1>1. CountInv => OneMessagePerCut
  BY DEF CountInv, OneMessagePerCut
<1>2. QED
  BY <1>1, CountsInvariant, PTL

(* The engine never interrupts a run more than MAX_LOOP_NUDGES times, counting *)
(* the nudge that waits for the agent to settle.                             *)
THEOREM NudgesAreFewHolds == Spec => []NudgesAreFew
<1>1. CountInv => NudgesAreFew
  BY TurnAssumption DEF CountInv, NudgesAreFew
<1>2. QED
  BY <1>1, CountsInvariant, PTL
-----------------------------------------------------------------------------
(* The types.  The counters of the engine are behind those of pi by what is  *)
(* still in the pipe, and by the answer pi is at.                            *)
Positions(s, type) == {i \in DOMAIN s : s[i].type = type}
Count(s, type)     == Cardinality(Positions(s, type))

OwedInv ==
  /\ turns \in Nat /\ usage \in Nat
  /\ turns + Count(fromPi, "turn_start") <= begun
  /\ usage + Count(fromPi, "message_end") + (IF pi = "turn" THEN 1 ELSE 0) <= begun

TypeInv == TypeOK /\ OwedInv

LEMMA CountType ==
  ASSUME NEW s \in Seq(Events), NEW type
  PROVE  IsFiniteSet(Positions(s, type)) /\ Count(s, type) \in Nat
<1>1. DOMAIN s = 1 .. Len(s) /\ Len(s) \in Int
  BY LenProperties
<1>2. IsFiniteSet(1 .. Len(s)) /\ Positions(s, type) \in SUBSET (1 .. Len(s))
  BY <1>1, FS_Interval, 1 \in Int DEF Positions
<1>3. QED
  BY <1>2, FS_Subset, FS_CardinalityType DEF Count

LEMMA CountEmpty == ASSUME NEW type PROVE Count(<<>>, type) = 0
<1>1. Positions(<<>>, type) = {}
  BY DEF Positions
<1>2. QED
  BY <1>1, FS_EmptySet DEF Count

LEMMA CountAppend ==
  ASSUME NEW s \in Seq(Events), NEW e \in Events, NEW type
  PROVE  Count(Append(s, e), type) = Count(s, type) + (IF e.type = type THEN 1 ELSE 0)
<1>1. /\ Len(s) \in Nat /\ DOMAIN s = 1 .. Len(s) /\ DOMAIN Append(s, e) = 1 .. Len(s) + 1
      /\ \A i \in 1 .. Len(s) : Append(s, e)[i] = s[i]
      /\ Append(s, e)[Len(s) + 1] = e
  BY LenProperties, AppendProperties
<1>2. IsFiniteSet(Positions(s, type)) /\ Count(s, type) \in Nat
  BY CountType
<1>3. CASE e.type = type
  <2>1. Positions(Append(s, e), type) = Positions(s, type) \cup {Len(s) + 1}
    BY <1>1, <1>3 DEF Positions
  <2>2. Len(s) + 1 \notin Positions(s, type)
    BY <1>1 DEF Positions
  <2>3. QED
    BY <1>2, <1>3, <2>1, <2>2, FS_AddElement DEF Count
<1>4. CASE e.type # type
  <2>1. Positions(Append(s, e), type) = Positions(s, type)
    BY <1>1, <1>4 DEF Positions
  <2>2. QED
    BY <1>2, <1>4, <2>1 DEF Count
<1>5. QED
  BY <1>3, <1>4

LEMMA CountTail ==
  ASSUME NEW s \in Seq(Events), s # <<>>, NEW type
  PROVE  Count(s, type) = Count(Tail(s), type) + (IF Head(s).type = type THEN 1 ELSE 0)
<1> DEFINE later == Positions(s, type) \ {1}
           back  == [i \in later |-> i - 1]
<1>1. /\ Len(s) \in Nat \ {0} /\ DOMAIN s = 1 .. Len(s)
      /\ Tail(s) \in Seq(Events) /\ DOMAIN Tail(s) = 1 .. Len(s) - 1
      /\ \A i \in 1 .. Len(s) - 1 : Tail(s)[i] = s[i + 1]
      /\ Head(s) = s[1]
  BY LenProperties, HeadTailProperties, EmptySeq
<1>2. /\ IsFiniteSet(Positions(s, type)) /\ Count(s, type) \in Nat
      /\ Count(Tail(s), type) \in Nat
  BY <1>1, CountType
<1>3. IsFiniteSet(later)
  BY <1>2, FS_RemoveElement
<1>4. Cardinality(Positions(Tail(s), type)) = Cardinality(later)
  <2>1. back \in [later -> Positions(Tail(s), type)]
    BY <1>1 DEF Positions
  <2>2. \A a, b \in later : back[a] = back[b] => a = b
    BY <1>1 DEF Positions
  <2>3. \A t \in Positions(Tail(s), type) : \E i \in later : back[i] = t
    <3>1. SUFFICES ASSUME NEW t \in Positions(Tail(s), type)
                   PROVE  t + 1 \in later /\ back[t + 1] = t
      OBVIOUS
    <3>2. t \in 1 .. Len(s) - 1 /\ s[t + 1].type = type
      BY <1>1 DEF Positions
    <3>3. t + 1 \in later
      BY <1>1, <3>2 DEF Positions
    <3>4. QED
      BY <1>1, <3>2, <3>3
  <2>4. back \in Bijection(later, Positions(Tail(s), type))
    <3> HIDE DEF back, later
    <3>1. QED
      BY <2>1, <2>2, <2>3, Fun_IsBij
  <2>5. QED
    BY <1>3, <2>4, FS_Bijection DEF ExistsBijection
<1>5. CASE Head(s).type = type
  <2>1. 1 \in Positions(s, type)
    BY <1>1, <1>5 DEF Positions
  <2>2. Cardinality(later) = Count(s, type) - 1
    BY <1>2, <2>1, FS_RemoveElement DEF Count
  <2>3. QED
    BY <1>2, <1>4, <1>5, <2>2 DEF Count
<1>6. CASE Head(s).type # type
  <2>1. later = Positions(s, type)
    BY <1>1, <1>6 DEF Positions
  <2>2. Cardinality(later) = Count(s, type)
    BY <2>1 DEF Count
  <2>3. Count(Tail(s), type) = Cardinality(later)
    BY <1>4 DEF Count
  <2>4. QED
    BY <1>2, <1>6, <2>2, <2>3
<1>7. QED
  BY <1>5, <1>6

LEMMA InitTypes == Init => TypeInv
<1> SUFFICES ASSUME Init PROVE TypeInv
  OBVIOUS
<1>1. toPi \in Seq(Commands) /\ fromPi \in Seq(Events) /\ bloatWindow \in Seq(BOOLEAN)
  BY EmptySeq DEF Init, Commands, Origins
<1>2. Len(bloatWindow) <= BloatWindow
  BY EmptySeq, TurnAssumption DEF Init
<1>3. TypeOK
  <2>1. /\ pi \in {"idle", "starting", "between", "turn", "gone"} /\ doing \in Origins
        /\ begun \in 0 .. TurnBound /\ turningDown \subseteq Origins
        /\ phase \in {"running", "closing", "returned"}
    BY TurnAssumption DEF Init, Origins
  <2>2. {settled, aborted, budgetStop, lastCut, recoverySent, nudgeSent, nudgePending} \subseteq BOOLEAN
    BY DEF Init
  <2>3. /\ consecutive \in Nat /\ loopNudges \in Nat /\ cuts \in Nat /\ replies \in Nat
        /\ turns \in 0 .. TurnBound /\ usage \in 0 .. TurnBound + 1 /\ steers \in 0 .. SteerBound
    BY TurnAssumption DEF Init
  <2>4. QED
    BY <1>1, <1>2, <2>1, <2>2, <2>3 DEF TypeOK
<1>4. OwedInv
  BY CountEmpty DEF Init, OwedInv
<1>5. QED
  BY <1>3, <1>4 DEF TypeInv

(* A command that is not a prompt asks for no run; a prompt is the engine's  *)
(* or the user's, or a nudge to be queued.                                   *)
LEMMA CommandIs ==
  ASSUME NEW c \in Commands, c.type = "prompt"
  PROVE  /\ c.of \in Origins /\ Refusal(c.of) \in Events
         /\ c = Prompt(c.of) \/ (c.of = "nudge" /\ c.steering)
BY DEF Commands, Prompt, SteeringNudge, Steer, Abort, Events, Origins

LEMMA EventsAre ==
  /\ \A of \in Origins : Refusal(of) \in Events /\ Refusal(of).type = "response"
  /\ \A t \in {"agent_start", "turn_start", "agent_settled"} : Event(t) \in Events /\ Event(t).type = t
  /\ \A cut, bloated \in BOOLEAN :
       MessageEnd(cut, bloated) \in Events /\ MessageEnd(cut, bloated).type = "message_end"
<1>1. \A of \in Origins : Refusal(of) \in Events /\ Refusal(of).type = "response"
  BY DEF Events, Refusal
<1>2. \A t \in {"agent_start", "turn_start", "agent_settled"} : Event(t) \in Events /\ Event(t).type = t
  BY DEF Events, Event
<1>3. \A cut, bloated \in BOOLEAN : MessageEnd(cut, bloated) \in Events
  BY DEF Events
<1>4. \A cut, bloated : MessageEnd(cut, bloated).type = "message_end"
  BY DEF MessageEnd
<1>5. QED
  BY <1>1, <1>2, <1>3, <1>4

(* One event at the end of the pipe.                                         *)
LEMMA OneEmitted ==
  ASSUME fromPi \in Seq(Events), NEW e \in Events, fromPi' = fromPi \o <<e>>
  PROVE  fromPi' = Append(fromPi, e) /\ fromPi' \in Seq(Events)
BY ConcatProperties, AppendProperties

LEMMA TwoAppended ==
  ASSUME NEW s \in Seq(Events), NEW e \in Events, NEW f \in Events
  PROVE  s \o << e, f >> = Append(Append(s, e), f) /\ s \o << e, f >> \in Seq(Events)
<1>1. << e, f >> = Append(<< e >>, f) /\ << e, f >> \in Seq(Events) /\ << e >> \in Seq(Events)
  OBVIOUS
<1>2. s \o << e, f >> \in Seq(Events)
  BY <1>1, ConcatProperties
<1>3. /\ Append(s, e) \in Seq(Events) /\ Append(Append(s, e), f) \in Seq(Events)
      /\ Len(Append(Append(s, e), f)) = Len(s) + 2
      /\ Len(s \o << e, f >>) = Len(s) + 2 /\ Len(s) \in Nat
  BY <1>1, ConcatProperties, AppendProperties, LenProperties
<1>4. ASSUME NEW i \in 1 .. Len(s) + 2 PROVE (s \o << e, f >>)[i] = Append(Append(s, e), f)[i]
  BY <1>1, <1>3
<1>5. QED
  BY <1>2, <1>3, <1>4, SeqEqual

LEMMA NoneEmitted ==
  ASSUME fromPi \in Seq(Events), fromPi' = fromPi \o <<>>
  PROVE  fromPi' = fromPi
BY ConcatEmptySeq

LEMMA CountOfOther ==
  ASSUME NEW s \in Seq(Events), NEW e \in Events, NEW type, e.type # type
  PROVE  Count(Append(s, e), type) = Count(s, type)
BY CountAppend, CountType

LEMMA PiStepTypes ==
  ASSUME TypeInv, UNCHANGED <<engine, steers, history>>,
         pi' \in {"idle", "starting", "between", "turn", "gone"},
         doing' \in Origins, begun' \in 0 .. TurnBound, turningDown' \subseteq Origins,
         toPi' \in Seq(Commands), fromPi' \in Seq(Events), OwedInv'
  PROVE  TypeInv'
BY DEF TypeInv, TypeOK, engine, stops, nudging, history

LEMMA PiKeepsTypes == TypeInv /\ (PiWorks \/ PiIsGone) => TypeInv'
<1> SUFFICES ASSUME TypeInv, PiWorks \/ PiIsGone PROVE TypeInv'
  OBVIOUS
<1>1. UNCHANGED <<engine, steers, history>>
  BY DEF PiWorks, PiIsGone, PiReadsPrompt, PiTurnsDown, PiReadsControl, PiBegins,
         PiTakesTurn, PiAnswers, PiSettles, Emits
<1>2. turns' = turns /\ usage' = usage
  BY <1>1 DEF engine
<1>3. /\ fromPi \in Seq(Events) /\ toPi \in Seq(Commands) /\ doing \in Origins
      /\ begun \in 0 .. TurnBound /\ turningDown \subseteq Origins /\ OwedInv
  BY DEF TypeInv, TypeOK
<1>4. toPi # <<>> => Head(toPi) \in Commands /\ Tail(toPi) \in Seq(Commands)
  BY <1>3, HeadTailProperties
<1>5. \A type : Count(fromPi, type) \in Nat
  BY <1>3, CountType
<1>6. CASE PiReadsPrompt
  <2>1. /\ toPi' \in Seq(Commands) /\ begun' = begun
        /\ Head(toPi).of \in Origins /\ Refusal(Head(toPi).of) \in Events
    BY <1>4, <1>6, CommandIs DEF PiReadsPrompt
  <2>2. /\ pi' = pi \/ pi' = "starting"
        /\ doing' \in Origins /\ turningDown' \subseteq Origins
        /\ fromPi' = fromPi \o <<>> \/ fromPi' = fromPi \o << Refusal(Head(toPi).of) >>
    BY <1>3, <1>6, <2>1 DEF PiReadsPrompt, Emits
  <2>3. CASE fromPi' = fromPi \o <<>>
    <3>1. fromPi' = fromPi
      BY <1>3, <2>3, NoneEmitted
    <3>2. OwedInv'
      BY <1>2, <1>3, <1>5, <2>1, <2>2, <3>1 DEF OwedInv
    <3>3. QED
      BY <1>1, <1>3, <2>1, <2>2, <3>1, <3>2, PiStepTypes DEF TypeInv, TypeOK
  <2>4. CASE fromPi' = fromPi \o << Refusal(Head(toPi).of) >>
    <3>1. fromPi' = Append(fromPi, Refusal(Head(toPi).of)) /\ fromPi' \in Seq(Events)
      BY <1>3, <2>1, <2>4, OneEmitted
    <3>2. Count(fromPi', "turn_start") = Count(fromPi, "turn_start")
          /\ Count(fromPi', "message_end") = Count(fromPi, "message_end")
      BY <1>3, <2>1, <3>1, CountOfOther, EventsAre
    <3>3. OwedInv'
      BY <1>2, <1>3, <1>5, <2>1, <2>2, <3>2 DEF OwedInv
    <3>4. QED
      BY <1>1, <1>3, <2>1, <2>2, <3>1, <3>3, PiStepTypes DEF TypeInv, TypeOK
  <2>5. QED
    BY <2>2, <2>3, <2>4
<1>7. CASE PiTurnsDown
  <2>1. PICK of \in turningDown : turningDown' = turningDown \ {of} /\ fromPi' = fromPi \o << Refusal(of) >>
    BY <1>7 DEF PiTurnsDown, Emits
  <2>2. of \in Origins /\ UNCHANGED <<pi, doing, begun, toPi>>
    BY <1>3, <1>7 DEF PiTurnsDown
  <2>3. fromPi' = Append(fromPi, Refusal(of)) /\ fromPi' \in Seq(Events)
    BY <1>3, <2>1, <2>2, OneEmitted, EventsAre
  <2>4. Count(fromPi', "turn_start") = Count(fromPi, "turn_start")
        /\ Count(fromPi', "message_end") = Count(fromPi, "message_end")
    BY <1>3, <2>2, <2>3, CountOfOther, EventsAre
  <2>5. OwedInv'
    BY <1>2, <1>3, <1>5, <2>2, <2>4 DEF OwedInv
  <2>6. QED
    BY <1>1, <1>3, <2>1, <2>2, <2>3, <2>5, PiStepTypes DEF TypeInv, TypeOK
<1>8. CASE PiReadsControl
  <2>1. toPi' \in Seq(Commands) /\ UNCHANGED <<doing, begun, turningDown>>
    BY <1>4, <1>8 DEF PiReadsControl
  <2>2. \/ pi' = pi /\ fromPi' = fromPi \o <<>>
        \/ pi' = "idle" /\ fromPi' = fromPi \o << Event("agent_settled") >>
        \/ /\ pi' = "idle" /\ pi = "turn"
           /\ fromPi' = fromPi \o << MessageEnd(FALSE, FALSE), Event("agent_settled") >>
    BY <1>8 DEF PiReadsControl, Emits
  <2>3. pi' \in {"idle", "starting", "between", "turn", "gone"}
    BY <2>2 DEF TypeInv, TypeOK
  <2>4. CASE pi' = pi /\ fromPi' = fromPi \o <<>>
    <3>1. fromPi' = fromPi
      BY <1>3, <2>4, NoneEmitted
    <3>2. OwedInv'
      BY <1>2, <1>3, <1>5, <2>1, <2>4, <3>1 DEF OwedInv
    <3>3. QED
      BY <1>1, <1>3, <2>1, <2>3, <3>1, <3>2, PiStepTypes
  <2>5. CASE pi' = "idle" /\ fromPi' = fromPi \o << Event("agent_settled") >>
    <3>1. fromPi' = Append(fromPi, Event("agent_settled")) /\ fromPi' \in Seq(Events)
      BY <1>3, <2>5, OneEmitted, EventsAre
    <3>2. Count(fromPi', "turn_start") = Count(fromPi, "turn_start")
          /\ Count(fromPi', "message_end") = Count(fromPi, "message_end")
      BY <1>3, <1>5, <3>1, CountAppend, EventsAre
    <3>3. OwedInv'
      BY <1>2, <1>3, <1>5, <2>1, <2>5, <3>2 DEF OwedInv
    <3>4. QED
      BY <1>1, <1>3, <2>1, <2>3, <3>1, <3>3, PiStepTypes
  <2>6. CASE /\ pi' = "idle" /\ pi = "turn"
             /\ fromPi' = fromPi \o << MessageEnd(FALSE, FALSE), Event("agent_settled") >>
    <3>1. PICK answer \in Events, over \in Events :
            /\ answer = MessageEnd(FALSE, FALSE) /\ over = Event("agent_settled")
            /\ answer.type = "message_end" /\ over.type = "agent_settled"
      BY EventsAre
    <3>2. fromPi' = fromPi \o << answer, over >>
      BY <2>6, <3>1
    <3>3. PICK longer \in Seq(Events) : longer = Append(fromPi, answer)
      BY <1>3, AppendProperties
    <3>4. fromPi' = Append(longer, over) /\ fromPi' \in Seq(Events)
      BY <1>3, <3>2, <3>3, TwoAppended
    <3>5. /\ Count(longer, "turn_start") = Count(fromPi, "turn_start")
          /\ Count(longer, "message_end") = Count(fromPi, "message_end") + 1
      <4>1. Count(longer, "turn_start") = Count(fromPi, "turn_start")
        BY <1>3, <3>1, <3>3, CountOfOther
      <4>2. Count(longer, "message_end")
              = Count(fromPi, "message_end") + (IF answer.type = "message_end" THEN 1 ELSE 0)
        BY <1>3, <3>3, CountAppend
      <4>3. QED
        BY <3>1, <4>1, <4>2
    <3>6. /\ Count(fromPi', "turn_start") = Count(longer, "turn_start")
          /\ Count(fromPi', "message_end") = Count(longer, "message_end")
      BY <3>1, <3>4, CountOfOther
    <3>7. OwedInv'
      BY <1>2, <1>3, <1>5, <2>1, <2>6, <3>5, <3>6 DEF OwedInv
    <3>8. QED
      BY <1>1, <1>3, <2>1, <2>3, <3>4, <3>7, PiStepTypes
  <2>7. QED
    BY <2>2, <2>4, <2>5, <2>6
<1>9. ASSUME PiBegins \/ PiTakesTurn \/ PiAnswers \/ PiSettles PROVE TypeInv'
  <2>1. /\ UNCHANGED <<doing, turningDown, toPi>>
        /\ \E e \in Events :
             /\ fromPi' = fromPi \o << e >>
             /\ \/ pi = "starting" /\ pi' = "between" /\ begun' = begun /\ e.type = "agent_start"
                \/ pi = "between" /\ pi' = "turn" /\ begun < TurnBound /\ begun' = begun + 1 /\ e.type = "turn_start"
                \/ pi = "turn" /\ pi' = "between" /\ begun' = begun /\ e.type = "message_end"
                \/ pi = "between" /\ pi' = "idle" /\ begun' = begun /\ e.type = "agent_settled"
    BY <1>9, EventsAre DEF PiBegins, PiTakesTurn, PiAnswers, PiSettles, Emits
  <2>2. PICK e \in Events :
             /\ fromPi' = fromPi \o << e >>
             /\ \/ pi = "starting" /\ pi' = "between" /\ begun' = begun /\ e.type = "agent_start"
                \/ pi = "between" /\ pi' = "turn" /\ begun < TurnBound /\ begun' = begun + 1 /\ e.type = "turn_start"
                \/ pi = "turn" /\ pi' = "between" /\ begun' = begun /\ e.type = "message_end"
                \/ pi = "between" /\ pi' = "idle" /\ begun' = begun /\ e.type = "agent_settled"
    BY <2>1
  <2>3. fromPi' = Append(fromPi, e) /\ fromPi' \in Seq(Events)
    BY <1>3, <2>2, OneEmitted
  <2>4. \A type : Count(fromPi', type) = Count(fromPi, type) + (IF e.type = type THEN 1 ELSE 0)
    BY <1>3, <2>3, CountAppend
  <2>5. OwedInv'
    <3>1. /\ Count(fromPi', "turn_start")
               = Count(fromPi, "turn_start") + (IF e.type = "turn_start" THEN 1 ELSE 0)
          /\ Count(fromPi', "message_end")
               = Count(fromPi, "message_end") + (IF e.type = "message_end" THEN 1 ELSE 0)
          /\ Count(fromPi, "turn_start") \in Nat /\ Count(fromPi, "message_end") \in Nat
      BY <1>5, <2>4
    <3>2. /\ turns' = turns /\ usage' = usage /\ begun \in Nat /\ turns \in Nat /\ usage \in Nat
          /\ turns + Count(fromPi, "turn_start") <= begun
          /\ usage + Count(fromPi, "message_end") + (IF pi = "turn" THEN 1 ELSE 0) <= begun
      BY <1>2, <1>3, TurnAssumption DEF OwedInv
    <3>3. QED
      BY <2>2, <3>1, <3>2 DEF OwedInv
  <2>6. begun' \in 0 .. TurnBound /\ pi' \in {"idle", "starting", "between", "turn", "gone"}
    BY <1>3, <2>2, TurnAssumption
  <2>7. QED
    BY <1>1, <1>3, <2>1, <2>3, <2>5, <2>6, PiStepTypes
<1>10. CASE PiIsGone
  <2>1. OwedInv'
    BY <1>2, <1>3, <1>5, <1>10 DEF PiIsGone, OwedInv
  <2>2. QED
    BY <1>1, <1>3, <1>10, <2>1, PiStepTypes DEF PiIsGone
<1>11. QED
  BY <1>6, <1>7, <1>8, <1>9, <1>10 DEF PiWorks

LEMMA SentTypes ==
  ASSUME NEW sent \in Seq(Commands), toPi \in Seq(Commands), budgetStop \in BOOLEAN,
         SendAndCheckBudget(sent)
  PROVE  toPi' \in Seq(Commands) /\ budgetStop' \in BOOLEAN
<1>1. PICK abort \in Seq(Commands) : toPi' = (toPi \o sent) \o abort
  <2>1. <<>> \in Seq(Commands) /\ << Abort >> \in Seq(Commands)
    BY EmptySeq DEF Commands
  <2>2. QED
    BY <2>1 DEF SendAndCheckBudget
<1>2. QED
  BY <1>1, ConcatProperties DEF SendAndCheckBudget

LEMMA SentAre ==
  /\ <<>> \in Seq(Commands) /\ << SteeringNudge >> \in Seq(Commands)
  /\ \A of \in Origins : << Prompt(of) >> \in Seq(Commands)
  /\ << Steer >> \in Seq(Commands) /\ << Abort >> \in Seq(Commands)
BY DEF Commands

(* The engine takes an event out of the pipe, and pi is where it was.        *)
LEMMA ReadTypes ==
  ASSUME TypeInv, NEW type, Reads(type)
  PROVE  /\ fromPi' \in Seq(Events) /\ Head(fromPi) \in Events /\ Head(fromPi).type = type
         /\ UNCHANGED <<pi, doing, begun, turningDown, phase, aborted, steers>>
         /\ \A t : Count(fromPi', t) \in Nat
                    /\ Count(fromPi, t) = Count(fromPi', t) + (IF type = t THEN 1 ELSE 0)
<1>1. /\ fromPi \in Seq(Events) /\ fromPi # <<>> /\ fromPi' = Tail(fromPi) /\ Head(fromPi).type = type
      /\ UNCHANGED <<pi, doing, begun, turningDown, phase, aborted, steers>>
  BY DEF TypeInv, TypeOK, Reads, piVars
<1>2. fromPi' \in Seq(Events) /\ Head(fromPi) \in Events
  BY <1>1, HeadTailProperties
<1>3. ASSUME NEW t PROVE Count(fromPi', t) \in Nat
                    /\ Count(fromPi, t) = Count(fromPi', t) + (IF type = t THEN 1 ELSE 0)
  BY <1>1, <1>2, CountType, CountTail
<1>4. QED
  BY <1>1, <1>2, <1>3

LEMMA ReadOwed ==
  ASSUME TypeInv, NEW type, Reads(type),
         turns' = turns + (IF type = "turn_start" THEN 1 ELSE 0),
         usage' = usage + (IF type = "message_end" THEN 1 ELSE 0)
  PROVE  OwedInv'
<1>1. /\ Count(fromPi', "turn_start") \in Nat /\ Count(fromPi', "message_end") \in Nat
      /\ Count(fromPi, "turn_start")
           = Count(fromPi', "turn_start") + (IF type = "turn_start" THEN 1 ELSE 0)
      /\ Count(fromPi, "message_end")
           = Count(fromPi', "message_end") + (IF type = "message_end" THEN 1 ELSE 0)
      /\ pi' = pi /\ begun' = begun
  BY ReadTypes
<1>2. begun \in Nat /\ OwedInv
  BY TurnAssumption DEF TypeInv, TypeOK
<1>3. CASE type = "turn_start"
  BY <1>1, <1>2, <1>3 DEF OwedInv
<1>4. CASE type = "message_end"
  BY <1>1, <1>2, <1>4 DEF OwedInv
<1>5. CASE type # "turn_start" /\ type # "message_end"
  BY <1>1, <1>2, <1>5 DEF OwedInv
<1>6. QED
  BY <1>3, <1>4, <1>5

LEMMA EngineStepTypes ==
  ASSUME TypeInv, UNCHANGED <<pi, doing, begun, turningDown>>, steers' \in 0 .. SteerBound,
         toPi' \in Seq(Commands), fromPi' \in Seq(Events),
         phase' \in {"running", "closing", "returned"},
         settled' \in BOOLEAN, aborted' \in BOOLEAN, budgetStop' \in BOOLEAN, lastCut' \in BOOLEAN,
         recoverySent' \in BOOLEAN, nudgeSent' \in BOOLEAN, nudgePending' \in BOOLEAN,
         consecutive' \in Nat, loopNudges' \in Nat, cuts' \in Nat, replies' \in Nat,
         bloatWindow' \in Seq(BOOLEAN), Len(bloatWindow') <= BloatWindow, OwedInv'
  PROVE  TypeInv'
<1>1. begun \in 0 .. TurnBound /\ pi \in {"idle", "starting", "between", "turn", "gone"}
      /\ doing \in Origins /\ turningDown \subseteq Origins
  BY DEF TypeInv, TypeOK
<1>2. turns' \in 0 .. TurnBound /\ usage' \in 0 .. TurnBound + 1
  <2>1. Count(fromPi', "turn_start") \in Nat /\ Count(fromPi', "message_end") \in Nat
    BY CountType
  <2>2. QED
    BY <1>1, <2>1, TurnAssumption DEF OwedInv
<1>3. {settled, aborted, budgetStop, lastCut, recoverySent, nudgeSent, nudgePending}' \subseteq BOOLEAN
  OBVIOUS
<1>4. QED
  BY <1>1, <1>2, <1>3 DEF TypeInv, TypeOK

LEMMA EngineTypesBefore ==
  ASSUME TypeInv
  PROVE  /\ toPi \in Seq(Commands) /\ fromPi \in Seq(Events) /\ steers \in 0 .. SteerBound
         /\ phase \in {"running", "closing", "returned"}
         /\ settled \in BOOLEAN /\ aborted \in BOOLEAN /\ budgetStop \in BOOLEAN /\ lastCut \in BOOLEAN
         /\ recoverySent \in BOOLEAN /\ nudgeSent \in BOOLEAN /\ nudgePending \in BOOLEAN
         /\ consecutive \in Nat /\ loopNudges \in Nat /\ cuts \in Nat /\ replies \in Nat
         /\ bloatWindow \in Seq(BOOLEAN) /\ Len(bloatWindow) <= BloatWindow
         /\ turns \in Nat /\ usage \in Nat /\ begun \in Nat
         /\ \A t : Count(fromPi, t) \in Nat
         /\ OwedInv
BY CountType, TurnAssumption DEF TypeInv, TypeOK

LEMMA WindowSlides ==
  ASSUME NEW window \in Seq(BOOLEAN), Len(window) <= BloatWindow, NEW bloated \in BOOLEAN
  PROVE  Slid(Append(window, bloated)) \in Seq(BOOLEAN)
         /\ Len(Slid(Append(window, bloated))) <= BloatWindow
<1>1. Append(window, bloated) \in Seq(BOOLEAN) /\ Len(Append(window, bloated)) = Len(window) + 1
      /\ Append(window, bloated) # <<>> /\ Len(window) \in Nat
  BY AppendProperties, LenProperties
<1>2. Tail(Append(window, bloated)) \in Seq(BOOLEAN) /\ Len(Tail(Append(window, bloated))) = Len(window)
  BY <1>1, HeadTailProperties
<1>3. PICK longer : longer = Append(window, bloated)
  OBVIOUS
<1>4. Slid(longer) = longer \/ Slid(longer) = Tail(longer)
  BY DEF Slid
<1>5. BloatWindow \in Nat /\ Len(longer) \in Nat
  BY <1>1, <1>3, TurnAssumption
<1>6. Len(longer) <= BloatWindow => Slid(longer) = longer
  BY <1>5 DEF Slid
<1>7. Len(longer) > BloatWindow => Slid(longer) = Tail(longer)
  BY <1>5 DEF Slid
<1>8. QED
  BY <1>1, <1>2, <1>3, <1>4, <1>5, <1>6, <1>7

LEMMA EventsKeepTypes == TypeInv /\ HandlesEvent => TypeInv'
<1> SUFFICES ASSUME TypeInv, HandlesEvent PROVE TypeInv'
  OBVIOUS
<1> USE EngineTypesBefore
<1>1. CASE OnRefusal
  <2>1. Reads("response")
    BY <1>1 DEF OnRefusal
  <2>2. /\ UNCHANGED <<toPi, budgetStop, lastCut, consecutive, nudging, turns, usage, history>>
        /\ settled' \in BOOLEAN /\ recoverySent' \in BOOLEAN /\ nudgeSent' \in BOOLEAN
    BY <1>1 DEF OnRefusal
  <2>3. OwedInv'
    BY <2>1, <2>2, ReadOwed
  <2>4. QED
    BY <2>1, <2>2, <2>3, ReadTypes, EngineStepTypes DEF nudging, history
<1>2. ASSUME NEW type \in {"agent_start", "turn_start"}, OnStart(type) PROVE TypeInv'
  <2>1. Reads(type)
    BY <1>2 DEF OnStart
  <2>2. /\ UNCHANGED <<lastCut, consecutive, nudging, usage, history>>
        /\ settled' \in BOOLEAN /\ recoverySent' \in BOOLEAN /\ nudgeSent' \in BOOLEAN
        /\ turns' = turns + (IF type = "turn_start" THEN 1 ELSE 0)
    BY <1>2 DEF OnStart
  <2>3. toPi' \in Seq(Commands) /\ budgetStop' \in BOOLEAN
    BY <1>2, SentTypes, SentAre DEF OnStart
  <2>4. OwedInv'
    BY <2>1, <2>2, ReadOwed
  <2>5. QED
    BY <2>1, <2>2, <2>3, <2>4, ReadTypes, EngineStepTypes DEF nudging, history
<1>3. CASE OnMessageEnd
  <2>1. Reads("message_end") /\ Head(fromPi).cut \in BOOLEAN /\ Head(fromPi).bloated \in BOOLEAN
    <3>1. Reads("message_end")
      BY <1>3 DEF OnMessageEnd
    <3>2. Head(fromPi) \in Events /\ Head(fromPi).type = "message_end"
      BY <3>1, ReadTypes
    <3>3. QED
      BY <3>1, <3>2 DEF Events, Refusal, Event, MessageEnd
  <2>2. /\ UNCHANGED <<settled, consecutive, recoverySent, nudgeSent, replies, turns>>
        /\ usage' = usage + 1 /\ lastCut' = Head(fromPi).cut /\ nudgePending' \in BOOLEAN
        /\ cuts' \in Nat /\ loopNudges' \in Nat
        /\ \/ bloatWindow' = <<>>
           \/ bloatWindow' = Slid(Append(bloatWindow, Head(fromPi).bloated))
        /\ SendAndCheckBudget(<<>>) \/ SendAndCheckBudget(<< SteeringNudge >>)
    BY <1>3 DEF OnMessageEnd
  <2>3. toPi' \in Seq(Commands) /\ budgetStop' \in BOOLEAN
    BY <2>2, SentTypes, SentAre
  <2>4. bloatWindow' \in Seq(BOOLEAN) /\ Len(bloatWindow') <= BloatWindow
    <3>1. CASE bloatWindow' = <<>>
      BY <3>1, EmptySeq, TurnAssumption
    <3>2. CASE bloatWindow' = Slid(Append(bloatWindow, Head(fromPi).bloated))
      BY <2>1, <3>2, WindowSlides
    <3>3. QED
      BY <2>2, <3>1, <3>2
  <2>5. OwedInv'
    BY <2>1, <2>2, ReadOwed
  <2>6. QED
    BY <2>1, <2>2, <2>3, <2>4, <2>5, ReadTypes, EngineStepTypes
<1>4. ASSUME SettledNudge \/ SettledRecover \/ SettledOver PROVE TypeInv'
  <2>1. Reads("agent_settled") /\ UNCHANGED <<bloatWindow, turns, usage, cuts>>
    BY <1>4 DEF SettledNudge, SettledRecover, SettledOver, OnSettled
  <2>2. /\ settled' \in BOOLEAN /\ recoverySent' \in BOOLEAN /\ nudgeSent' \in BOOLEAN
        /\ nudgePending' \in BOOLEAN /\ lastCut' \in BOOLEAN
    BY <1>4 DEF SettledNudge, SettledRecover, SettledOver, ReasonAnswered
  <2>3. consecutive' \in Nat /\ loopNudges' \in Nat /\ replies' \in Nat
    BY <1>4 DEF SettledNudge, SettledRecover, SettledOver
  <2>4. \E sent \in Seq(Commands) : SendAndCheckBudget(sent)
    BY <1>4, SentAre DEF SettledNudge, SettledRecover, SettledOver, Origins
  <2>5. toPi' \in Seq(Commands) /\ budgetStop' \in BOOLEAN
    BY <2>4, SentTypes
  <2>6. OwedInv'
    BY <2>1, ReadOwed
  <2>7. QED
    BY <2>1, <2>2, <2>3, <2>5, <2>6, ReadTypes, EngineStepTypes
<1>5. QED
  BY <1>1, <1>2, <1>3, <1>4 DEF HandlesEvent

LEMMA StepKeepsTypes == TypeInv /\ [Next]_vars => TypeInv'
<1> SUFFICES ASSUME TypeInv, [Next]_vars PROVE TypeInv'
  OBVIOUS
<1>1. CASE PiWorks \/ PiIsGone
  BY <1>1, PiKeepsTypes
<1>2. CASE HandlesEvent
  BY <1>2, EventsKeepTypes
<1>3. CASE GiveUpWaiting \/ CloseSession \/ Return
  <2>1. /\ UNCHANGED <<piVars, toPi, fromPi, stops, lastCut, consecutive, nudging, turns, usage, steers, history>>
        /\ phase' \in {"running", "closing", "returned"}
        /\ settled' \in BOOLEAN /\ recoverySent' \in BOOLEAN /\ nudgeSent' \in BOOLEAN
    BY <1>3, EngineTypesBefore DEF GiveUpWaiting, CloseSession, Return
  <2>2. OwedInv'
    BY <2>1, EngineTypesBefore DEF OwedInv, piVars, nudging, history
  <2>3. QED
    BY <2>1, <2>2, EngineTypesBefore, EngineStepTypes DEF piVars, stops, nudging, history
<1>4. CASE UserSteers \/ UserAborts
  <2>1. /\ UNCHANGED <<piVars, fromPi, phase, budgetStop, lastCut, consecutive, recoverySent, nudgeSent,
                       nudging, turns, usage, history>>
        /\ steers' \in 0 .. SteerBound /\ settled' \in BOOLEAN /\ aborted' \in BOOLEAN
    <3>1. CASE UserSteers
      BY <3>1, EngineTypesBefore, TurnAssumption DEF UserSteers, stops
    <3>2. CASE UserAborts
      BY <3>2, EngineTypesBefore DEF UserAborts
    <3>3. QED
      BY <1>4, <3>1, <3>2
  <2>2. PICK sent \in Seq(Commands) : toPi' = toPi \o sent
    BY <1>4, SentAre DEF UserSteers, UserAborts, Origins
  <2>3. toPi' \in Seq(Commands)
    BY <2>2, EngineTypesBefore, ConcatProperties
  <2>4. OwedInv'
    BY <2>1, EngineTypesBefore DEF OwedInv, piVars, nudging, history
  <2>5. QED
    BY <2>1, <2>3, <2>4, EngineTypesBefore, EngineStepTypes DEF piVars, stops, nudging, history
<1>5. CASE UNCHANGED vars
  BY <1>5 DEF vars, piVars, engine, stops, nudging, history, TypeInv, TypeOK, OwedInv
<1>6. QED
  BY <1>1, <1>2, <1>3, <1>4, <1>5 DEF Next, Engine

(* Every variable keeps its type, and the engine never counts a turn or an   *)
(* answer that pi did not begin, however far it is behind in the pipe.       *)
THEOREM Types == Spec => []TypeOK
<1>1. TypeInv => TypeOK
  BY DEF TypeInv
<1>2. QED
  BY <1>1, InitTypes, StepKeepsTypes, PTL DEF Spec
-----------------------------------------------------------------------------
(* No work cut short.  While the run is neither stopped nor over, the two    *)
(* pipes and the flags of the engine fit together: what the engine believes  *)
(* of pi is wrong only in ways that do not end the run.                      *)
Free == phase = "running" /\ pi # "gone" /\ ~aborted /\ ~budgetStop

Has(type)  == \E i \in DOMAIN fromPi : fromPi[i].type = type
Refused    == \E i \in DOMAIN fromPi : fromPi[i] = Refusal("recover")
Asked(of)  == \E i \in DOMAIN toPi : toPi[i] = Prompt(of)

Work       == {"task", "recover"}

(* A message of the engine is in flight, unacknowledged.                     *)
Waiting    == recoverySent \/ nudgeSent
Own        == IF recoverySent THEN "recover" ELSE "nudge"

(* pi is at a run whose start the engine has read.                           *)
Known      == pi \in {"between", "turn"} /\ ~Has("agent_start")

(* A cut answer, read or still in the pipe, asks for a message at the end.   *)
Due        == nudgePending \/ (lastCut /\ consecutive < Retries)
Live       == Due \/ Has("message_end")

(* Without a stop there is no abort on the way; the task is the first        *)
(* command; only a message of the engine is turned down late.                *)
CommandInv ==
  /\ \A i \in DOMAIN toPi : toPi[i] # Abort /\ (toPi[i] = Prompt("task") => i = 1)
  /\ turningDown \subseteq {"recover", "nudge"}

(* An answer takes longer than a line spends in the pipe.                    *)
AnswerFirst == \A i \in DOMAIN fromPi : fromPi[i].type = "message_end" => i = 1

(* A start in the pipe is that of the run pi is at, behind any end.          *)
StartInv ==
  /\ Has("agent_start") => pi \in {"between", "turn"}
  /\ \A i, j \in DOMAIN fromPi :
       fromPi[i].type = "agent_start" /\ fromPi[j].type = "agent_settled" => j < i

(* There is one end in the pipe at most, and behind it only a new run.       *)
OverInv ==
  \A j \in DOMAIN fromPi : fromPi[j].type = "agent_settled" =>
    /\ \A i \in DOMAIN fromPi : i > j => fromPi[i].type # "agent_settled"
    /\ pi \in {"idle", "starting"} => \A i \in DOMAIN fromPi : i > j => fromPi[i].type = "response"
    /\ pi \in {"between", "turn"} => Has("agent_start")

(* The detector is disarmed, and nothing is awaited, while a run whose start *)
(* was read goes on and until its end is read.                               *)
KnownInv == Known \/ Has("agent_settled") => ~settled /\ ~Waiting

(* The detector is disarmed from the moment the task or a continuation is on *)
(* its way, and no end of another run is in the pipe.                        *)
WorkInv ==
  /\ Busy /\ doing \in Work => ~settled /\ ~Has("agent_settled")
  /\ Asked("task") \/ Asked("recover") => pi = "idle" /\ ~settled /\ ~Has("agent_settled")
  /\ Asked("task") => ~Waiting /\ fromPi = <<>> /\ turningDown = {} /\ ~Due

(* A message of the engine meets an agent at rest, and nothing else.         *)
WaitInv ==
  Waiting =>
    /\ ~(recoverySent /\ nudgeSent) /\ ~settled
    /\ \A i \in DOMAIN toPi : toPi[i] = Steer \/ toPi[i] = Prompt(Own)
    /\ \A i \in DOMAIN fromPi :
         \/ fromPi[i] = Refusal("nudge") \/ fromPi[i] = Refusal(Own)
         \/ Busy /\ (fromPi[i].type = "agent_start" \/ fromPi[i].type = "turn_start")
    /\ Busy => doing = Own

(* A continuation is in one place: asked for, about to be refused, refused.  *)
TokenInv ==
  /\ \A i, j \in DOMAIN toPi : toPi[i] = Prompt("recover") /\ toPi[j] = Prompt("recover") => i = j
  /\ \A i, j \in DOMAIN fromPi :
       fromPi[i] = Refusal("recover") /\ fromPi[j] = Refusal("recover") => i = j
  /\ Asked("recover") \/ "recover" \in turningDown \/ Refused => recoverySent /\ pi = "idle"
  /\ Asked("recover") => "recover" \notin turningDown /\ ~Refused
  /\ "recover" \in turningDown => ~Refused

(* From the answer to the end of its run, nothing else can set pi going.     *)
LiveInv ==
  Live =>
    /\ ~settled /\ ~Waiting
    /\ \A i \in DOMAIN toPi : toPi[i] = Steer
    /\ pi \in {"between", "turn"} \/ (pi = "idle" /\ Has("agent_settled"))
    /\ ~Has("agent_start")
    /\ \A i \in DOMAIN fromPi : fromPi[i].type = "response" => fromPi[i] = Refusal("nudge")

FreeInv ==
  /\ CommandInv /\ AnswerFirst /\ StartInv /\ OverInv
  /\ KnownInv /\ WorkInv /\ WaitInv /\ TokenInv /\ LiveInv

CutInv == Free => FreeInv

(* Places in a pipe after a line is added or taken.                          *)
LEMMA Longer ==
  ASSUME NEW S, NEW s \in Seq(S), NEW e \in S, NEW t, t = s \o << e >>
  PROVE  /\ Len(s) \in Nat /\ DOMAIN s = 1 .. Len(s) /\ DOMAIN t = 1 .. Len(s) + 1
         /\ \A i \in 1 .. Len(s) : t[i] = s[i]
         /\ t[Len(s) + 1] = e
<1>1. << e >> \in Seq(S) /\ Len(<< e >>) = 1 /\ << e >>[1] = e
  OBVIOUS
<1>2. t \in Seq(S) /\ Len(t) = Len(s) + 1 /\ Len(s) \in Nat
  BY <1>1, ConcatProperties, LenProperties
<1>3. \A i \in 1 .. Len(s) + 1 : t[i] = IF i <= Len(s) THEN s[i] ELSE << e >>[i - Len(s)]
  BY <1>1, ConcatProperties
<1>4. DOMAIN s = 1 .. Len(s) /\ DOMAIN t = 1 .. Len(s) + 1
  BY <1>2, LenProperties
<1>5. QED
  BY <1>1, <1>2, <1>3, <1>4

LEMMA Shorter ==
  ASSUME NEW S, NEW s \in Seq(S), s # <<>>, NEW t, t = Tail(s)
  PROVE  /\ Len(s) \in Nat \ {0} /\ DOMAIN s = 1 .. Len(s) /\ DOMAIN t = 1 .. Len(s) - 1
         /\ \A i \in 1 .. Len(s) - 1 : t[i] = s[i + 1]
         /\ Head(s) = s[1]
BY LenProperties, HeadTailProperties, EmptySeq

LEMMA HasLonger ==
  ASSUME fromPi \in Seq(Events), NEW e \in Events, fromPi' = fromPi \o << e >>
  PROVE  /\ \A type : Has(type)' <=> Has(type) \/ e.type = type
         /\ Refused' <=> Refused \/ e = Refusal("recover")
         /\ fromPi' # <<>>
<1>1. /\ Len(fromPi) \in Nat /\ DOMAIN fromPi = 1 .. Len(fromPi) /\ DOMAIN fromPi' = 1 .. Len(fromPi) + 1
      /\ \A i \in 1 .. Len(fromPi) : fromPi'[i] = fromPi[i]
      /\ fromPi'[Len(fromPi) + 1] = e
  BY Longer
<1>2. Len(fromPi) + 1 \in DOMAIN fromPi' /\ \A i \in DOMAIN fromPi' : i \in DOMAIN fromPi \/ i = Len(fromPi) + 1
  BY <1>1
<1>3. \A i \in DOMAIN fromPi : i \in DOMAIN fromPi' /\ fromPi'[i] = fromPi[i]
  BY <1>1
<1>4. QED
  BY <1>1, <1>2, <1>3 DEF Has, Refused

LEMMA HasShorter ==
  ASSUME fromPi \in Seq(Events), fromPi # <<>>, fromPi' = Tail(fromPi)
  PROVE  /\ \A type : Has(type) <=> Has(type)' \/ Head(fromPi).type = type
         /\ Refused <=> Refused' \/ Head(fromPi) = Refusal("recover")
<1>1. /\ Len(fromPi) \in Nat \ {0} /\ DOMAIN fromPi = 1 .. Len(fromPi) /\ DOMAIN fromPi' = 1 .. Len(fromPi) - 1
      /\ \A i \in 1 .. Len(fromPi) - 1 : fromPi'[i] = fromPi[i + 1]
      /\ Head(fromPi) = fromPi[1]
  BY Shorter
<1>2. 1 \in DOMAIN fromPi /\ \A i \in DOMAIN fromPi : i = 1 \/ (i - 1 \in DOMAIN fromPi' /\ fromPi'[i - 1] = fromPi[i])
  BY <1>1
<1>3. \A i \in DOMAIN fromPi' : i + 1 \in DOMAIN fromPi /\ fromPi'[i] = fromPi[i + 1]
  BY <1>1
<1>4. ASSUME NEW type PROVE Has(type) <=> Has(type)' \/ Head(fromPi).type = type
  BY <1>1, <1>2, <1>3 DEF Has
<1>5. Refused <=> Refused' \/ Head(fromPi) = Refusal("recover")
  BY <1>1, <1>2, <1>3 DEF Refused
<1>6. QED
  BY <1>4, <1>5

LEMMA AskedShorter ==
  ASSUME toPi \in Seq(Commands), toPi # <<>>, toPi' = Tail(toPi)
  PROVE  \A of : Asked(of) <=> Asked(of)' \/ Head(toPi) = Prompt(of)
<1>1. /\ Len(toPi) \in Nat \ {0} /\ DOMAIN toPi = 1 .. Len(toPi) /\ DOMAIN toPi' = 1 .. Len(toPi) - 1
      /\ \A i \in 1 .. Len(toPi) - 1 : toPi'[i] = toPi[i + 1]
      /\ Head(toPi) = toPi[1]
  BY Shorter
<1>2. 1 \in DOMAIN toPi /\ \A i \in DOMAIN toPi : i = 1 \/ (i - 1 \in DOMAIN toPi' /\ toPi'[i - 1] = toPi[i])
  BY <1>1
<1>3. \A i \in DOMAIN toPi' : i + 1 \in DOMAIN toPi /\ toPi'[i] = toPi[i + 1]
  BY <1>1
<1>4. ASSUME NEW of PROVE Asked(of) <=> Asked(of)' \/ Head(toPi) = Prompt(of)
  BY <1>1, <1>2, <1>3 DEF Asked
<1>5. QED
  BY <1>4

LEMMA AskedLonger ==
  ASSUME toPi \in Seq(Commands), NEW c \in Commands, toPi' = toPi \o << c >>
  PROVE  \A of : Asked(of)' <=> Asked(of) \/ c = Prompt(of)
<1>1. /\ Len(toPi) \in Nat /\ DOMAIN toPi = 1 .. Len(toPi) /\ DOMAIN toPi' = 1 .. Len(toPi) + 1
      /\ \A i \in 1 .. Len(toPi) : toPi'[i] = toPi[i]
      /\ toPi'[Len(toPi) + 1] = c
  BY Longer
<1>2. Len(toPi) + 1 \in DOMAIN toPi' /\ \A i \in DOMAIN toPi' : i \in DOMAIN toPi \/ i = Len(toPi) + 1
  BY <1>1
<1>3. \A i \in DOMAIN toPi : i \in DOMAIN toPi' /\ toPi'[i] = toPi[i]
  BY <1>1
<1>4. QED
  BY <1>1, <1>2, <1>3 DEF Asked

LEMMA CommandsDiffer ==
  /\ Prompt("task") # Prompt("recover") /\ Prompt("task") # Prompt("nudge") /\ Prompt("task") # Prompt("user")
  /\ Prompt("recover") # Prompt("nudge") /\ Prompt("recover") # Prompt("user")
  /\ \A of : Prompt(of) # Steer /\ Prompt(of) # Abort /\ Prompt(of) # SteeringNudge
  /\ \A of : Prompt(of).type = "prompt" /\ Prompt(of).of = of
  /\ Steer # Abort /\ SteeringNudge # Steer /\ SteeringNudge # Abort
  /\ Steer.type # "prompt"
BY DEF Prompt, Steer, Abort, SteeringNudge

LEMMA RefusalsDiffer ==
  /\ Refusal("recover") # Refusal("nudge")
  /\ \A of : Refusal(of).of = of /\ Refusal(of).type = "response"
BY DEF Refusal

LEMMA InitCut == Init => CutInv
<1> SUFFICES ASSUME Init, pi = "idle" PROVE FreeInv
  BY DEF Init, CutInv, Free
<1>1. /\ toPi = << Prompt("task") >> /\ fromPi = <<>> /\ turningDown = {}
      /\ ~settled /\ ~recoverySent /\ ~nudgeSent /\ ~nudgePending /\ ~lastCut
  BY DEF Init
<1>2. /\ \A i \in DOMAIN toPi : i = 1 /\ toPi[i] = Prompt("task")
      /\ ~(\E i \in DOMAIN fromPi : TRUE)
  BY <1>1
<1>3. /\ \A type : ~Has(type)
      /\ ~Refused /\ ~Asked("recover") /\ ~Busy /\ ~Known /\ ~Waiting /\ ~Due /\ ~Live
  BY <1>1, <1>2, CommandsDiffer DEF Has, Refused, Asked, Busy, Known, Waiting, Due, Live
<1>4. CommandInv /\ AnswerFirst /\ StartInv /\ OverInv
  BY <1>1, <1>2, <1>3, CommandsDiffer DEF CommandInv, AnswerFirst, StartInv, OverInv
<1>5. KnownInv /\ WorkInv /\ WaitInv /\ LiveInv
  BY <1>1, <1>3 DEF KnownInv, WorkInv, WaitInv, LiveInv
<1>6. TokenInv
  BY <1>1, <1>2, <1>3, CommandsDiffer DEF TokenInv
<1>7. QED
  BY <1>4, <1>5, <1>6 DEF FreeInv

(* What pi and the engine leave alone.                                       *)
flags  == <<settled, lastCut, consecutive, recoverySent, nudgeSent, nudgePending>>

(* A command that changes nothing: a steer, a lost prompt, a queued nudge.   *)
LEMMA CommandTaken ==
  ASSUME FreeInv, toPi \in Seq(Commands), toPi # <<>>, toPi' = Tail(toPi), Head(toPi) # Prompt("task"),
         UNCHANGED <<pi, doing, turningDown, fromPi, flags>>
  PROVE  FreeInv'
<1>1. /\ Len(toPi) \in Nat \ {0} /\ DOMAIN toPi = 1 .. Len(toPi) /\ DOMAIN toPi' = 1 .. Len(toPi) - 1
      /\ \A i \in 1 .. Len(toPi) - 1 : toPi'[i] = toPi[i + 1]
      /\ Head(toPi) = toPi[1]
  BY Shorter
<1>2. \A i \in DOMAIN toPi' : i + 1 \in DOMAIN toPi /\ toPi'[i] = toPi[i + 1] /\ i \in Nat
  BY <1>1
<1>3. /\ \A of : Asked(of)' => Asked(of)
      /\ UNCHANGED <<Busy, Known, Waiting, Due, Live, Own, Refused>>
      /\ \A type : Has(type)' <=> Has(type)
  BY AskedShorter DEF Busy, Known, Waiting, Due, Live, Own, Refused, Has, flags
<1>4. (CommandInv /\ AnswerFirst /\ StartInv /\ OverInv)'
  <2>1. CommandInv'
    BY <1>2 DEF CommandInv, FreeInv
  <2>2. AnswerFirst' /\ StartInv' /\ OverInv'
    BY <1>3 DEF FreeInv, AnswerFirst, StartInv, OverInv
  <2>3. QED
    BY <2>1, <2>2
<1>5. KnownInv' /\ WorkInv'
  BY <1>3 DEF FreeInv, KnownInv, WorkInv, flags
<1>6. WaitInv'
  BY <1>2, <1>3 DEF FreeInv, WaitInv, flags
<1>7. TokenInv'
  BY <1>2, <1>3 DEF FreeInv, TokenInv, flags
<1>8. LiveInv'
  BY <1>2, <1>3 DEF FreeInv, LiveInv, flags
<1>9. QED
  BY <1>4, <1>5, <1>6, <1>7, <1>8 DEF FreeInv

(* pi at rest opens a run for a prompt.                                      *)
LEMMA RunOpened ==
  ASSUME FreeInv, toPi \in Seq(Commands), toPi # <<>>, toPi' = Tail(toPi),
         Head(toPi).type = "prompt", pi = "idle", pi' = "starting", doing' = Head(toPi).of,
         UNCHANGED <<turningDown, fromPi, flags>>
  PROVE  FreeInv'
<1>1. /\ Len(toPi) \in Nat \ {0} /\ DOMAIN toPi = 1 .. Len(toPi) /\ DOMAIN toPi' = 1 .. Len(toPi) - 1
      /\ \A i \in 1 .. Len(toPi) - 1 : toPi'[i] = toPi[i + 1]
      /\ Head(toPi) = toPi[1]
  BY Shorter
<1>2. /\ \A i \in DOMAIN toPi' : i + 1 \in DOMAIN toPi /\ toPi'[i] = toPi[i + 1] /\ i \in Nat
      /\ 1 \in DOMAIN toPi
  BY <1>1
<1>3. /\ \A of : Asked(of)' => Asked(of)
      /\ UNCHANGED <<Waiting, Due, Live, Own, Refused>>
      /\ \A type : Has(type)' <=> Has(type)
      /\ Busy' /\ ~Known' /\ ~Known /\ ~Busy
  BY AskedShorter DEF Busy, Known, Waiting, Due, Live, Own, Refused, Has, flags
<1>4. /\ Head(toPi) \in Commands
      /\ Head(toPi) = Prompt(doing') \/ doing' = "nudge"
      /\ doing' \in Work => Head(toPi) = Prompt(doing') /\ Asked(doing')
  <2>1. Head(toPi) \in Commands
    BY HeadTailProperties
  <2>2. Head(toPi) = Prompt(doing') \/ doing' = "nudge"
    BY <2>1, CommandIs
  <2>3. doing' \in Work => Head(toPi) = Prompt(doing')
    BY <2>2 DEF Work
  <2>4. QED
    BY <1>1, <1>2, <2>1, <2>2, <2>3 DEF Asked
<1>5. CommandInv' /\ AnswerFirst' /\ StartInv'
  BY <1>2, <1>3 DEF CommandInv, FreeInv, AnswerFirst, StartInv
<1>6. OverInv'
  BY <1>3 DEF OverInv, FreeInv
<1>7. KnownInv'
  BY <1>3 DEF FreeInv, KnownInv, flags
<1>8. ~Asked("task")' /\ ~Asked("recover")'
  <2>1. ~Asked("task")'
    BY <1>2 DEF FreeInv, CommandInv, Asked
  <2>2. ~Asked("recover")'
    <3>1. CASE doing' = "recover"
      <4>1. toPi[1] = Prompt("recover")
        BY <1>1, <1>4, <3>1 DEF Work
      <4>2. QED
        BY <1>1, <1>2, <4>1 DEF FreeInv, TokenInv, Asked
    <3>2. CASE doing' # "recover"
      <4>1. SUFFICES ASSUME Asked("recover")' PROVE FALSE
        OBVIOUS
      <4>2. recoverySent /\ Asked("recover")
        BY <1>3, <4>1 DEF FreeInv, TokenInv
      <4>3. toPi[1] = Steer \/ toPi[1] = Prompt("recover")
        BY <1>2, <4>2 DEF FreeInv, WaitInv, Waiting, Own
      <4>4. QED
        BY <1>1, <3>2, <4>3, CommandsDiffer
    <3>3. QED
      BY <3>1, <3>2
  <2>3. QED
    BY <2>1, <2>2
<1>9. WorkInv'
  <2>1. doing' \in Work => ~settled' /\ ~Has("agent_settled")'
    BY <1>3, <1>4 DEF FreeInv, WorkInv, Work, flags
  <2>2. QED
    BY <1>8, <2>1 DEF WorkInv
<1>10. Waiting' => doing' = Own'
  <2>1. SUFFICES ASSUME Waiting PROVE doing' = Own
    BY <1>3
  <2>2. toPi[1] = Steer \/ toPi[1] = Prompt(Own)
    BY <1>2, <2>1 DEF FreeInv, WaitInv
  <2>3. QED
    BY <1>1, <2>2, CommandsDiffer
<1>11. WaitInv'
  BY <1>2, <1>3, <1>10 DEF FreeInv, WaitInv, flags
<1>12. TokenInv'
  <2>1. ~("recover" \in turningDown) /\ ~Refused
    <3>1. SUFFICES ASSUME "recover" \in turningDown \/ Refused PROVE FALSE
      OBVIOUS
    <3>2. recoverySent /\ ~Asked("recover")
      BY <3>1 DEF FreeInv, TokenInv
    <3>3. toPi[1] = Steer \/ toPi[1] = Prompt("recover")
      BY <1>2, <3>2 DEF FreeInv, WaitInv, Waiting, Own
    <3>4. QED
      BY <1>1, <1>2, <3>2, <3>3, CommandsDiffer DEF Asked
  <2>2. QED
    BY <1>2, <1>3, <1>8, <2>1 DEF FreeInv, TokenInv, flags
<1>13. LiveInv'
  <2>1. ~Live
    BY <1>1, <1>2, CommandsDiffer DEF FreeInv, LiveInv
  <2>2. QED
    BY <1>3, <2>1 DEF LiveInv
<1>14. QED
  BY <1>5, <1>6, <1>7, <1>9, <1>11, <1>12, <1>13 DEF FreeInv

(* pi takes a message of the engine and will turn it down later.             *)
LEMMA PutOff ==
  ASSUME FreeInv, toPi \in Seq(Commands), toPi # <<>>, toPi' = Tail(toPi),
         NEW of \in {"recover", "nudge"}, Head(toPi).type = "prompt", Head(toPi).of = of,
         turningDown' = turningDown \cup {of}, UNCHANGED <<pi, doing, fromPi, flags>>
  PROVE  FreeInv'
<1>1. /\ Len(toPi) \in Nat \ {0} /\ DOMAIN toPi = 1 .. Len(toPi) /\ DOMAIN toPi' = 1 .. Len(toPi) - 1
      /\ \A i \in 1 .. Len(toPi) - 1 : toPi'[i] = toPi[i + 1]
      /\ Head(toPi) = toPi[1]
  BY Shorter
<1>2. /\ \A i \in DOMAIN toPi' : i + 1 \in DOMAIN toPi /\ toPi'[i] = toPi[i + 1] /\ i \in Nat
      /\ 1 \in DOMAIN toPi
  BY <1>1
<1>3. /\ \A o : Asked(o)' => Asked(o)
      /\ UNCHANGED <<Busy, Known, Waiting, Due, Live, Own, Refused>>
      /\ \A type : Has(type)' <=> Has(type)
  BY AskedShorter DEF Busy, Known, Waiting, Due, Live, Own, Refused, Has, flags
<1>4. /\ toPi[1] # Prompt("task") /\ toPi[1] # Steer
      /\ of = "recover" => toPi[1] = Prompt("recover")
  <2>1. Head(toPi) \in Commands
    BY HeadTailProperties
  <2>2. QED
    BY <1>1, <2>1, CommandIs, CommandsDiffer
<1>5. ~Asked("task") /\ ~Asked("task")'
  BY <1>2, <1>3, <1>4 DEF FreeInv, CommandInv, Asked
<1>6. of = "recover" => /\ recoverySent /\ pi = "idle" /\ "recover" \notin turningDown /\ ~Refused
                        /\ ~Asked("recover")'
  <2>1. SUFFICES ASSUME of = "recover"
                 PROVE  /\ recoverySent /\ pi = "idle" /\ "recover" \notin turningDown /\ ~Refused
                        /\ ~Asked("recover")'
    OBVIOUS
  <2>2. Asked("recover")
    BY <1>2, <1>4, <2>1 DEF Asked
  <2>3. recoverySent /\ pi = "idle" /\ "recover" \notin turningDown /\ ~Refused
    BY <2>2 DEF FreeInv, TokenInv
  <2>4. ~Asked("recover")'
    BY <1>2, <1>4, <2>1 DEF FreeInv, TokenInv, Asked
  <2>5. QED
    BY <2>3, <2>4
<1>7. CommandInv' /\ AnswerFirst' /\ StartInv' /\ OverInv'
  <2>1. CommandInv'
    BY <1>2 DEF CommandInv, FreeInv
  <2>2. AnswerFirst' /\ StartInv' /\ OverInv'
    BY <1>3 DEF FreeInv, AnswerFirst, StartInv, OverInv
  <2>3. QED
    BY <2>1, <2>2
<1>8. KnownInv' /\ WorkInv'
  BY <1>3, <1>5 DEF FreeInv, KnownInv, WorkInv, flags
<1>9. WaitInv'
  BY <1>2, <1>3 DEF FreeInv, WaitInv, flags
<1>10. TokenInv'
  <2>1. CASE of = "recover"
    BY <1>2, <1>3, <1>6, <2>1 DEF FreeInv, TokenInv, flags
  <2>2. CASE of = "nudge"
    BY <1>2, <1>3, <2>2 DEF FreeInv, TokenInv, flags
  <2>3. QED
    BY <2>1, <2>2
<1>11. LiveInv'
  BY <1>2, <1>3, <1>4 DEF FreeInv, LiveInv
<1>12. QED
  BY <1>7, <1>8, <1>9, <1>10, <1>11 DEF FreeInv

(* pi refuses a prompt because it streams.                                   *)
LEMMA PromptRefused ==
  ASSUME FreeInv, toPi \in Seq(Commands), toPi # <<>>, toPi' = Tail(toPi), fromPi \in Seq(Events),
         NEW of \in Origins, Head(toPi) = Prompt(of), Busy,
         fromPi' = fromPi \o << Refusal(of) >>, UNCHANGED <<pi, doing, turningDown, flags>>
  PROVE  FreeInv'
<1>1. /\ Len(toPi) \in Nat \ {0} /\ DOMAIN toPi = 1 .. Len(toPi) /\ DOMAIN toPi' = 1 .. Len(toPi) - 1
      /\ \A i \in 1 .. Len(toPi) - 1 : toPi'[i] = toPi[i + 1]
      /\ Head(toPi) = toPi[1]
  BY Shorter
<1>2. /\ \A i \in DOMAIN toPi' : i + 1 \in DOMAIN toPi /\ toPi'[i] = toPi[i + 1] /\ i \in Nat
      /\ 1 \in DOMAIN toPi /\ toPi[1] = Prompt(of)
  BY <1>1
<1>3. /\ Len(fromPi) \in Nat /\ DOMAIN fromPi = 1 .. Len(fromPi) /\ DOMAIN fromPi' = 1 .. Len(fromPi) + 1
      /\ \A i \in 1 .. Len(fromPi) : fromPi'[i] = fromPi[i]
      /\ fromPi'[Len(fromPi) + 1] = Refusal(of)
  BY EventsAre, Longer
<1>4. /\ \A o : Asked(o)' => Asked(o)
      /\ \A type : Has(type)' <=> Has(type) \/ "response" = type
      /\ Refused' <=> Refused \/ Refusal(of) = Refusal("recover")
  BY AskedShorter, HasLonger, EventsAre
<1>5. /\ UNCHANGED <<Busy, Waiting, Due, Own>>
      /\ Known' <=> Known
      /\ Live' <=> Live
  BY <1>4 DEF Busy, Known, Waiting, Due, Live, Own, flags
<1>6. ~Asked("task") /\ ~Asked("recover") /\ pi # "idle"
  BY DEF FreeInv, WorkInv, Busy
<1>7. of \in {"nudge", "user"} /\ Refusal(of) # Refusal("recover")
  BY <1>2, <1>6, RefusalsDiffer DEF Asked, Origins
<1>8. CommandInv'
  BY <1>2 DEF CommandInv, FreeInv
<1>9. AnswerFirst' /\ StartInv'
  BY <1>3, <1>4, RefusalsDiffer DEF FreeInv, AnswerFirst, StartInv
<1>10. OverInv'
  BY <1>3, <1>4, RefusalsDiffer DEF FreeInv, OverInv
<1>11. KnownInv' /\ WorkInv'
  BY <1>4, <1>5, <1>6 DEF FreeInv, KnownInv, WorkInv, flags
<1>12. WaitInv'
  <2>1. Waiting => of = "nudge"
    BY <1>2, <1>7, CommandsDiffer DEF FreeInv, WaitInv, Own
  <2>2. QED
    BY <1>2, <1>3, <1>5, <2>1 DEF FreeInv, WaitInv, flags
<1>13. TokenInv'
  BY <1>2, <1>3, <1>4, <1>6, <1>7 DEF FreeInv, TokenInv, flags
<1>14. LiveInv'
  BY <1>2, <1>5, CommandsDiffer DEF FreeInv, LiveInv
<1>15. QED
  BY <1>8, <1>9, <1>10, <1>11, <1>12, <1>13, <1>14 DEF FreeInv

(* pi turns down a message it had taken.                                     *)
LEMMA TurnedDown ==
  ASSUME FreeInv, fromPi \in Seq(Events), NEW of \in turningDown, turningDown' = turningDown \ {of},
         fromPi' = fromPi \o << Refusal(of) >>, UNCHANGED <<pi, doing, toPi, flags>>
  PROVE  FreeInv'
<1>1. of \in {"recover", "nudge"} /\ of \in Origins
  BY DEF FreeInv, CommandInv, Origins
<1>2. /\ Len(fromPi) \in Nat /\ DOMAIN fromPi = 1 .. Len(fromPi) /\ DOMAIN fromPi' = 1 .. Len(fromPi) + 1
      /\ \A i \in 1 .. Len(fromPi) : fromPi'[i] = fromPi[i]
      /\ fromPi'[Len(fromPi) + 1] = Refusal(of)
  BY <1>1, EventsAre, Longer
<1>3. /\ \A type : Has(type)' <=> Has(type) \/ "response" = type
      /\ Refused' <=> Refused \/ Refusal(of) = Refusal("recover")
  BY <1>1, HasLonger, EventsAre
<1>4. /\ UNCHANGED <<Busy, Waiting, Due, Own>>
      /\ \A o : Asked(o)' <=> Asked(o)
      /\ Known' <=> Known
      /\ Live' <=> Live
  BY <1>3 DEF Busy, Known, Waiting, Due, Live, Own, Asked, flags
<1>5. ~Asked("task")
  BY DEF FreeInv, WorkInv
<1>6. of = "recover" => recoverySent /\ pi = "idle" /\ ~Asked("recover") /\ ~Refused
  BY DEF FreeInv, TokenInv
<1>7. CommandInv'
  BY DEF CommandInv, FreeInv
<1>8. AnswerFirst' /\ StartInv'
  BY <1>2, <1>3, RefusalsDiffer DEF FreeInv, AnswerFirst, StartInv
<1>9. OverInv'
  BY <1>2, <1>3, RefusalsDiffer DEF FreeInv, OverInv
<1>10. KnownInv' /\ WorkInv'
  BY <1>3, <1>4, <1>5 DEF FreeInv, KnownInv, WorkInv, flags
<1>11. WaitInv'
  <2>1. Refusal(of) = Refusal("nudge") \/ Refusal(of) = Refusal(Own)
    BY <1>1, <1>6 DEF Own
  <2>2. QED
    BY <1>2, <1>4, <2>1 DEF FreeInv, WaitInv, flags
<1>12. TokenInv'
  <2>1. CASE of = "recover"
    <3>1. \A i \in DOMAIN fromPi : fromPi[i] # Refusal("recover")
      BY <1>6, <2>1 DEF Refused
    <3>2. QED
      BY <1>2, <1>3, <1>4, <1>6, <2>1, <3>1 DEF FreeInv, TokenInv, flags
  <2>2. CASE of = "nudge"
    BY <1>2, <1>3, <1>4, <2>2, RefusalsDiffer DEF FreeInv, TokenInv, flags
  <2>3. QED
    BY <1>1, <2>1, <2>2
<1>13. LiveInv'
  <2>1. Live => of = "nudge"
    BY <1>1, <1>6 DEF FreeInv, LiveInv, Waiting
  <2>2. QED
    BY <1>2, <1>3, <1>4, <2>1 DEF FreeInv, LiveInv, flags
<1>14. QED
  BY <1>7, <1>8, <1>9, <1>10, <1>11, <1>12, <1>13 DEF FreeInv

(* The steps of a run of pi, each of which writes an event.                  *)
LEMMA Begun ==
  ASSUME FreeInv, fromPi \in Seq(Events), pi = "starting", pi' = "between",
         fromPi' = fromPi \o << Event("agent_start") >>, UNCHANGED <<doing, turningDown, toPi, flags>>
  PROVE  FreeInv'
<1>1. /\ Len(fromPi) \in Nat /\ DOMAIN fromPi = 1 .. Len(fromPi) /\ DOMAIN fromPi' = 1 .. Len(fromPi) + 1
      /\ \A i \in 1 .. Len(fromPi) : fromPi'[i] = fromPi[i]
      /\ fromPi'[Len(fromPi) + 1] = Event("agent_start")
  BY EventsAre, Longer
<1>2. /\ Event("agent_start").type = "agent_start"
      /\ Event("agent_start") # Refusal("recover")
  BY EventsAre, RefusalsDiffer
<1>3. /\ \A type : Has(type)' <=> Has(type) \/ "agent_start" = type
      /\ Refused' <=> Refused
  BY <1>2, HasLonger, EventsAre
<1>4. /\ UNCHANGED <<Waiting, Due, Own>>
      /\ \A o : Asked(o)' <=> Asked(o)
      /\ Busy /\ Busy' /\ ~Known'
      /\ Live' <=> Live
  BY <1>3 DEF Busy, Known, Waiting, Due, Live, Own, Asked, flags
<1>5. /\ ~Asked("task") /\ ~Asked("recover") /\ ~Live
      /\ ~Has("agent_start") /\ "recover" \notin turningDown /\ ~Refused
  BY DEF FreeInv, WorkInv, LiveInv, StartInv, TokenInv
<1>6. CommandInv' /\ AnswerFirst'
  BY <1>1, <1>2 DEF FreeInv, CommandInv, AnswerFirst
<1>7. StartInv'
  <2>1. \A i \in DOMAIN fromPi : fromPi[i].type # "agent_start"
    BY <1>5 DEF Has
  <2>2. QED
    BY <1>1, <1>2, <2>1 DEF StartInv
<1>8. OverInv'
  BY <1>1, <1>2, <1>3 DEF FreeInv, OverInv
<1>9. KnownInv' /\ WorkInv'
  BY <1>3, <1>4, <1>5 DEF FreeInv, KnownInv, WorkInv, flags
<1>10. WaitInv'
  BY <1>1, <1>2, <1>4 DEF FreeInv, WaitInv, flags
<1>11. TokenInv'
  <2>1. \A i \in DOMAIN fromPi : fromPi[i] # Refusal("recover")
    BY <1>5 DEF Refused
  <2>2. QED
    BY <1>1, <1>2, <1>3, <1>4, <1>5, <2>1 DEF FreeInv, TokenInv, flags
<1>12. LiveInv'
  BY <1>4, <1>5 DEF LiveInv
<1>13. QED
  BY <1>6, <1>7, <1>8, <1>9, <1>10, <1>11, <1>12 DEF FreeInv

LEMMA TurnTaken ==
  ASSUME FreeInv, fromPi \in Seq(Events), pi = "between", pi' = "turn",
         fromPi' = fromPi \o << Event("turn_start") >>, UNCHANGED <<doing, turningDown, toPi, flags>>
  PROVE  FreeInv'
<1>1. /\ Len(fromPi) \in Nat /\ DOMAIN fromPi = 1 .. Len(fromPi) /\ DOMAIN fromPi' = 1 .. Len(fromPi) + 1
      /\ \A i \in 1 .. Len(fromPi) : fromPi'[i] = fromPi[i]
      /\ fromPi'[Len(fromPi) + 1] = Event("turn_start")
  BY EventsAre, Longer
<1>2. /\ Event("turn_start").type = "turn_start"
      /\ Event("turn_start") # Refusal("recover")
  BY EventsAre, RefusalsDiffer
<1>3. /\ \A type : Has(type)' <=> Has(type) \/ "turn_start" = type
      /\ Refused' <=> Refused
  BY <1>2, HasLonger, EventsAre
<1>4. /\ UNCHANGED <<Waiting, Due, Own>>
      /\ \A o : Asked(o)' <=> Asked(o)
      /\ Busy /\ Busy'
      /\ Known' <=> Known
      /\ Live' <=> Live
  BY <1>3 DEF Busy, Known, Waiting, Due, Live, Own, Asked, flags
<1>5. /\ ~Asked("task") /\ ~Asked("recover") /\ "recover" \notin turningDown /\ ~Refused
  BY DEF FreeInv, WorkInv, TokenInv
<1>6. CommandInv' /\ AnswerFirst'
  BY <1>1, <1>2 DEF FreeInv, CommandInv, AnswerFirst
<1>7. StartInv'
  BY <1>1, <1>2, <1>3 DEF FreeInv, StartInv
<1>8. OverInv'
  BY <1>1, <1>2, <1>3 DEF FreeInv, OverInv
<1>9. KnownInv' /\ WorkInv'
  BY <1>3, <1>4, <1>5 DEF FreeInv, KnownInv, WorkInv, flags
<1>10. WaitInv'
  BY <1>1, <1>2, <1>4 DEF FreeInv, WaitInv, flags
<1>11. TokenInv'
  <2>1. \A i \in DOMAIN fromPi : fromPi[i] # Refusal("recover")
    BY <1>5 DEF Refused
  <2>2. QED
    BY <1>1, <1>2, <1>3, <1>4, <1>5, <2>1 DEF FreeInv, TokenInv, flags
<1>12. LiveInv'
  BY <1>1, <1>2, <1>3, <1>4 DEF FreeInv, LiveInv, flags
<1>13. QED
  BY <1>6, <1>7, <1>8, <1>9, <1>10, <1>11, <1>12 DEF FreeInv

LEMMA Answered ==
  ASSUME FreeInv, NEW cut \in BOOLEAN, NEW bloated \in BOOLEAN, pi = "turn", pi' = "between", QuietPipes,
         fromPi' = fromPi \o << MessageEnd(cut, bloated) >>, UNCHANGED <<doing, turningDown, toPi, flags>>
  PROVE  FreeInv'
<1>1. /\ toPi = <<>> /\ toPi' = <<>>
      /\ fromPi' = << MessageEnd(cut, bloated) >> /\ MessageEnd(cut, bloated).type = "message_end"
  BY EventsAre DEF QuietPipes
<1>2. /\ \A i \in DOMAIN fromPi' : i = 1 /\ fromPi'[i].type = "message_end"
      /\ ~(\E i \in DOMAIN toPi' : TRUE) /\ ~(\E i \in DOMAIN fromPi : TRUE)
  BY <1>1 DEF QuietPipes
<1>3. /\ \A o : ~Asked(o)'
      /\ ~Has("agent_start") /\ ~Has("agent_start")' /\ ~Has("agent_settled")' /\ ~Refused'
      /\ Known
  BY <1>1, <1>2, RefusalsDiffer DEF Asked, Has, Refused, Known, QuietPipes
<1>4. ~settled /\ ~Waiting /\ ~settled' /\ ~Waiting' /\ ~recoverySent
  BY <1>3 DEF FreeInv, KnownInv, Waiting, flags
<1>5. "recover" \notin turningDown
  BY <1>4 DEF FreeInv, TokenInv
<1>6. CommandInv' /\ AnswerFirst' /\ StartInv' /\ OverInv'
  BY <1>2, <1>3 DEF FreeInv, CommandInv, AnswerFirst, StartInv, OverInv
<1>7. KnownInv' /\ WorkInv' /\ WaitInv'
  BY <1>3, <1>4 DEF KnownInv, WorkInv, WaitInv
<1>8. TokenInv'
  BY <1>2, <1>3, <1>5, RefusalsDiffer DEF TokenInv
<1>9. LiveInv'
  BY <1>2, <1>3, <1>4 DEF LiveInv
<1>10. QED
  BY <1>6, <1>7, <1>8, <1>9 DEF FreeInv

LEMMA StartContained ==
  ASSUME fromPi \in Seq(Events), ~Contains(fromPi, Event("agent_start"))
  PROVE  ~Has("agent_start")
<1>1. ASSUME NEW i \in DOMAIN fromPi, fromPi[i].type = "agent_start" PROVE FALSE
  <2>1. i \in 1 .. Len(fromPi) /\ fromPi[i] \in Events
    BY LenProperties, ElementOfSeq
  <2>2. fromPi[i] = Event("agent_start")
    BY <1>1, <2>1 DEF Events, Refusal, Event, MessageEnd
  <2>3. QED
    BY <2>1, <2>2 DEF Contains
<1>2. QED
  BY <1>1 DEF Has

LEMMA PiAtRest ==
  ASSUME FreeInv, fromPi \in Seq(Events), pi = "between", pi' = "idle", ~Has("agent_start"),
         fromPi' = fromPi \o << Event("agent_settled") >>, UNCHANGED <<doing, turningDown, toPi, flags>>
  PROVE  FreeInv'
<1>1. /\ Len(fromPi) \in Nat /\ DOMAIN fromPi = 1 .. Len(fromPi) /\ DOMAIN fromPi' = 1 .. Len(fromPi) + 1
      /\ \A i \in 1 .. Len(fromPi) : fromPi'[i] = fromPi[i]
      /\ fromPi'[Len(fromPi) + 1] = Event("agent_settled")
  BY EventsAre, Longer
<1>2. /\ Event("agent_settled").type = "agent_settled"
      /\ Event("agent_settled") # Refusal("recover")
  BY EventsAre, RefusalsDiffer
<1>3. /\ \A type : Has(type)' <=> Has(type) \/ "agent_settled" = type
      /\ Refused' <=> Refused
  BY <1>2, HasLonger, EventsAre
<1>4. /\ UNCHANGED <<Waiting, Due, Own>>
      /\ \A o : Asked(o)' <=> Asked(o)
      /\ ~Busy' /\ ~Known' /\ Known
      /\ Live' <=> Live
  BY <1>3 DEF Busy, Known, Waiting, Due, Live, Own, Asked, flags
<1>5. ~settled /\ ~Waiting /\ ~settled' /\ ~recoverySent
  BY <1>4 DEF FreeInv, KnownInv, Waiting, flags
<1>6. /\ ~Asked("task") /\ ~Asked("recover") /\ "recover" \notin turningDown /\ ~Refused
      /\ ~Has("agent_settled")
  BY <1>5 DEF FreeInv, WorkInv, TokenInv, OverInv, Has
<1>7. CommandInv' /\ AnswerFirst'
  BY <1>1, <1>2 DEF FreeInv, CommandInv, AnswerFirst
<1>8. StartInv'
  BY <1>1, <1>2, <1>3 DEF StartInv, Has
<1>9. OverInv'
  <2>1. \A i \in DOMAIN fromPi : fromPi[i].type # "agent_settled"
    BY <1>6 DEF Has
  <2>2. QED
    BY <1>1, <1>2, <2>1 DEF OverInv
<1>10. KnownInv' /\ WorkInv' /\ WaitInv'
  BY <1>4, <1>5, <1>6 DEF KnownInv, WorkInv, WaitInv
<1>11. TokenInv'
  <2>1. \A i \in DOMAIN fromPi : fromPi[i] # Refusal("recover")
    BY <1>6 DEF Refused
  <2>2. QED
    BY <1>1, <1>2, <1>3, <1>4, <1>6, <2>1 DEF FreeInv, TokenInv
<1>12. LiveInv'
  BY <1>1, <1>2, <1>3, <1>4 DEF FreeInv, LiveInv, flags
<1>13. QED
  BY <1>7, <1>8, <1>9, <1>10, <1>11, <1>12 DEF FreeInv

LEMMA PiKeepsCut ==
  ASSUME TypeInv, FreeInv, Free, Free', PiWorks
  PROVE  FreeInv'
<1>1. /\ toPi \in Seq(Commands) /\ fromPi \in Seq(Events)
      /\ toPi # <<>> => Head(toPi) \in Commands /\ Head(toPi) = toPi[1] /\ 1 \in DOMAIN toPi
  BY HeadTailProperties, Shorter DEF TypeInv, TypeOK
<1>2. UNCHANGED flags
  BY DEF PiWorks, PiReadsPrompt, PiTurnsDown, PiReadsControl, PiBegins,
         PiTakesTurn, PiAnswers, PiSettles, Emits, engine, nudging, flags
<1>3. CASE PiReadsPrompt
  <2>1. /\ toPi # <<>> /\ Head(toPi).type = "prompt" /\ toPi' = Tail(toPi)
        /\ \/ /\ pi = "idle" /\ pi' = "starting" /\ doing' = Head(toPi).of /\ turningDown' = turningDown
              /\ fromPi' = fromPi \o <<>>
           \/ /\ Head(toPi).of \in {"recover", "nudge"} \/ (Busy /\ Head(toPi).steering)
              /\ UNCHANGED <<pi, doing, turningDown>> /\ fromPi' = fromPi \o <<>>
           \/ /\ Head(toPi).of \in {"recover", "nudge"} /\ turningDown' = turningDown \cup {Head(toPi).of}
              /\ UNCHANGED <<pi, doing>> /\ fromPi' = fromPi \o <<>>
           \/ /\ Busy /\ ~Head(toPi).steering
              /\ UNCHANGED <<pi, doing, turningDown>> /\ fromPi' = fromPi \o << Refusal(Head(toPi).of) >>
    BY <1>3 DEF PiReadsPrompt, Emits
  <2>2. fromPi' = fromPi \o <<>> => fromPi' = fromPi
    BY <1>1, NoneEmitted
  <2>3. /\ Head(toPi).of \in Origins
        /\ Head(toPi) = Prompt(Head(toPi).of) \/ (Head(toPi).of = "nudge" /\ Head(toPi).steering)
        /\ Prompt("task").of = "task" /\ Prompt("task").steering = FALSE
    BY <1>1, <2>1, CommandIs DEF Prompt
  <2>4. CASE pi = "idle" /\ pi' = "starting" /\ doing' = Head(toPi).of /\ turningDown' = turningDown
             /\ fromPi' = fromPi \o <<>>
    BY <1>1, <1>2, <2>1, <2>2, <2>4, RunOpened
  <2>5. CASE /\ Head(toPi).of \in {"recover", "nudge"} \/ (Busy /\ Head(toPi).steering)
             /\ UNCHANGED <<pi, doing, turningDown>> /\ fromPi' = fromPi \o <<>>
    <3>1. Head(toPi) # Prompt("task")
      BY <2>3, <2>5
    <3>2. QED
      BY <1>1, <1>2, <2>1, <2>2, <2>5, <3>1, CommandTaken
  <2>6. CASE /\ Head(toPi).of \in {"recover", "nudge"} /\ turningDown' = turningDown \cup {Head(toPi).of}
             /\ UNCHANGED <<pi, doing>> /\ fromPi' = fromPi \o <<>>
    BY <1>1, <1>2, <2>1, <2>2, <2>6, PutOff
  <2>7. CASE /\ Busy /\ ~Head(toPi).steering
             /\ UNCHANGED <<pi, doing, turningDown>> /\ fromPi' = fromPi \o << Refusal(Head(toPi).of) >>
    BY <1>1, <1>2, <2>1, <2>3, <2>7, PromptRefused
  <2>8. QED
    BY <2>1, <2>4, <2>5, <2>6, <2>7
<1>4. CASE PiTurnsDown
  <2>1. PICK of \in turningDown : turningDown' = turningDown \ {of} /\ fromPi' = fromPi \o << Refusal(of) >>
    BY <1>4 DEF PiTurnsDown, Emits
  <2>2. UNCHANGED <<pi, doing, toPi>>
    BY <1>4 DEF PiTurnsDown
  <2>3. QED
    BY <1>1, <1>2, <2>1, <2>2, TurnedDown
<1>5. CASE PiReadsControl
  <2>1. toPi # <<>> /\ toPi' = Tail(toPi) /\ Head(toPi).type # "prompt" /\ Head(toPi) # Abort
    BY <1>1, <1>5 DEF PiReadsControl, FreeInv, CommandInv
  <2>2. UNCHANGED <<pi, doing, turningDown>> /\ fromPi' = fromPi \o <<>>
    BY <1>5, <2>1 DEF PiReadsControl, Emits
  <2>3. fromPi' = fromPi /\ Head(toPi) # Prompt("task")
    BY <1>1, <2>1, <2>2, NoneEmitted, CommandsDiffer
  <2>4. QED
    BY <1>1, <1>2, <2>1, <2>2, <2>3, CommandTaken
<1>6. CASE PiBegins
  BY <1>1, <1>2, <1>6, Begun DEF PiBegins, Emits
<1>7. CASE PiTakesTurn
  BY <1>1, <1>2, <1>7, TurnTaken DEF PiTakesTurn, Emits
<1>8. CASE PiAnswers
  BY <1>2, <1>8, Answered DEF PiAnswers, Emits
<1>9. CASE PiSettles
  BY <1>1, <1>2, <1>9, StartContained, PiAtRest DEF PiSettles, Emits
<1>10. QED
  BY <1>3, <1>4, <1>5, <1>6, <1>7, <1>8, <1>9 DEF PiWorks

(* The engine takes a line out of the pipe: what the order of the others     *)
(* says is kept.                                                             *)
LEMMA LineRead ==
  ASSUME FreeInv, fromPi \in Seq(Events), fromPi # <<>>, fromPi' = Tail(fromPi), pi' = pi
  PROVE  /\ AnswerFirst' /\ StartInv' /\ OverInv' /\ ~Has("message_end")'
         /\ \A i \in DOMAIN fromPi' : i \in Nat /\ i + 1 \in DOMAIN fromPi /\ fromPi'[i] = fromPi[i + 1]
         /\ 1 \in DOMAIN fromPi /\ fromPi[1] = Head(fromPi)
         /\ \A type : Has(type) <=> Has(type)' \/ Head(fromPi).type = type
         /\ Refused <=> Refused' \/ Head(fromPi) = Refusal("recover")
<1>1. /\ Len(fromPi) \in Nat \ {0} /\ DOMAIN fromPi = 1 .. Len(fromPi) /\ DOMAIN fromPi' = 1 .. Len(fromPi) - 1
      /\ \A i \in 1 .. Len(fromPi) - 1 : fromPi'[i] = fromPi[i + 1]
      /\ Head(fromPi) = fromPi[1]
  BY Shorter
<1>2. /\ \A i \in DOMAIN fromPi' : i \in Nat \ {0} /\ i + 1 \in DOMAIN fromPi /\ fromPi'[i] = fromPi[i + 1]
      /\ 1 \in DOMAIN fromPi
      /\ \A i \in DOMAIN fromPi : i \in Nat \ {0}
  BY <1>1
<1>3. /\ \A type : Has(type) <=> Has(type)' \/ Head(fromPi).type = type
      /\ Refused <=> Refused' \/ Head(fromPi) = Refusal("recover")
  BY HasShorter
<1>4. AnswerFirst' /\ ~Has("message_end")'
  BY <1>2 DEF FreeInv, AnswerFirst, Has
<1>5. StartInv'
  <2>1. Has("agent_start")' => pi' \in {"between", "turn"}
    BY <1>3 DEF FreeInv, StartInv
  <2>2. ASSUME NEW i \in DOMAIN fromPi', NEW j \in DOMAIN fromPi',
               fromPi'[i].type = "agent_start", fromPi'[j].type = "agent_settled"
        PROVE  j < i
    BY <1>2, <2>2 DEF FreeInv, StartInv
  <2>3. QED
    BY <2>1, <2>2 DEF StartInv
<1>6. OverInv'
  <2>1. SUFFICES ASSUME NEW j \in DOMAIN fromPi', fromPi'[j].type = "agent_settled"
                 PROVE  /\ \A i \in DOMAIN fromPi' : i > j => fromPi'[i].type # "agent_settled"
                        /\ pi' \in {"idle", "starting"} =>
                             \A i \in DOMAIN fromPi' : i > j => fromPi'[i].type = "response"
                        /\ pi' \in {"between", "turn"} => Has("agent_start")'
    BY DEF OverInv
  <2>2. j + 1 \in DOMAIN fromPi /\ fromPi[j + 1].type = "agent_settled" /\ j \in Nat \ {0}
    BY <1>2, <2>1
  <2>3. Head(fromPi).type # "agent_start"
    BY <1>1, <1>2, <2>2 DEF FreeInv, StartInv
  <2>4. pi' \in {"between", "turn"} => Has("agent_start")'
    BY <1>3, <2>2, <2>3 DEF FreeInv, OverInv
  <2>5. ASSUME NEW i \in DOMAIN fromPi', i > j
        PROVE  /\ fromPi'[i].type # "agent_settled"
               /\ pi' \in {"idle", "starting"} => fromPi'[i].type = "response"
    BY <1>2, <2>2, <2>5 DEF FreeInv, OverInv
  <2>6. QED
    BY <2>4, <2>5
<1>7. QED
  BY <1>1, <1>2, <1>3, <1>4, <1>5, <1>6

(* A refusal: of the continuation in flight, of the nudge in flight, or of a *)
(* prompt the engine no longer waits for.                                    *)
LEMMA RefusalRead ==
  ASSUME TypeInv, FreeInv, OnRefusal
  PROVE  FreeInv'
<1> DEFINE of == Head(fromPi).of
<1>1. /\ fromPi \in Seq(Events) /\ fromPi # <<>> /\ fromPi' = Tail(fromPi) /\ Head(fromPi).type = "response"
      /\ UNCHANGED <<pi, doing, turningDown, toPi, lastCut, consecutive, nudgePending>>
      /\ recoverySent' <=> recoverySent /\ ~(of # "nudge" /\ recoverySent)
      /\ nudgeSent' <=> nudgeSent /\ ~(of = "nudge" /\ nudgeSent)
      /\ settled' <=> settled \/ (of # "nudge" /\ recoverySent) \/ (of = "nudge" /\ nudgeSent /\ ~recoverySent)
  BY DEF TypeInv, TypeOK, OnRefusal, Reads, piVars, nudging, RefusesContinuation, RefusesNudge
<1>2. of \in Origins /\ Head(fromPi) = Refusal(of)
  <2>1. Head(fromPi) \in Events
    BY <1>1, HeadTailProperties
  <2>2. QED
    BY <1>1, <2>1 DEF Events, Refusal, Event, MessageEnd
<1> HIDE DEF of
<1>3. /\ AnswerFirst' /\ StartInv' /\ OverInv' /\ ~Has("message_end")'
      /\ \A i \in DOMAIN fromPi' : i \in Nat /\ i + 1 \in DOMAIN fromPi /\ fromPi'[i] = fromPi[i + 1]
      /\ 1 \in DOMAIN fromPi /\ fromPi[1] = Refusal(of)
      /\ \A type : Has(type) <=> Has(type)' \/ "response" = type
      /\ Refused <=> Refused' \/ Refusal(of) = Refusal("recover")
  BY <1>1, <1>2, LineRead
<1>4. /\ UNCHANGED <<Busy, Due>>
      /\ \A o : Asked(o)' <=> Asked(o)
      /\ Known' <=> Known
      /\ Live' => Live
  BY <1>1, <1>3 DEF Busy, Known, Due, Live, Asked
<1>5. ~Asked("task")
  BY <1>1 DEF FreeInv, WorkInv
<1>6. CommandInv'
  BY <1>1 DEF FreeInv, CommandInv
<1>7. CASE of # "nudge" /\ recoverySent
  <2>1. /\ ~settled /\ ~nudgeSent /\ Waiting /\ Own = "recover"
        /\ Refusal(of) = Refusal("nudge") \/ Refusal(of) = Refusal("recover")
        /\ \A i \in DOMAIN toPi : toPi[i] = Steer \/ toPi[i] = Prompt("recover")
    BY <1>3, <1>7, RefusalsDiffer DEF FreeInv, WaitInv, Waiting, Own
  <2>2. of = "recover" /\ Refusal(of) = Refusal("recover") /\ Refused
    BY <1>3, <1>7, <2>1, RefusalsDiffer
  <2>3. pi = "idle" /\ ~Asked("recover") /\ "recover" \notin turningDown
    BY <2>2 DEF FreeInv, TokenInv
  <2>4. ~Refused'
    <3>1. ASSUME NEW i \in DOMAIN fromPi', fromPi'[i] = Refusal("recover") PROVE FALSE
      <4>1. i + 1 \in DOMAIN fromPi /\ fromPi[i + 1] = Refusal("recover") /\ 1 \in DOMAIN fromPi
            /\ fromPi[1] = Refusal("recover") /\ i \in Nat /\ i # 0
        BY <1>1, <1>3, <2>2, <3>1, Shorter
      <4>2. QED
        BY <4>1 DEF FreeInv, TokenInv
    <3>2. QED
      BY <3>1 DEF Refused
  <2>5. ~Has("agent_settled") /\ ~Known /\ ~Live /\ ~Busy
    BY <2>1, <2>3 DEF FreeInv, KnownInv, LiveInv, Known, Busy
  <2>6. ~recoverySent' /\ ~nudgeSent' /\ ~Waiting'
    BY <1>1, <1>7, <2>1 DEF Waiting
  <2>7. KnownInv' /\ WorkInv' /\ WaitInv' /\ LiveInv'
    BY <1>3, <1>4, <1>5, <2>3, <2>5, <2>6 DEF KnownInv, WorkInv, WaitInv, LiveInv
  <2>8. TokenInv'
    <3>1. ~Asked("recover")' /\ "recover" \notin turningDown'
      BY <1>1, <1>4, <2>3
    <3>2. QED
      BY <2>4, <3>1 DEF TokenInv, Asked, Refused
  <2>9. QED
    BY <1>3, <1>6, <2>7, <2>8 DEF FreeInv
<1>8. CASE of = "nudge" /\ nudgeSent
  <2>1. ~settled /\ ~recoverySent /\ Waiting /\ Own = "nudge" /\ (Busy => doing = "nudge")
    BY <1>8 DEF FreeInv, WaitInv, Waiting, Own
  <2>2. ~Asked("recover") /\ "recover" \notin turningDown /\ ~Refused
    BY <2>1 DEF FreeInv, TokenInv
  <2>3. ~Has("agent_settled") /\ ~Known /\ ~Live
    BY <2>1 DEF FreeInv, KnownInv, LiveInv
  <2>4. ~recoverySent' /\ ~nudgeSent' /\ ~Waiting'
    BY <1>1, <1>8, <2>1 DEF Waiting
  <2>5. WorkInv'
    <3>1. Busy' /\ doing' \in Work => FALSE
      BY <1>1, <1>4, <2>1 DEF Work
    <3>2. QED
      BY <1>4, <1>5, <2>2, <3>1 DEF WorkInv
  <2>6. KnownInv' /\ WaitInv' /\ LiveInv'
    BY <1>3, <1>4, <2>3, <2>4 DEF KnownInv, WaitInv, LiveInv
  <2>7. TokenInv'
    <3>1. ~Asked("recover")' /\ "recover" \notin turningDown' /\ ~Refused'
      BY <1>1, <1>3, <1>4, <2>2
    <3>2. QED
      BY <3>1 DEF TokenInv, Asked, Refused
  <2>8. QED
    BY <1>3, <1>6, <2>5, <2>6, <2>7 DEF FreeInv
<1>9. CASE ~(of # "nudge" /\ recoverySent) /\ ~(of = "nudge" /\ nudgeSent)
  <2>1. /\ settled' <=> settled
        /\ recoverySent' <=> recoverySent
        /\ nudgeSent' <=> nudgeSent
        /\ Waiting' <=> Waiting
        /\ Own' = Own
    BY <1>1, <1>9 DEF Waiting, Own
  <2>2. KnownInv' /\ WorkInv'
    BY <1>1, <1>3, <1>4, <1>5, <2>1 DEF FreeInv, KnownInv, WorkInv
  <2>3. WaitInv'
    BY <1>1, <1>3, <1>4, <2>1 DEF FreeInv, WaitInv
  <2>4. TokenInv'
    BY <1>1, <1>3, <1>4, <2>1 DEF FreeInv, TokenInv
  <2>5. LiveInv'
    BY <1>1, <1>3, <1>4, <2>1 DEF FreeInv, LiveInv
  <2>6. QED
    BY <1>3, <1>6, <2>2, <2>3, <2>4, <2>5 DEF FreeInv
<1>10. QED
  BY <1>7, <1>8, <1>9

(* Not over the budget, the engine sends what it has to send and no more.    *)
LEMMA FreeSends ==
  ASSUME Free, Free', NEW sent \in Seq(Commands), toPi \in Seq(Commands), SendAndCheckBudget(sent)
  PROVE  toPi' = toPi \o sent /\ CanSend
<1>1. toPi' = toPi \o sent \o <<>>
  BY DEF Free, SendAndCheckBudget
<1>2. toPi \o sent \in Seq(Commands)
  BY ConcatProperties
<1>3. QED
  BY <1>1, <1>2, ConcatEmptySeq DEF Free, CanSend

(* The start of a run or of a turn.                                          *)
LEMMA StartRead ==
  ASSUME TypeInv, FreeInv, Free, Free', NEW type \in {"agent_start", "turn_start"}, OnStart(type)
  PROVE  FreeInv'
<1>1. /\ fromPi \in Seq(Events) /\ toPi \in Seq(Commands) /\ fromPi # <<>> /\ fromPi' = Tail(fromPi)
      /\ Head(fromPi).type = type
      /\ UNCHANGED <<pi, doing, turningDown, lastCut, consecutive, nudgePending>>
      /\ ~recoverySent' /\ ~nudgeSent' /\ ~settled'
  BY DEF TypeInv, TypeOK, OnStart, Reads, piVars, nudging
<1>2. toPi' = toPi
  <2>1. toPi' = toPi \o <<>>
    BY <1>1, SentAre, FreeSends DEF OnStart
  <2>2. QED
    BY <1>1, <2>1, ConcatEmptySeq
<1>3. /\ AnswerFirst' /\ StartInv' /\ OverInv' /\ ~Has("message_end")'
      /\ \A i \in DOMAIN fromPi' : i \in Nat /\ i + 1 \in DOMAIN fromPi /\ fromPi'[i] = fromPi[i + 1]
      /\ 1 \in DOMAIN fromPi /\ fromPi[1].type = type
      /\ \A t : Has(t) <=> Has(t)' \/ type = t
      /\ Refused' => Refused
  BY <1>1, LineRead
<1>4. /\ UNCHANGED <<Busy, Due>>
      /\ \A o : Asked(o)' <=> Asked(o)
      /\ ~Waiting'
      /\ Live' => Live
  BY <1>1, <1>2, <1>3 DEF Busy, Due, Live, Asked, Waiting
<1>5. ~Asked("recover") /\ "recover" \notin turningDown /\ ~Refused
  <2>1. SUFFICES ASSUME Asked("recover") \/ "recover" \in turningDown \/ Refused PROVE FALSE
    OBVIOUS
  <2>2. recoverySent /\ pi = "idle"
    BY <2>1 DEF FreeInv, TokenInv
  <2>3. Waiting /\ ~Busy
    BY <2>2 DEF Waiting, Busy
  <2>4. fromPi[1] = Refusal("nudge") \/ fromPi[1] = Refusal(Own)
    BY <1>3, <2>3 DEF FreeInv, WaitInv
  <2>5. QED
    BY <1>3, <2>4, RefusalsDiffer
<1>6. ~Asked("task")
  BY <1>1 DEF FreeInv, WorkInv
<1>7. CommandInv' /\ KnownInv' /\ WaitInv'
  BY <1>1, <1>2, <1>4 DEF FreeInv, CommandInv, KnownInv, WaitInv
<1>8. WorkInv'
  BY <1>1, <1>3, <1>4, <1>5, <1>6 DEF FreeInv, WorkInv
<1>9. TokenInv'
  <2>1. ~Asked("recover")' /\ "recover" \notin turningDown' /\ ~Refused'
    BY <1>1, <1>3, <1>4, <1>5
  <2>2. QED
    BY <2>1 DEF TokenInv, Asked, Refused
<1>10. LiveInv'
  <2>1. Live' => /\ ~Has("agent_start")'
                 /\ pi' \in {"between", "turn"} \/ (pi' = "idle" /\ Has("agent_settled")')
    BY <1>1, <1>3, <1>4 DEF FreeInv, LiveInv
  <2>2. Live' => \A i \in DOMAIN toPi' : toPi'[i] = Steer
    BY <1>2, <1>4 DEF FreeInv, LiveInv
  <2>3. Live' => \A i \in DOMAIN fromPi' : fromPi'[i].type = "response" => fromPi'[i] = Refusal("nudge")
    BY <1>3, <1>4 DEF FreeInv, LiveInv
  <2>4. QED
    BY <1>1, <1>4, <2>1, <2>2, <2>3 DEF LiveInv
<1>11. QED
  BY <1>3, <1>7, <1>8, <1>9, <1>10 DEF FreeInv

(* An answer, after which the engine may steer the run once.                 *)
LEMMA AnswerRead ==
  ASSUME TypeInv, FreeInv, Free, Free', OnMessageEnd
  PROVE  FreeInv'
<1> DEFINE cut     == Head(fromPi).cut
           circles == /\ Hits(Slid(Append(bloatWindow, Head(fromPi).bloated))) >= BloatHits
                      /\ MayNudge
           steer   == circles /\ ~cut /\ CanSend
<1>1. /\ fromPi \in Seq(Events) /\ toPi \in Seq(Commands) /\ fromPi # <<>> /\ fromPi' = Tail(fromPi)
      /\ Head(fromPi).type = "message_end"
      /\ UNCHANGED <<pi, doing, turningDown, settled, consecutive, recoverySent, nudgeSent>>
      /\ SendAndCheckBudget(IF steer THEN << SteeringNudge >> ELSE <<>>)
      /\ lastCut' <=> cut
      /\ nudgePending' <=> nudgePending \/ (circles /\ cut)
      /\ steer => ~cut /\ ~nudgePending
  BY DEF TypeInv, TypeOK, OnMessageEnd, Reads, piVars, MayNudge
<1> HIDE DEF cut, circles, steer
<1>2. /\ AnswerFirst' /\ StartInv' /\ OverInv' /\ ~Has("message_end")'
      /\ \A i \in DOMAIN fromPi' : i \in Nat /\ i + 1 \in DOMAIN fromPi /\ fromPi'[i] = fromPi[i + 1]
      /\ \A t : Has(t) <=> Has(t)' \/ "message_end" = t
      /\ Refused' => Refused
  BY <1>1, LineRead
<1>3. /\ ~settled /\ ~Waiting /\ ~recoverySent
      /\ \A i \in DOMAIN toPi : toPi[i] = Steer
      /\ pi \in {"between", "turn"} \/ (pi = "idle" /\ Has("agent_settled"))
      /\ ~Has("agent_start")
      /\ \A i \in DOMAIN fromPi : fromPi[i].type = "response" => fromPi[i] = Refusal("nudge")
  BY <1>1, <1>2 DEF FreeInv, LiveInv, Live, Waiting
<1>4. /\ UNCHANGED <<Busy, Waiting>> /\ ~Waiting' /\ ~settled'
      /\ Live' <=> Due'
  BY <1>1, <1>2, <1>3 DEF Busy, Waiting, Live
<1>5. "recover" \notin turningDown /\ ~Refused
  BY <1>3 DEF FreeInv, TokenInv
<1>6. /\ \A i \in DOMAIN toPi' : toPi'[i] = Steer \/ toPi'[i] = SteeringNudge
      /\ ~steer => \A i \in DOMAIN toPi' : toPi'[i] = Steer
  <2>1. CASE steer
    <3>1. toPi' = toPi \o << SteeringNudge >>
      BY <1>1, <2>1, SentAre, FreeSends
    <3>2. SteeringNudge \in Commands
      BY DEF Commands
    <3>3. \A i \in DOMAIN toPi' : (i \in DOMAIN toPi /\ toPi'[i] = toPi[i]) \/ toPi'[i] = SteeringNudge
      BY <1>1, <3>1, <3>2, Longer
    <3>4. QED
      BY <1>3, <2>1, <3>3
  <2>2. CASE ~steer
    <3>1. toPi' = toPi \o <<>>
      BY <1>1, <2>2, SentAre, FreeSends
    <3>2. toPi' = toPi
      BY <1>1, <3>1, ConcatEmptySeq
    <3>3. QED
      BY <1>3, <3>2
  <2>3. QED
    BY <2>1, <2>2
<1>7. \A of : ~Asked(of)'
  BY <1>6, CommandsDiffer DEF Asked
<1>8. CommandInv'
  BY <1>1, <1>6, CommandsDiffer DEF FreeInv, CommandInv
<1>9. KnownInv' /\ WaitInv'
  BY <1>4 DEF KnownInv, WaitInv
<1>10. WorkInv'
  BY <1>1, <1>2, <1>4, <1>7 DEF FreeInv, WorkInv
<1>11. TokenInv'
  <2>1. "recover" \notin turningDown' /\ ~Refused'
    BY <1>1, <1>2, <1>5
  <2>2. QED
    BY <1>7, <2>1 DEF TokenInv, Asked, Refused
<1>12. LiveInv'
  <2>1. Live' => ~steer
    BY <1>1, <1>4 DEF Due
  <2>2. \A i \in DOMAIN fromPi' : fromPi'[i].type = "response" => fromPi'[i] = Refusal("nudge")
    BY <1>2, <1>3
  <2>3. QED
    BY <1>1, <1>2, <1>3, <1>4, <1>6, <2>1, <2>2 DEF LiveInv
<1>13. QED
  BY <1>2, <1>8, <1>9, <1>10, <1>11, <1>12 DEF FreeInv

(* The end of a run whose last answer was cut is met by one message of the   *)
(* engine: pi is at rest, and nothing else is on its way to it.              *)
LEMMA MessageSent ==
  ASSUME TypeInv, FreeInv, OnSettled, Live, NEW of \in {"recover", "nudge"},
         toPi' = toPi \o << Prompt(of) >>, ~settled', ~Due',
         recoverySent' <=> of = "recover", nudgeSent' <=> of = "nudge"
  PROVE  FreeInv'
<1>1. /\ fromPi \in Seq(Events) /\ toPi \in Seq(Commands) /\ fromPi # <<>> /\ fromPi' = Tail(fromPi)
      /\ Head(fromPi).type = "agent_settled"
      /\ UNCHANGED <<pi, doing, turningDown>>
  BY DEF TypeInv, TypeOK, OnSettled, Reads, piVars
<1>2. /\ AnswerFirst' /\ StartInv' /\ OverInv' /\ ~Has("message_end")'
      /\ \A i \in DOMAIN fromPi' : i \in Nat /\ i + 1 \in DOMAIN fromPi /\ fromPi'[i] = fromPi[i + 1]
      /\ 1 \in DOMAIN fromPi /\ fromPi[1].type = "agent_settled"
      /\ \A t : Has(t) <=> Has(t)' \/ "agent_settled" = t
      /\ Refused' => Refused
  BY <1>1, LineRead
<1>3. /\ ~recoverySent
      /\ \A i \in DOMAIN toPi : toPi[i] = Steer
      /\ pi = "idle" /\ ~Has("agent_start")
      /\ \A i \in DOMAIN fromPi : fromPi[i].type = "response" => fromPi[i] = Refusal("nudge")
  BY <1>2 DEF FreeInv, LiveInv, OverInv, Waiting
<1>4. \A i \in DOMAIN fromPi' : i # 0 => fromPi'[i] = Refusal("nudge")
  BY <1>2, <1>3 DEF FreeInv, OverInv
<1>5. \A i \in DOMAIN fromPi' : fromPi'[i] = Refusal("nudge")
  <2>1. fromPi' \in Seq(Events)
    BY <1>1, HeadTailProperties
  <2>2. \A i \in DOMAIN fromPi' : i # 0
    BY <2>1, LenProperties
  <2>3. QED
    BY <1>4, <2>2
<1>6. Prompt(of) \in Commands /\ of \in Origins
  BY DEF Commands, Origins
<1>7. /\ Len(toPi) \in Nat /\ DOMAIN toPi = 1 .. Len(toPi) /\ DOMAIN toPi' = 1 .. Len(toPi) + 1
      /\ \A i \in 1 .. Len(toPi) : toPi'[i] = toPi[i]
      /\ toPi'[Len(toPi) + 1] = Prompt(of)
  BY <1>1, <1>6, Longer
<1>8. /\ \A i \in DOMAIN toPi' : (i \in DOMAIN toPi /\ toPi'[i] = Steer) \/ i = Len(toPi) + 1
      /\ \A i \in DOMAIN toPi' : toPi'[i] = Steer \/ toPi'[i] = Prompt(of)
  BY <1>3, <1>7
<1>9. /\ ~Has("agent_settled")' /\ ~Refused' /\ ~Known' /\ ~Busy' /\ Own' = of /\ ~Live'
      /\ "recover" \notin turningDown /\ ~Asked("task")'
  <2>1. ~Has("agent_settled")' /\ ~Refused' /\ ~Has("message_end")'
    BY <1>2, <1>5, RefusalsDiffer DEF Has, Refused
  <2>2. ~Known' /\ ~Busy'
    BY <1>1, <1>3 DEF Known, Busy
  <2>3. Own' = of
    BY DEF Own
  <2>4. "recover" \notin turningDown
    BY <1>3 DEF FreeInv, TokenInv
  <2>5. ~Asked("task")'
    BY <1>8, CommandsDiffer DEF Asked
  <2>6. ~Live'
    BY <2>1 DEF Live
  <2>7. QED
    BY <2>1, <2>2, <2>3, <2>4, <2>5, <2>6
<1>10. CommandInv'
  BY <1>1, <1>8, CommandsDiffer DEF FreeInv, CommandInv
<1>11. KnownInv' /\ WorkInv' /\ LiveInv'
  BY <1>1, <1>3, <1>9 DEF KnownInv, WorkInv, LiveInv
<1>12. WaitInv'
  BY <1>5, <1>8, <1>9 DEF WaitInv
<1>13. TokenInv'
  <2>1. Asked("recover")' => of = "recover"
    BY <1>8, CommandsDiffer DEF Asked
  <2>2. \A i, j \in DOMAIN toPi' : toPi'[i] = Prompt("recover") /\ toPi'[j] = Prompt("recover") => i = j
    BY <1>8, CommandsDiffer
  <2>3. QED
    BY <1>1, <1>3, <1>9, <2>1, <2>2 DEF TokenInv, Refused
<1>14. QED
  BY <1>2, <1>10, <1>11, <1>12, <1>13 DEF FreeInv

(* The end of a run that asks for nothing.                                   *)
LEMMA RunOver ==
  ASSUME TypeInv, FreeInv, Free, Free', SettledOver
  PROVE  FreeInv'
<1>1. /\ fromPi \in Seq(Events) /\ toPi \in Seq(Commands) /\ fromPi # <<>> /\ fromPi' = Tail(fromPi)
      /\ Head(fromPi).type = "agent_settled"
      /\ UNCHANGED <<pi, doing, turningDown, lastCut, recoverySent, nudgeSent, nudgePending>>
      /\ settled' /\ ~nudgePending /\ ~Recovers
      /\ consecutive' = IF lastCut THEN consecutive ELSE 0
      /\ SendAndCheckBudget(<<>>)
  BY DEF TypeInv, TypeOK, SettledOver, OnSettled, Reads, piVars
<1>2. toPi' = toPi
  <2>1. toPi' = toPi \o <<>>
    BY <1>1, SentAre, FreeSends
  <2>2. QED
    BY <1>1, <2>1, ConcatEmptySeq
<1>3. /\ AnswerFirst' /\ StartInv' /\ OverInv' /\ ~Has("message_end")'
      /\ \A i \in DOMAIN fromPi' : i \in Nat /\ i + 1 \in DOMAIN fromPi /\ fromPi'[i] = fromPi[i + 1]
      /\ 1 \in DOMAIN fromPi /\ fromPi[1].type = "agent_settled"
      /\ \A t : Has(t) <=> Has(t)' \/ "agent_settled" = t
      /\ Refused' => Refused
  BY <1>1, LineRead
<1>4. ~Due' /\ ~Live'
  <2>1. lastCut => ~(consecutive < Retries)
    BY <1>1 DEF Free, Recovers, Blocked
  <2>2. ~Due'
    BY <1>1, <2>1 DEF Due
  <2>3. QED
    BY <1>3, <2>2 DEF Live
<1>5. ~recoverySent /\ ~nudgeSent /\ ~Waiting'
  BY <1>1, <1>3 DEF FreeInv, KnownInv, Waiting
<1>6. ~Has("agent_settled")'
  <2>1. \A i \in DOMAIN fromPi' : i # 0
    <3>1. fromPi' \in Seq(Events)
      BY <1>1, HeadTailProperties
    <3>2. QED
      BY <3>1, LenProperties
  <2>2. \A i \in DOMAIN fromPi' : fromPi'[i].type # "agent_settled"
    BY <1>3, <2>1 DEF FreeInv, OverInv
  <2>3. QED
    BY <2>2 DEF Has
<1>7. ~Known'
  BY <1>1, <1>3 DEF FreeInv, OverInv, Known
<1>8. /\ ~(Busy' /\ doing' \in Work) /\ ~Asked("task")' /\ ~Asked("recover")'
      /\ "recover" \notin turningDown /\ ~Refused
  BY <1>1, <1>2, <1>3, <1>5 DEF FreeInv, WorkInv, TokenInv, Busy, Asked
<1>9. CommandInv' /\ KnownInv' /\ WorkInv' /\ WaitInv' /\ LiveInv'
  BY <1>1, <1>2, <1>4, <1>5, <1>6, <1>7, <1>8
     DEF FreeInv, CommandInv, KnownInv, WorkInv, WaitInv, LiveInv
<1>10. TokenInv'
  BY <1>1, <1>3, <1>8 DEF TokenInv, Asked, Refused
<1>11. QED
  BY <1>3, <1>9, <1>10 DEF FreeInv

LEMMA GivenUp ==
  ASSUME FreeInv, GiveUpWaiting
  PROVE  FreeInv'
<1>1. /\ toPi = <<>> /\ fromPi = <<>> /\ pi = "idle" /\ turningDown = {}
      /\ toPi' = <<>> /\ fromPi' = <<>> /\ pi' = "idle" /\ turningDown' = {}
      /\ UNCHANGED <<lastCut, consecutive, nudgePending>>
  BY DEF GiveUpWaiting, QuietPipes, piVars, nudging
<1>2. /\ ~(\E i \in DOMAIN toPi' : TRUE) /\ ~(\E i \in DOMAIN fromPi' : TRUE)
      /\ \A t : ~Has(t) /\ ~Has(t)'
      /\ \A of : ~Asked(of)'
      /\ ~Refused' /\ ~Known' /\ ~Busy'
  BY <1>1 DEF Has, Asked, Refused, Known, Busy
<1>3. ~(recoverySent /\ nudgeSent) /\ Waiting /\ ~Waiting'
  BY DEF FreeInv, WaitInv, Waiting, GiveUpWaiting
<1>4. ~Live'
  <2>1. ~Due
    BY <1>3 DEF FreeInv, LiveInv, Live
  <2>2. QED
    BY <1>1, <1>2, <2>1 DEF Live, Due
<1>5. CommandInv' /\ AnswerFirst' /\ StartInv' /\ OverInv'
  BY <1>1, <1>2 DEF CommandInv, AnswerFirst, StartInv, OverInv
<1>6. KnownInv' /\ WorkInv' /\ WaitInv' /\ LiveInv'
  BY <1>2, <1>3, <1>4 DEF KnownInv, WorkInv, WaitInv, LiveInv
<1>7. TokenInv'
  BY <1>1, <1>2 DEF TokenInv
<1>8. QED
  BY <1>5, <1>6, <1>7 DEF FreeInv

(* A message of the user is a prompt when the detector is armed, and steers  *)
(* the run that the engine waits for when it is not.                         *)
LEMMA UserSent ==
  ASSUME TypeInv, FreeInv, Free, UserSteers
  PROVE  FreeInv'
<1>1. PICK c \in {Prompt("user"), Steer} :
        /\ toPi' = toPi \o << c >> /\ c = (IF settled THEN Prompt("user") ELSE Steer)
        /\ ~settled' /\ UNCHANGED <<pi, doing, turningDown, fromPi>>
        /\ UNCHANGED <<lastCut, consecutive, nudgePending, recoverySent, nudgeSent>>
        /\ toPi \in Seq(Commands) /\ c \in Commands
  BY DEF TypeInv, TypeOK, UserSteers, Free, CanSend, piVars, nudging, Commands, Origins
<1>2. /\ Len(toPi) \in Nat /\ DOMAIN toPi = 1 .. Len(toPi) /\ DOMAIN toPi' = 1 .. Len(toPi) + 1
      /\ \A i \in 1 .. Len(toPi) : toPi'[i] = toPi[i]
      /\ toPi'[Len(toPi) + 1] = c
  BY <1>1, Longer
<1>3. \A i \in DOMAIN toPi' : (i \in DOMAIN toPi /\ toPi'[i] = toPi[i]) \/ toPi'[i] = c
  BY <1>2
<1>4. c # Abort /\ c # Prompt("task") /\ c # Prompt("recover")
  BY <1>1, CommandsDiffer
<1>5. /\ UNCHANGED <<Busy, Known, Waiting, Own, Due, Live, Refused>>
      /\ \A t : Has(t)' <=> Has(t)
      /\ Asked("task")' <=> Asked("task")
      /\ Asked("recover")' <=> Asked("recover")
  BY <1>1, <1>4, AskedLonger DEF Busy, Known, Waiting, Own, Due, Live, Refused, Has
<1>6. (Waiting \/ Live) => c = Steer
  BY <1>1 DEF FreeInv, WaitInv, LiveInv
<1>7. CommandInv' /\ AnswerFirst' /\ StartInv' /\ OverInv'
  <2>1. CommandInv'
    BY <1>1, <1>3, <1>4 DEF FreeInv, CommandInv
  <2>2. AnswerFirst' /\ StartInv' /\ OverInv'
    BY <1>1, <1>5 DEF FreeInv, AnswerFirst, StartInv, OverInv
  <2>3. QED
    BY <2>1, <2>2
<1>8. KnownInv' /\ WorkInv'
  BY <1>1, <1>5 DEF FreeInv, KnownInv, WorkInv
<1>9. WaitInv'
  BY <1>1, <1>3, <1>5, <1>6 DEF FreeInv, WaitInv
<1>10. TokenInv'
  BY <1>1, <1>3, <1>4, <1>5 DEF FreeInv, TokenInv
<1>11. LiveInv'
  BY <1>1, <1>3, <1>5, <1>6 DEF FreeInv, LiveInv
<1>12. QED
  BY <1>7, <1>8, <1>9, <1>10, <1>11 DEF FreeInv

LEMMA EventsKeepCut ==
  ASSUME TypeInv, FreeInv, Free, Free', HandlesEvent
  PROVE  FreeInv'
<1>1. toPi \in Seq(Commands) /\ CanSend
  BY DEF TypeInv, TypeOK, Free, CanSend
<1>2. CASE SettledNudge
  <2>1. /\ OnSettled /\ nudgePending /\ ~nudgePending' /\ ~settled' /\ nudgeSent' /\ ~lastCut'
        /\ recoverySent' = recoverySent /\ SendAndCheckBudget(<< Prompt("nudge") >>)
    BY <1>1, <1>2 DEF SettledNudge
  <2>2. Live /\ ~Due'
    BY <2>1 DEF Live, Due
  <2>3. ~recoverySent
    BY <2>2 DEF FreeInv, LiveInv, Waiting
  <2>4. toPi' = toPi \o << Prompt("nudge") >>
    BY <1>1, <2>1, SentAre, FreeSends DEF Origins
  <2>5. QED
    BY <2>1, <2>2, <2>3, <2>4, MessageSent
<1>3. CASE SettledRecover
  <2>1. /\ OnSettled /\ ~nudgePending /\ ~nudgePending' /\ ~settled' /\ recoverySent' /\ ~lastCut'
        /\ lastCut /\ consecutive < Retries
        /\ nudgeSent' = nudgeSent /\ SendAndCheckBudget(<< Prompt("recover") >>)
    BY <1>1, <1>3 DEF SettledRecover, Recovers, ReasonAnswered
  <2>2. Live /\ ~Due'
    BY <2>1 DEF Live, Due
  <2>3. ~nudgeSent
    BY <2>2 DEF FreeInv, LiveInv, Waiting
  <2>4. toPi' = toPi \o << Prompt("recover") >>
    BY <1>1, <2>1, SentAre, FreeSends DEF Origins
  <2>5. QED
    BY <2>1, <2>2, <2>3, <2>4, MessageSent
<1>4. QED
  BY <1>2, <1>3, RefusalRead, StartRead, AnswerRead, RunOver DEF HandlesEvent

(* Whoever stopped the run, or ended it, does not take that back.            *)
LEMMA FreeBefore == TypeInv /\ [Next]_vars /\ Free' => Free
<1> SUFFICES ASSUME TypeInv, [Next]_vars, Free' PROVE Free
  OBVIOUS
<1>1. CASE PiWorks \/ PiIsGone
  <2>1. UNCHANGED <<phase, aborted, budgetStop>>
    BY <1>1 DEF PiWorks, PiIsGone, PiReadsPrompt, PiTurnsDown, PiReadsControl, PiBegins,
         PiTakesTurn, PiAnswers, PiSettles, Emits, engine, stops
  <2>2. pi # "gone"
    BY <1>1 DEF PiWorks, PiIsGone, PiReadsPrompt, PiTurnsDown, PiReadsControl, PiBegins,
         PiTakesTurn, PiAnswers, PiSettles
  <2>3. QED
    BY <2>1, <2>2 DEF Free
<1>2. CASE HandlesEvent
  <2>1. UNCHANGED <<pi, phase, aborted>>
    BY <1>2 DEF HandlesEvent, OnRefusal, OnStart, OnMessageEnd, SettledNudge, SettledRecover, SettledOver,
         OnSettled, Reads, piVars
  <2>2. budgetStop => budgetStop'
    BY <1>2 DEF HandlesEvent, OnRefusal, OnStart, OnMessageEnd, SettledNudge, SettledRecover, SettledOver,
         SendAndCheckBudget
  <2>3. QED
    BY <2>1, <2>2 DEF Free
<1>3. CASE GiveUpWaiting \/ CloseSession \/ Return \/ UserSteers
  BY <1>3 DEF GiveUpWaiting, CloseSession, Return, UserSteers, Free, piVars, stops
<1>4. CASE UserAborts
  BY <1>4 DEF UserAborts, Free
<1>5. CASE UNCHANGED vars
  BY <1>5 DEF vars, piVars, engine, stops, Free
<1>6. QED
  BY <1>1, <1>2, <1>3, <1>4, <1>5 DEF Next, Engine

LEMMA NothingMoved ==
  ASSUME FreeInv,
         UNCHANGED <<pi, doing, turningDown, toPi, fromPi, settled, lastCut, consecutive, recoverySent,
                     nudgeSent, nudgePending>>
  PROVE  FreeInv'
<1>1. /\ UNCHANGED <<Busy, Known, Waiting, Own, Due, Live, Refused>>
      /\ \A t : Has(t)' <=> Has(t)
      /\ \A of : Asked(of)' <=> Asked(of)
  BY DEF Busy, Known, Waiting, Own, Due, Live, Refused, Has, Asked
<1>2. CommandInv' /\ AnswerFirst'
  BY DEF FreeInv, CommandInv, AnswerFirst
<1>3. StartInv' /\ OverInv'
  BY <1>1 DEF FreeInv, StartInv, OverInv
<1>4. KnownInv' /\ WorkInv'
  BY <1>1 DEF FreeInv, KnownInv, WorkInv
<1>5. WaitInv'
  BY <1>1 DEF FreeInv, WaitInv
<1>6. TokenInv'
  BY <1>1 DEF FreeInv, TokenInv
<1>7. LiveInv'
  BY <1>1 DEF FreeInv, LiveInv
<1>8. QED
  BY <1>2, <1>3, <1>4, <1>5, <1>6, <1>7 DEF FreeInv

LEMMA StepKeepsCut == TypeInv /\ CutInv /\ [Next]_vars => CutInv'
<1> SUFFICES ASSUME TypeInv, CutInv, [Next]_vars, Free' PROVE FreeInv'
  BY DEF CutInv
<1>1. Free /\ FreeInv
  BY FreeBefore DEF CutInv
<1>2. CASE PiWorks
  BY <1>1, <1>2, PiKeepsCut
<1>3. CASE HandlesEvent
  BY <1>1, <1>3, EventsKeepCut
<1>4. CASE GiveUpWaiting
  BY <1>1, <1>4, GivenUp
<1>5. CASE UserSteers
  BY <1>1, <1>5, UserSent
<1>6. CASE PiIsGone \/ CloseSession \/ Return \/ UserAborts
  BY <1>1, <1>6 DEF PiIsGone, CloseSession, Return, UserAborts, Free
<1>7. CASE UNCHANGED vars
  BY <1>1, <1>7, NothingMoved DEF vars, piVars, engine, nudging
<1>8. QED
  BY <1>2, <1>3, <1>4, <1>5, <1>6, <1>7 DEF Next, Engine

(* The session of a run that is not stopped is never closed while pi is at   *)
(* the task or at a continuation, for any ceilings and any number of turns,  *)
(* continuations, nudges and messages of the user, and wherever the lines    *)
(* are in the two pipes.                                                     *)
THEOREM WorkIsNotCutShort == Spec => NoWorkCutShort
<1>1. TypeInv /\ CutInv /\ [Next]_vars =>
        [phase = "running" /\ phase' = "closing" /\ ~aborted /\ ~budgetStop =>
           ~Busy \/ doing \notin {"task", "recover"}]_vars
  <2> SUFFICES ASSUME TypeInv, CutInv, Next, phase = "running", phase' = "closing", ~aborted, ~budgetStop,
                      Busy, doing \in {"task", "recover"}
               PROVE  FALSE
    OBVIOUS
  <2>1. pi # "gone" /\ Free /\ FreeInv
    BY DEF Busy, Free, CutInv
  <2>2. ~settled
    BY <2>1 DEF FreeInv, WorkInv, Work
  <2>3. phase' = phase
    <3>1. CASE PiWorks \/ PiIsGone
      BY <3>1 DEF PiWorks, PiIsGone, PiReadsPrompt, PiTurnsDown, PiReadsControl, PiBegins,
           PiTakesTurn, PiAnswers, PiSettles, Emits, engine
    <3>2. CASE HandlesEvent
      BY <3>2 DEF HandlesEvent, OnRefusal, OnStart, OnMessageEnd, SettledNudge, SettledRecover, SettledOver,
           OnSettled, Reads
    <3>3. CASE GiveUpWaiting \/ UserSteers \/ UserAborts
      BY <3>3 DEF GiveUpWaiting, UserSteers, UserAborts
    <3>4. CASE CloseSession \/ Return
      BY <2>1, <2>2, <3>4 DEF CloseSession, Return
    <3>5. QED
      BY <3>1, <3>2, <3>3, <3>4 DEF Next, Engine
  <2>4. QED
    BY <2>3
<1>2. Spec => [](TypeInv /\ CutInv)
  BY InitTypes, StepKeepsTypes, InitCut, StepKeepsCut, PTL DEF Spec
<1>3. QED
  BY <1>1, <1>2, PTL DEF Spec, NoWorkCutShort
=============================================================================
