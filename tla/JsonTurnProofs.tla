---------------------------- MODULE JsonTurnProofs ----------------------------
(***************************************************************************)
(* What holds of a job of the one-shot engine, with any ceilings, any      *)
(* number of continuations and any number of events.                       *)
(***************************************************************************)
EXTENDS JsonTurn, TLAPS

LEMMA AppliedIs ==
  ASSUME NEW turn \in TurnState, NEW event \in Events
  PROVE  /\ Applied(turn, event) \in TurnState
         /\ Applied(turn, event).usage \in {turn.usage, turn.usage + 1}
         /\ turn.text => Applied(turn, event).text
<1>1. CASE event = SessionEvent
  BY <1>1 DEF Applied, SessionEvent, TurnState
<1>2. CASE event = ErrorEvent
  BY <1>2 DEF Applied, ErrorEvent, TurnState
<1>3. CASE \E r \in Reasons, t \in BOOLEAN : event = MessageEnd(r, t)
  <2>1. PICK r \in Reasons, t \in BOOLEAN : event = MessageEnd(r, t)
    BY <1>3
  <2>2. event.type = "message_end" /\ event.reason = r /\ event.text = t
    BY <2>1 DEF MessageEnd
  <2>3. Applied(turn, event) =
          [turn EXCEPT !.text = turn.text \/ t, !.usage = turn.usage + 1,
                       !.reason = IF r = "none" THEN turn.reason ELSE r]
    BY <2>2 DEF Applied, TurnState
  <2>4. /\ turn.text \/ t \in BOOLEAN
        /\ turn.usage + 1 \in Nat
        /\ (IF r = "none" THEN turn.reason ELSE r) \in Reasons
        /\ turn.usage \in Nat /\ turn.text \in BOOLEAN
        /\ turn.session \in BOOLEAN /\ turn.failed \in BOOLEAN
    BY DEF TurnState
  <2>5. Applied(turn, event) = [session |-> turn.session, text |-> turn.text \/ t,
                                reason |-> IF r = "none" THEN turn.reason ELSE r,
                                usage |-> turn.usage + 1, failed |-> turn.failed]
    BY <2>3 DEF TurnState
  <2>6. Applied(turn, event) \in TurnState
    BY <2>4, <2>5 DEF TurnState
  <2>7. Applied(turn, event).usage = turn.usage + 1
    BY <2>5
  <2>8. Applied(turn, event).text = (turn.text \/ t)
    BY <2>5
  <2>9. turn.text => Applied(turn, event).text
    BY <2>8, Zenon
  <2>10. QED
    BY <2>6, <2>7, <2>9
<1>4. QED
  BY <1>1, <1>2, <1>3 DEF Events

(* The result so far, of a job that has none yet too.                        *)
TextOf == IF result = <<>> THEN {} ELSE ToSet(result.text)

LEMMA NoResult == <<>> \notin Result /\ FreshTurn \in TurnState
BY DEF Result, FreshTurn, TurnState, Reasons
-----------------------------------------------------------------------------
Before   == {"opening", "git", "settling", "begin", "slot", "spawn", "continue"}
Reading  == {"stream", "exited"}

(* Passes are counted as the continuations are.                              *)
PassCount ==
  /\ phase \in Before => passes = recovered
  /\ phase \in Reading \cup {"decide"} => passes = recovered + 1

(* The proxies open in order, and a closed one is not opened again.          *)
ProxyInv ==
  /\ phase = "opening" => proxy = "none"
  /\ phase \in {"opening", "git"} => gitProxy = "none"
  /\ ProxiesLiveWithTheRun

(* A pi that works is read, or its run throws.                               *)
PiInv ==
  /\ phase \notin {"stream", "closing", "threw"} => pi # "running"
  /\ phase = "closing" /\ result # <<>> => pi # "running"
  /\ phase \in {"decide", "continue", "returned"} => result # <<>>
  /\ phase = "exited" => stdout = <<>>

(* The answer so far has a part of each pass that said something, in order.  *)
AnswerInv ==
  /\ phase \in Before \cup {"decide"} => said = TextOf
  /\ phase \in Reading => said = TextOf \cup (IF state.text THEN {passes} ELSE {})
  /\ phase \in {"closing", "returned"} /\ result # <<>> => said = TextOf
  /\ result # <<>> =>
       /\ \A i, j \in DOMAIN result.text : i < j => result.text[i] < result.text[j]
       /\ \A i \in DOMAIN result.text :
            result.text[i] <= passes /\ (phase \in Reading => result.text[i] < passes)

(* A pass that was stopped has no more to add than what was in the pipe.     *)
BudgetInv ==
  /\ BudgetBoundsTheJob
  /\ phase \in Before => SpentBefore <= MaxUsage
  /\ phase = "decide" => result.stopped \/ result.usage <= MaxUsage
  /\ phase \in Reading =>
       /\ ~stopped => SpentBefore + state.usage <= MaxUsage
       /\ stopped => /\ pi # "running"
                     /\ SpentBefore + state.usage + Len(stdout) <= MaxUsage + 1 + PipeBound

JobInv == TypeOK /\ PassCount /\ ProxyInv /\ PiInv /\ AnswerInv /\ BudgetInv

LEMMA InitInv == Init => JobInv
<1> SUFFICES ASSUME Init PROVE JobInv
  OBVIOUS
<1> USE JsonTurnAssumption
<1>1. TypeOK
  <2>1. phase \in Phases /\ {proxy, gitProxy} \subseteq {"none", "open", "closed"}
    BY DEF Init, Phases
  <2>2. now \in 0 .. Horizon /\ waitingSince \in 0 .. Horizon /\ passTimeout \in Int
          /\ timer \in {None} \cup Nat
    BY DEF Init
  <2>3. stdout \in Seq(Events) /\ Len(stdout) <= PipeBound
    BY DEF Init
  <2>4. state \in TurnState /\ stopped \in BOOLEAN /\ result \in {<<>>} \cup Result
    BY NoResult DEF Init
  <2>5. /\ passes \in 0 .. Retries + 1 /\ pi \in {"none", "running", "gone", "failed"}
        /\ written \in 0 .. PassBound /\ recovered \in 0 .. Retries
        /\ said \subseteq 1 .. Retries + 1
    BY DEF Init
  <2>6. QED
    BY <2>1, <2>2, <2>3, <2>4, <2>5 DEF TypeOK
<1>2. PassCount /\ ProxyInv /\ PiInv
  BY DEF Init, PassCount, Before, Reading, ProxyInv, ProxiesLiveWithTheRun, Over, PiInv
<1>3. AnswerInv
  BY DEF Init, AnswerInv, Before, Reading, TextOf
<1>4. BudgetInv
  BY DEF Init, BudgetInv, BudgetBoundsTheJob, Before, Reading, SpentBefore
<1>5. QED
  BY <1>1, <1>2, <1>3, <1>4 DEF JobInv
-----------------------------------------------------------------------------
(* Steps that leave the passes, the events and the answer alone.             *)
results == <<passes, piVars, state, stopped, result, said>>

LEMMA QuietSteps ==
  ASSUME JobInv,
         \/ OpenCredentialProxy \/ OpenGitProxy \/ SettlePorts
         \/ BeginPass \/ TakeSlot \/ Continue \/ Tick
  PROVE  JobInv'
<1> USE JsonTurnAssumption
<1>0. UNCHANGED results /\ UNCHANGED recovered
  BY DEF OpenCredentialProxy, OpenGitProxy, SettlePorts, BeginPass, TakeSlot, Continue, Tick,
         results, clock
<1>1. TypeOK'
  <2>1. /\ phase' \in Phases /\ {proxy', gitProxy'} \subseteq {"none", "open", "closed"}
    BY DEF JobInv, TypeOK, Phases, OpenCredentialProxy, OpenGitProxy, SettlePorts, BeginPass,
           TakeSlot, Continue, Tick
  <2>2. /\ now' \in 0 .. Horizon /\ waitingSince' \in 0 .. Horizon
        /\ passTimeout' \in Int /\ timer' \in {None} \cup Nat
    BY DEF JobInv, TypeOK, OpenCredentialProxy, OpenGitProxy, SettlePorts, BeginPass,
           TakeSlot, Continue, Remaining, Tick, clock
  <2>3. QED
    BY <1>0, <2>1, <2>2 DEF JobInv, TypeOK, results, piVars
<1>2. \/ phase' = phase
      \/ phase \in Before /\ phase' \in Before
  BY DEF OpenCredentialProxy, OpenGitProxy, SettlePorts, BeginPass, TakeSlot, Continue, Tick, Before
<1>3. PassCount'
  BY <1>0, <1>2 DEF JobInv, PassCount, Before, Reading, results
<1>4. ProxyInv'
  BY DEF JobInv, ProxyInv, ProxiesLiveWithTheRun, Over, OpenCredentialProxy, OpenGitProxy,
         SettlePorts, BeginPass, TakeSlot, Continue, Tick
<1>5. PiInv'
  <2>1. phase' \in {"continue", "decide", "returned", "exited", "stream", "closing", "threw"}
          => phase' = phase
    BY DEF OpenCredentialProxy, OpenGitProxy, SettlePorts, BeginPass, TakeSlot, Continue, Tick
  <2>2. QED
    BY <1>0, <1>2, <2>1 DEF JobInv, PiInv, Before, results, piVars
<1>6. AnswerInv'
  <2>1. TextOf' = TextOf
    BY <1>0 DEF TextOf, results
  <2>2. QED
    BY <1>0, <1>2, <2>1 DEF JobInv, AnswerInv, Before, Reading, results
<1>7. BudgetInv'
  <2>1. SpentBefore' = SpentBefore
    BY <1>0 DEF SpentBefore, results
  <2>2. QED
    BY <1>0, <1>2, <2>1 DEF JobInv, BudgetInv, BudgetBoundsTheJob, Before, Reading, results, piVars
<1>8. QED
  BY <1>1, <1>3, <1>4, <1>5, <1>6, <1>7 DEF JobInv

(* A run that throws has no answer.                                          *)
LEMMA ThrowingSteps ==
  ASSUME JobInv, GiveUpOnSlot \/ SpawnThrows
  PROVE  JobInv'
<1> USE JsonTurnAssumption
<1>1. /\ phase' = "closing" /\ result' = <<>>
      /\ phase \in {"slot", "spawn"}
      /\ pi' \in {"none", "running", "gone", "failed"}
      /\ UNCHANGED <<proxy, gitProxy, clock, passes, written, stdout, state, stopped, recovered, said>>
  BY DEF JobInv, TypeOK, GiveUpOnSlot, SpawnThrows, piVars
<1>2. TypeOK'
  BY <1>1 DEF JobInv, TypeOK, clock, Phases
<1>3. PassCount' /\ PiInv'
  BY <1>1 DEF JobInv, PassCount, PiInv, Before, Reading
<1>4. ProxyInv'
  BY <1>1 DEF JobInv, ProxyInv, ProxiesLiveWithTheRun, Over
<1>5. AnswerInv'
  BY <1>1 DEF AnswerInv, Before, Reading
<1>6. BudgetInv'
  BY <1>1 DEF BudgetInv, BudgetBoundsTheJob, Before, Reading
<1>7. QED
  BY <1>2, <1>3, <1>4, <1>5, <1>6 DEF JobInv
LEMMA SpawnStep ==
  ASSUME JobInv, SpawnPi
  PROVE  JobInv'
<1> USE JsonTurnAssumption
<1>1. /\ phase = "spawn" /\ phase' = "stream"
      /\ passes' = passes + 1 /\ passes = recovered
      /\ pi' = "running" /\ stdout' = <<>> /\ state' = FreshTurn /\ stopped' = FALSE
      /\ UNCHANGED <<proxy, gitProxy, now, waitingSince, passTimeout, result, recovered, said>>
  BY DEF JobInv, PassCount, Before, SpawnPi
<1>2. FreshTurn.usage = 0 /\ ~FreshTurn.text
  BY DEF FreshTurn
<1>3. TypeOK'
  <2>1. timer' \in {None} \cup Nat
    BY DEF JobInv, TypeOK, SpawnPi
  <2>2. passes' \in 0 .. Retries + 1 /\ written' \in 0 .. PassBound
    BY <1>1 DEF JobInv, TypeOK, SpawnPi
  <2>3. stdout' \in Seq(Events) /\ Len(stdout') <= PipeBound
    BY <1>1
  <2>4. state' \in TurnState /\ stopped' \in BOOLEAN
    BY <1>1, NoResult
  <2>5. phase' \in Phases /\ pi' \in {"none", "running", "gone", "failed"}
    BY <1>1 DEF Phases
  <2>6. QED
    BY <1>1, <2>1, <2>2, <2>3, <2>4, <2>5 DEF JobInv, TypeOK
<1>4. PassCount' /\ PiInv'
  BY <1>1 DEF JobInv, PassCount, PiInv, Before, Reading
<1>5. ProxyInv'
  BY <1>1 DEF JobInv, ProxyInv, ProxiesLiveWithTheRun, Over
<1>6. AnswerInv'
  <2>1. TextOf' = TextOf /\ said' = TextOf
    BY <1>1 DEF JobInv, AnswerInv, Before, TextOf
  <2>2. ~state'.text
    BY <1>1, <1>2
  <2>3. result' # <<>> =>
          /\ \A i, j \in DOMAIN result'.text : i < j => result'.text[i] < result'.text[j]
          /\ \A i \in DOMAIN result'.text : result'.text[i] < passes' /\ result'.text[i] <= passes'
    <3>1. SUFFICES ASSUME result # <<>>
                   PROVE  /\ \A i, j \in DOMAIN result.text : i < j => result.text[i] < result.text[j]
                          /\ \A i \in DOMAIN result.text :
                               result.text[i] < passes + 1 /\ result.text[i] <= passes + 1
      BY <1>1
    <3>2. result.text \in Seq(Nat) /\ passes \in Nat
      BY <3>1 DEF JobInv, TypeOK, Result
    <3>3. \A i \in DOMAIN result.text : result.text[i] \in Nat /\ result.text[i] <= passes
      BY <3>1, <3>2 DEF JobInv, AnswerInv
    <3>4. QED
      BY <3>1, <3>2, <3>3 DEF JobInv, AnswerInv
  <2>4. QED
    BY <1>1, <2>1, <2>2, <2>3 DEF AnswerInv, Before, Reading
<1>7. BudgetInv'
  <2>1. SpentBefore' = SpentBefore /\ SpentBefore <= MaxUsage
    BY <1>1 DEF JobInv, BudgetInv, Before, SpentBefore
  <2>2. SpentBefore \in Nat
    BY DEF JobInv, TypeOK, Result, SpentBefore
  <2>3. SpentBefore' + state'.usage <= MaxUsage
    BY <1>1, <1>2, <2>1, <2>2
  <2>4. QED
    BY <1>1, <2>3 DEF JobInv, BudgetInv, BudgetBoundsTheJob, Before, Reading
<1>8. QED
  BY <1>3, <1>4, <1>5, <1>6, <1>7 DEF JobInv
-----------------------------------------------------------------------------
LEMMA PiWritesStep ==
  ASSUME JobInv, PiWrites
  PROVE  JobInv'
<1> USE JsonTurnAssumption
<1>1. /\ pi = "running" /\ phase = "stream" /\ ~stopped
      /\ UNCHANGED <<phase, proxy, gitProxy, clock, passes, pi, state, stopped, result, recovered, said>>
  BY DEF JobInv, BudgetInv, Reading, PiWrites
<1>2. stdout' \in Seq(Events) /\ Len(stdout') <= PipeBound
  <2>1. PICK e \in Events : stdout' = Append(stdout, e)
    BY DEF PiWrites, Emit, Events
  <2>2. QED
    BY <2>1 DEF JobInv, TypeOK, PiWrites
<1>3. TypeOK'
  BY <1>1, <1>2 DEF JobInv, TypeOK, PiWrites, clock
<1>4. PassCount' /\ PiInv'
  BY <1>1 DEF JobInv, PassCount, PiInv
<1>5. ProxyInv'
  BY <1>1 DEF JobInv, ProxyInv, ProxiesLiveWithTheRun, Over
<1>6. AnswerInv'
  BY <1>1 DEF JobInv, AnswerInv, TextOf
<1>7. BudgetInv'
  BY <1>1 DEF JobInv, BudgetInv, BudgetBoundsTheJob, Before, Reading, SpentBefore
<1>8. QED
  BY <1>3, <1>4, <1>5, <1>6, <1>7 DEF JobInv

(* pi goes, by itself or because the timer fired.                            *)
LEMMA PiGoes ==
  ASSUME JobInv, PiExits \/ TimerFires
  PROVE  JobInv'
<1> USE JsonTurnAssumption
<1>1. /\ pi' \in {"none", "gone", "failed"}
      /\ phase \in {"stream", "closing", "threw"}
      /\ UNCHANGED <<phase, proxy, gitProxy, now, waitingSince, passTimeout, passes, written, stdout,
                     state, result, recovered, said>>
  BY DEF JobInv, TypeOK, PiInv, PiExits, TimerFires, clock
<1>3. TypeOK'
  BY <1>1 DEF JobInv, TypeOK, PiExits, TimerFires, clock, None
<1>4. PassCount' /\ PiInv'
  BY <1>1 DEF JobInv, PassCount, PiInv
<1>5. ProxyInv'
  BY <1>1 DEF JobInv, ProxyInv, ProxiesLiveWithTheRun, Over
<1>6. AnswerInv'
  BY <1>1 DEF JobInv, AnswerInv, TextOf
<1>7. BudgetInv'
  <2>1. SpentBefore' = SpentBefore
    BY <1>1 DEF SpentBefore
  <2>2. phase \in Reading =>
          SpentBefore + state.usage + Len(stdout) <= MaxUsage + 1 + PipeBound
    <3>1. SpentBefore \in Nat /\ state.usage \in Nat /\ Len(stdout) \in 0 .. PipeBound
      BY DEF JobInv, TypeOK, Result, TurnState, SpentBefore
    <3>2. QED
      BY <3>1 DEF JobInv, BudgetInv
  <2>3. phase \in Reading /\ ~stopped' => SpentBefore + state.usage <= MaxUsage
    BY DEF JobInv, BudgetInv, PiExits, TimerFires
  <2>4. QED
    BY <1>1, <2>1, <2>2, <2>3 DEF JobInv, BudgetInv, BudgetBoundsTheJob, Before, Reading
<1>8. QED
  BY <1>3, <1>4, <1>5, <1>6, <1>7 DEF JobInv

LEMMA ReadStep ==
  ASSUME JobInv, ReadEvent
  PROVE  JobInv'
<1> USE JsonTurnAssumption
<1>1. /\ phase = "stream" /\ phase' = phase /\ stdout # <<>>
      /\ stdout' = Tail(stdout)
      /\ state' = Applied(state, Head(stdout))
      /\ pi' \in {pi, "failed"}
      /\ UNCHANGED <<proxy, gitProxy, clock, passes, written, result, recovered>>
  BY DEF ReadEvent
<1>2. /\ stdout' \in Seq(Events) /\ Len(stdout') = Len(stdout) - 1 /\ Len(stdout) \in 1 .. PipeBound
      /\ Head(stdout) \in Events
  BY <1>1 DEF JobInv, TypeOK
<1>3. /\ state' \in TurnState /\ state'.usage \in {state.usage, state.usage + 1}
      /\ state.text => state'.text
  BY <1>1, <1>2, AppliedIs DEF JobInv, TypeOK
<1>4. said' = IF state'.text THEN said \cup {passes} ELSE said
  BY DEF ReadEvent
<1>5. passes \in 1 .. Retries + 1
  BY <1>1 DEF JobInv, TypeOK, PassCount, Reading
<1>6. \/ OverBudget(state'.usage) /\ ~stopped /\ stopped'
           /\ pi' = IF pi = "running" THEN "failed" ELSE pi
      \/ ~(OverBudget(state'.usage) /\ ~stopped) /\ UNCHANGED <<stopped, pi>>
  BY DEF ReadEvent
<1>7. TypeOK'
  <2>1. stopped' \in BOOLEAN
    BY <1>6 DEF JobInv, TypeOK
  <2>2. said' \subseteq 1 .. Retries + 1
    BY <1>4, <1>5 DEF JobInv, TypeOK
  <2>3. Len(stdout') <= PipeBound
    BY <1>2
  <2>4. QED
    BY <1>1, <1>2, <1>3, <2>1, <2>2, <2>3 DEF JobInv, TypeOK, clock
<1>8. PassCount' /\ PiInv'
  BY <1>1 DEF JobInv, PassCount, PiInv
<1>9. ProxyInv'
  BY <1>1 DEF JobInv, ProxyInv, ProxiesLiveWithTheRun, Over
<1>10. AnswerInv'
  <2>1. TextOf' = TextOf
    BY <1>1 DEF TextOf
  <2>2. said' = TextOf \cup (IF state'.text THEN {passes} ELSE {})
    <3>1. said = TextOf \cup (IF state.text THEN {passes} ELSE {})
      BY <1>1 DEF JobInv, AnswerInv, Reading
    <3>2. QED
      BY <1>3, <1>4, <3>1
  <2>3. QED
    BY <1>1, <2>1, <2>2 DEF JobInv, AnswerInv, Before, Reading
<1>11. BudgetInv'
  <2>1. SpentBefore' = SpentBefore /\ SpentBefore \in Nat /\ state.usage \in Nat
    BY <1>1 DEF JobInv, TypeOK, Result, TurnState, SpentBefore
  <2>2. ~stopped' => SpentBefore + state'.usage <= MaxUsage
    <3>1. SUFFICES ASSUME ~stopped' PROVE SpentBefore + state'.usage <= MaxUsage
      OBVIOUS
    <3>2. ~stopped /\ ~OverBudget(state'.usage)
      BY <1>6, <3>1
    <3>3. QED
      BY <1>3, <2>1, <3>2 DEF OverBudget
  <2>3. stopped' => /\ pi' # "running"
                    /\ SpentBefore + state'.usage + Len(stdout') <= MaxUsage + 1 + PipeBound
    <3>1. CASE stopped
      <4>1. /\ pi # "running"
            /\ SpentBefore + state.usage + Len(stdout) <= MaxUsage + 1 + PipeBound
        BY <1>1, <3>1 DEF JobInv, BudgetInv, Reading
      <4>2. SpentBefore + state'.usage + Len(stdout') <= SpentBefore + state.usage + Len(stdout)
        BY <1>2, <1>3, <2>1
      <4>3. QED
        BY <1>1, <1>2, <1>3, <2>1, <4>1, <4>2
    <3>2. CASE ~stopped
      <4>1. SpentBefore + state.usage <= MaxUsage
        BY <1>1, <3>2 DEF JobInv, BudgetInv, Reading
      <4>2. SpentBefore + state'.usage + Len(stdout') <= MaxUsage + 1 + PipeBound
        BY <1>2, <1>3, <2>1, <4>1
      <4>3. stopped' => pi' # "running"
        BY <1>6, <3>2
      <4>4. QED
        BY <4>2, <4>3
    <3>3. QED
      BY <3>1, <3>2
  <2>4. QED
    BY <1>1, <2>1, <2>2, <2>3 DEF JobInv, BudgetInv, BudgetBoundsTheJob, Before, Reading
<1>12. QED
  BY <1>7, <1>8, <1>9, <1>10, <1>11 DEF JobInv

LEMMA ClosedStep ==
  ASSUME JobInv, PiIsClosed
  PROVE  JobInv'
<1>1. /\ phase = "stream" /\ phase' = "exited" /\ timer' = None
      /\ pi # "running" /\ stdout = <<>>
      /\ UNCHANGED <<proxy, gitProxy, now, waitingSince, passTimeout, passes, pi, written, stdout,
                     state, stopped, result, recovered, said>>
  BY DEF PiIsClosed, piVars
<1>2. TypeOK'
  BY <1>1 DEF JobInv, TypeOK, Phases
<1>3. PassCount' /\ PiInv'
  BY <1>1 DEF JobInv, PassCount, PiInv, Before, Reading
<1>4. ProxyInv'
  BY <1>1 DEF JobInv, ProxyInv, ProxiesLiveWithTheRun, Over
<1>5. AnswerInv'
  BY <1>1 DEF JobInv, AnswerInv, TextOf, Before, Reading
<1>6. BudgetInv'
  BY <1>1 DEF JobInv, BudgetInv, BudgetBoundsTheJob, Before, Reading, SpentBefore
<1>7. QED
  BY <1>2, <1>3, <1>4, <1>5, <1>6 DEF JobInv
-----------------------------------------------------------------------------
LEMMA DecideStep ==
  ASSUME JobInv, Decide
  PROVE  JobInv'
<1> USE JsonTurnAssumption
<1>1. /\ phase = "decide" /\ result # <<>>
      /\ passes = recovered + 1 /\ pi # "running" /\ said = TextOf
      /\ UNCHANGED <<proxy, gitProxy, clock, passes, piVars, state, stopped, result, said>>
  BY DEF JobInv, PassCount, PiInv, AnswerInv, Decide
<1>2. \/ Recovers /\ phase' = "continue" /\ recovered' = recovered + 1
      \/ phase' = "closing" /\ recovered' = recovered
  BY DEF Decide
<1>3. TypeOK'
  <2>1. recovered' \in 0 .. Retries
    BY <1>2 DEF JobInv, TypeOK, Recovers
  <2>2. QED
    BY <1>1, <1>2, <2>1 DEF JobInv, TypeOK, Phases, clock, piVars
<1>4. PassCount' /\ PiInv'
  BY <1>1, <1>2 DEF JobInv, PassCount, PiInv, Before, Reading, piVars
<1>5. ProxyInv'
  BY <1>1, <1>2 DEF JobInv, ProxyInv, ProxiesLiveWithTheRun, Over
<1>6. AnswerInv'
  BY <1>1, <1>2 DEF JobInv, AnswerInv, TextOf, Before, Reading
<1>7. BudgetInv'
  <2>1. phase' = "continue" => SpentBefore' <= MaxUsage
    BY <1>1, <1>2 DEF JobInv, BudgetInv, Recovers, Blocked, SpentBefore
  <2>2. QED
    BY <1>1, <1>2, <2>1 DEF JobInv, BudgetInv, BudgetBoundsTheJob, Before, Reading
<1>8. QED
  BY <1>3, <1>4, <1>5, <1>6, <1>7 DEF JobInv

LEMMA CloseStep ==
  ASSUME JobInv, CloseProxies
  PROVE  JobInv'
<1>1. /\ phase = "closing"
      /\ phase' = IF result = <<>> THEN "threw" ELSE "returned"
      /\ UNCHANGED <<clock, passes, piVars, state, stopped, result, recovered, said>>
  BY DEF CloseProxies
<1>2. proxy' \in {"none", "closed"} /\ gitProxy' \in {"none", "closed"}
  BY DEF JobInv, TypeOK, CloseProxies, Closed
<1>3. TypeOK'
  BY <1>1, <1>2 DEF JobInv, TypeOK, Phases, clock, piVars
<1>4. PassCount' /\ PiInv'
  BY <1>1 DEF JobInv, PassCount, PiInv, Before, Reading, piVars
<1>5. ProxyInv'
  BY <1>1, <1>2 DEF ProxyInv, ProxiesLiveWithTheRun, Over
<1>6. AnswerInv'
  BY <1>1 DEF JobInv, AnswerInv, TextOf, Before, Reading
<1>7. BudgetInv'
  BY <1>1 DEF JobInv, BudgetInv, BudgetBoundsTheJob, Before, Reading
<1>8. QED
  BY <1>3, <1>4, <1>5, <1>6, <1>7 DEF JobInv
(* A pass that said something adds itself at the end of the answer.          *)
LEMMA Extended ==
  ASSUME NEW text \in Seq(Nat), NEW p \in Nat, NEW part \in {<<>>, << p >>},
         \A i, j \in DOMAIN text : i < j => text[i] < text[j],
         \A i \in DOMAIN text : text[i] < p,
         NEW longer, longer = text \o part
  PROVE  /\ longer \in Seq(Nat)
         /\ ToSet(longer) = ToSet(text) \cup (IF part = <<>> THEN {} ELSE {p})
         /\ \A i, j \in DOMAIN longer : i < j => longer[i] < longer[j]
         /\ \A i \in DOMAIN longer : longer[i] <= p
<1>1. CASE part = <<>>
  <2>1. longer = text
    BY <1>1
  <2>2. \A i \in DOMAIN text : text[i] \in Nat
    OBVIOUS
  <2>3. QED
    BY <1>1, <2>1, <2>2
<1>2. CASE part = << p >>
  <2>1. longer = Append(text, p)
    BY <1>2
  <2>2. /\ longer \in Seq(Nat) /\ DOMAIN longer = DOMAIN text \cup {Len(text) + 1}
        /\ \A i \in DOMAIN text : longer[i] = text[i] /\ text[i] \in Nat /\ i <= Len(text)
        /\ longer[Len(text) + 1] = p
        /\ Len(text) \in Nat /\ DOMAIN text \subseteq Nat
    BY <2>1
  <2>3. ToSet(longer) = ToSet(text) \cup {p}
    BY <2>2 DEF ToSet
  <2>4. \A i \in DOMAIN longer : longer[i] <= p
    BY <2>2
  <2>5. ASSUME NEW i \in DOMAIN longer, NEW j \in DOMAIN longer, i < j
        PROVE  longer[i] < longer[j]
    <3>1. i \in DOMAIN text
      BY <2>2, <2>5
    <3>2. CASE j \in DOMAIN text
      BY <2>2, <2>5, <3>1, <3>2
    <3>3. CASE j = Len(text) + 1
      BY <2>2, <3>1, <3>3
    <3>4. QED
      BY <2>2, <3>2, <3>3
  <2>6. QED
    BY <1>2, <2>2, <2>3, <2>4, <2>5
<1>3. QED
  BY <1>1, <1>2

(* The texts and the usage of the result that a pass ends with.              *)
LEMMA FinishedResult ==
  ASSUME JobInv, FinishPass
  PROVE  /\ result' \in Result /\ result' # <<>>
         /\ result'.stopped = stopped
         /\ result'.usage = SpentBefore + state.usage
         /\ result'.text = (IF result = <<>> THEN <<>> ELSE result.text)
                             \o (IF state.text THEN << passes >> ELSE <<>>)
<1>1. /\ state \in TurnState /\ stopped \in BOOLEAN /\ passes \in Nat
      /\ result \in {<<>>} \cup Result
  BY JsonTurnAssumption DEF JobInv, TypeOK
<1>2. PassResult \in Result
  <2>1. (IF state.text THEN << passes >> ELSE <<>>) \in Seq(Nat)
    BY <1>1
  <2>2. (pi = "failed" \/ state.failed \/ stopped \/ ~state.text) \in BOOLEAN
    OBVIOUS
  <2>3. state.session \in BOOLEAN /\ state.reason \in Reasons /\ state.usage \in Nat
    BY <1>1 DEF TurnState
  <2>4. QED
    BY <1>1, <2>1, <2>2, <2>3 DEF PassResult, Result
<1>3. /\ PassResult.stopped = stopped /\ PassResult.usage = state.usage
      /\ PassResult.text = IF state.text THEN << passes >> ELSE <<>>
  BY DEF PassResult
<1>4. CASE result = <<>>
  <2>1. result' = PassResult
    BY <1>4 DEF FinishPass
  <2>2. SpentBefore = 0 /\ state.usage \in Nat
    BY <1>1, <1>4 DEF SpentBefore, TurnState
  <2>3. PassResult.text = <<>> \o PassResult.text
    BY <1>2 DEF Result
  <2>4. QED
    BY <1>2, <1>3, <1>4, <2>1, <2>2, <2>3, NoResult
<1>5. CASE result # <<>>
  <2>1. result' = Merged(result, PassResult)
    BY <1>5 DEF FinishPass
  <2>2. /\ result.text \o PassResult.text \in Seq(Nat)
        /\ result.usage + PassResult.usage \in Nat
    BY <1>1, <1>2, <1>5 DEF Result
  <2>3. Merged(result, PassResult) \in Result
    BY <1>2, <2>2 DEF Merged, Result
  <2>4. /\ Merged(result, PassResult).stopped = PassResult.stopped
        /\ Merged(result, PassResult).usage = result.usage + PassResult.usage
        /\ Merged(result, PassResult).text = result.text \o PassResult.text
    BY <1>2 DEF Merged, Result
  <2>5. SpentBefore = result.usage
    BY <1>5 DEF SpentBefore
  <2>6. QED
    BY <1>3, <1>5, <2>1, <2>3, <2>4, <2>5, NoResult
<1>6. QED
  BY <1>4, <1>5

LEMMA FinishStep ==
  ASSUME JobInv, FinishPass
  PROVE  JobInv'
<1> USE JsonTurnAssumption
<1>1. /\ phase = "exited" /\ phase' = "decide" /\ passes = recovered + 1
      /\ pi # "running" /\ stdout = <<>>
      /\ UNCHANGED <<proxy, gitProxy, clock, passes, piVars, state, stopped, recovered, said>>
  BY DEF JobInv, PassCount, PiInv, Reading, FinishPass
<1>2. /\ result' \in Result /\ result' # <<>>
      /\ result'.stopped = stopped /\ result'.usage = SpentBefore + state.usage
  BY FinishedResult
<1>3. TypeOK'
  BY <1>1, <1>2 DEF JobInv, TypeOK, Phases, clock, piVars
<1>4. PassCount' /\ PiInv'
  BY <1>1, <1>2 DEF PassCount, PiInv, Before, Reading, piVars
<1>5. ProxyInv'
  BY <1>1 DEF JobInv, ProxyInv, ProxiesLiveWithTheRun, Over
<1>6. AnswerInv'
  <2>1. PICK part : part = IF state.text THEN << passes >> ELSE <<>>
    OBVIOUS
  <2>2. PICK text : text = IF result = <<>> THEN <<>> ELSE result.text
    OBVIOUS
  <2>3. PICK longer : longer = result'.text
    OBVIOUS
  <2>4. longer = text \o part
    BY <2>1, <2>2, <2>3, FinishedResult
  <2>5. /\ text \in Seq(Nat) /\ passes \in Nat
        /\ \A i, j \in DOMAIN text : i < j => text[i] < text[j]
        /\ \A i \in DOMAIN text : text[i] < passes
    BY <1>1, <2>2 DEF JobInv, TypeOK, Result, TurnState, AnswerInv, Reading
  <2>6. part \in {<<>>, << passes >>} /\ (part = <<>> <=> ~state.text)
    BY <2>1
  <2>7. TextOf = ToSet(text)
    BY <2>2 DEF TextOf, ToSet
  <2>8. said = TextOf \cup (IF state.text THEN {passes} ELSE {})
    BY <1>1 DEF JobInv, AnswerInv, Reading
  <2>9. /\ ToSet(longer) = ToSet(text) \cup (IF part = <<>> THEN {} ELSE {passes})
        /\ \A i, j \in DOMAIN longer : i < j => longer[i] < longer[j]
        /\ \A i \in DOMAIN longer : longer[i] <= passes
    BY <2>4, <2>5, <2>6, Extended
  <2>10. said' = TextOf'
    BY <1>1, <1>2, <2>3, <2>6, <2>7, <2>8, <2>9 DEF TextOf
  <2>11. QED
    BY <1>1, <2>3, <2>9, <2>10 DEF AnswerInv, Before, Reading
<1>7. BudgetInv'
  <2>1. SpentBefore \in Nat /\ state.usage \in Nat
    BY DEF JobInv, TypeOK, Result, TurnState, SpentBefore
  <2>2. /\ ~stopped => SpentBefore + state.usage <= MaxUsage
        /\ stopped => SpentBefore + state.usage + Len(stdout) <= MaxUsage + 1 + PipeBound
    BY <1>1 DEF JobInv, BudgetInv, Reading
  <2>3. Len(stdout) = 0 /\ stopped \in BOOLEAN
    BY <1>1 DEF JobInv, TypeOK
  <2>4. result'.usage <= MaxUsage + 1 + PipeBound
    BY <1>2, <2>1, <2>2, <2>3
  <2>5. result'.stopped \/ result'.usage <= MaxUsage
    BY <1>2, <2>2
  <2>6. QED
    BY <1>1, <2>4, <2>5 DEF BudgetInv, BudgetBoundsTheJob, Before, Reading
<1>8. QED
  BY <1>3, <1>4, <1>5, <1>6, <1>7 DEF JobInv
-----------------------------------------------------------------------------
LEMMA StutterInv == JobInv /\ UNCHANGED vars => JobInv'
<1> SUFFICES ASSUME JobInv, UNCHANGED vars PROVE JobInv'
  OBVIOUS
<1> USE DEF vars, clock, piVars
<1>1. TypeOK'
  BY DEF JobInv, TypeOK
<1>2. PassCount' /\ PiInv'
  BY DEF JobInv, PassCount, PiInv
<1>3. ProxyInv'
  BY DEF JobInv, ProxyInv, ProxiesLiveWithTheRun, Over
<1>4. AnswerInv'
  BY DEF JobInv, AnswerInv, TextOf
<1>5. BudgetInv'
  BY DEF JobInv, BudgetInv, BudgetBoundsTheJob, SpentBefore
<1>6. QED
  BY <1>1, <1>2, <1>3, <1>4, <1>5 DEF JobInv

LEMMA NextInv == JobInv /\ [Next]_vars => JobInv'
<1>1. JobInv /\ Opens => JobInv'
  BY QuietSteps DEF Opens
<1>2. JobInv /\ Starts => JobInv'
  BY QuietSteps, ThrowingSteps, SpawnStep DEF Starts
<1>3. JobInv /\ Reads => JobInv'
  BY ReadStep, PiGoes, ClosedStep DEF Reads
<1>4. JobInv /\ Ends => JobInv'
  BY FinishStep, DecideStep, QuietSteps, CloseStep DEF Ends
<1>5. QED
  BY <1>1, <1>2, <1>3, <1>4, StutterInv, PiWritesStep, PiGoes, QuietSteps DEF Next

LEMMA JobInvariant == Spec => []JobInv
BY InitInv, NextInv, PTL DEF Spec

(* The variables of runPiTurn keep their types, and it counts its passes and *)
(* continuations within the allowance.                                       *)
THEOREM TypeCorrect == Spec => []TypeOK
<1>1. JobInv => TypeOK
  BY DEF JobInv
<1>2. QED
  BY <1>1, JobInvariant, PTL

(* Whatever throws, the tokens of both proxies are gone when runPiTurn has   *)
(* come back, and no pass ever runs with a closed proxy (its finally block). *)
THEOREM ProxiesEndWithTheRun == Spec => []ProxiesLiveWithTheRun
<1>1. JobInv => ProxiesLiveWithTheRun
  BY DEF JobInv, ProxyInv
<1>2. QED
  BY <1>1, JobInvariant, PTL

(* However often a cut-off answer is continued, the answer that comes back   *)
(* has the text of every pass in their order, and no pi is left running.     *)
THEOREM NothingIsLost == Spec => []AnswerIsWhole
<1>1. JobInv => AnswerIsWhole
  <2>1. SUFFICES ASSUME JobInv, phase = "returned" PROVE AnswerIsWhole
    BY DEF AnswerIsWhole
  <2>2. result # <<>> /\ pi # "running"
    BY <2>1 DEF JobInv, PiInv
  <2>3. said = ToSet(result.text)
    BY <2>1, <2>2 DEF JobInv, AnswerInv, TextOf
  <2>4. QED
    BY <2>1, <2>2, <2>3 DEF JobInv, AnswerInv, AnswerIsWhole
<1>2. QED
  BY <1>1, JobInvariant, PTL

(* What all the passes of a job spend together is over the budget by one     *)
(* answer and by those that were in the pipe when pi was killed.             *)
THEOREM JobKeepsItsBudget == Spec => []BudgetBoundsTheJob
<1>1. JobInv => BudgetBoundsTheJob
  BY DEF JobInv, BudgetInv
<1>2. QED
  BY <1>1, JobInvariant, PTL
=============================================================================
