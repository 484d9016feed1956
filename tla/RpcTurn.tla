------------------------------- MODULE RpcTurn -------------------------------
(***************************************************************************)
(* lib/rpc.mjs, runPiRpcTurn: one job driven over the two pipes of a live  *)
(* "pi --mode rpc" session.  The engine reads pi's events one at a time,   *)
(* forwards the control messages of the job's inbox, continues an answer   *)
(* that was cut off at the output ceiling, interrupts a model that thinks  *)
(* in circles, stops a run that is over its budget, and closes the session *)
(* once pi has settled.  Everything it knows of pi is what came down the   *)
(* pipe, which may be behind what pi does.                                 *)
(*                                                                         *)
(* pi is external and modelled by the protocol the engine relies on.  Time *)
(* is left out: a model call, the grace window (1.5 seconds) and the       *)
(* acknowledgement time-out (60 seconds) end whenever the pipes are empty, *)
(* as a line spends less time than each of them in a local pipe; a prompt  *)
(* not acknowledged by the time-out is one that pi ignores.                *)
(***************************************************************************)
EXTENDS Integers, SequencesExt

CONSTANTS
  MaxTurns,       (* budget.maxTurns                                         *)
  MaxUsage,       (* budget.maxTokens and maxCostUsd, in answers             *)
  Retries,        (* truncationRetryLimit                                    *)
  MaxNudges,      (* MAX_LOOP_NUDGES                                         *)
  BloatWindow,    (* THINKING_BLOAT_WINDOW                                   *)
  BloatHits,      (* THINKING_BLOAT_HITS                                     *)
  TurnBound,      (* bound: turns pi takes                                   *)
  SteerBound      (* bound: messages the user sends                          *)

ASSUME TurnAssumption ==
  /\ MaxTurns \in Nat /\ MaxUsage \in Nat /\ Retries \in Nat /\ MaxNudges \in Nat
  /\ BloatWindow \in Nat \ {0} /\ BloatHits \in Nat \ {0}
  /\ TurnBound \in Nat /\ SteerBound \in Nat

VARIABLES
  pi,             (* what pi is doing                                        *)
  doing,          (* the origin of the prompt it does it for                 *)
  begun,          (* turns it has begun                                      *)
  turningDown,    (* origins of the prompts it is about to refuse            *)
  toPi,           (* its stdin                                               *)
  fromPi,         (* its stdout                                              *)
  phase,          (* the engine: running, closing, returned                  *)
  settled,        (* settledAt is set: the detector of the end is armed      *)
  aborted, budgetStop,
  lastCut,        (* lastStopReason is the output ceiling                    *)
  consecutive,    (* consecutiveRecoveries                                   *)
  recoverySent,   (* recoverySentAt is set                                   *)
  nudgeSent,      (* nudgeSentAt is set                                      *)
  nudgePending,
  loopNudges,
  bloatWindow,
  turns,          (* state.turns                                             *)
  usage,          (* state.usage, in answers                                 *)
  steers,         (* messages the user has sent                              *)
  cuts,           (* answers seen cut off (history)                          *)
  replies         (* prompts sent on their account (history)                 *)

piVars   == <<pi, doing, begun, turningDown>>
stops    == <<aborted, budgetStop>>
nudging  == <<nudgePending, loopNudges, bloatWindow>>
history  == <<cuts, replies>>
engine   == <<phase, settled, stops, lastCut, consecutive, recoverySent, nudgeSent, nudging, turns, usage>>
vars     == <<piVars, toPi, fromPi, engine, steers, history>>

Origins == {"task", "recover", "nudge", "user"}

Prompt(of)   == [type |-> "prompt", of |-> of, steering |-> FALSE]
SteeringNudge == [Prompt("nudge") EXCEPT !.steering = TRUE]
Steer        == [type |-> "steer"]
Abort        == [type |-> "abort"]
Commands     == {Prompt(of) : of \in Origins} \cup {SteeringNudge, Steer, Abort}

Refusal(of)          == [type |-> "response", of |-> of]
Event(t)             == [type |-> t]
MessageEnd(cut, bloated) == [type |-> "message_end", cut |-> cut, bloated |-> bloated]
Events ==
  {Refusal(of) : of \in Origins}
    \cup {Event(t) : t \in {"agent_start", "turn_start", "agent_settled"}}
    \cup {MessageEnd(cut, bloated) : cut, bloated \in BOOLEAN}

TypeOK ==
  /\ pi \in {"idle", "starting", "between", "turn", "gone"}
  /\ doing \in Origins
  /\ begun \in 0 .. TurnBound /\ turningDown \subseteq Origins
  /\ toPi \in Seq(Commands)
  /\ fromPi \in Seq(Events)
  /\ phase \in {"running", "closing", "returned"}
  /\ {settled, aborted, budgetStop, lastCut, recoverySent, nudgeSent, nudgePending} \subseteq BOOLEAN
  /\ consecutive \in Nat
  /\ loopNudges \in Nat
  /\ bloatWindow \in Seq(BOOLEAN) /\ Len(bloatWindow) <= BloatWindow
  /\ turns \in 0 .. TurnBound /\ usage \in 0 .. TurnBound + 1
  /\ steers \in 0 .. SteerBound
  /\ cuts \in Nat /\ replies \in Nat

(* The task is written to stdin at once; a spawn that fails leaves no pi.    *)
Init ==
  /\ pi \in {"idle", "gone"}
  /\ doing = "task"
  /\ begun = 0 /\ turningDown = {}
  /\ toPi = <<Prompt("task")>>
  /\ fromPi = <<>>
  /\ phase = "running"
  /\ settled = FALSE /\ aborted = FALSE /\ budgetStop = FALSE
  /\ lastCut = FALSE /\ consecutive = 0 /\ recoverySent = FALSE
  /\ nudgeSent = FALSE /\ nudgePending = FALSE /\ loopNudges = 0 /\ bloatWindow = <<>>
  /\ turns = 0 /\ usage = 0 /\ steers = 0 /\ cuts = 0 /\ replies = 0
-----------------------------------------------------------------------------
(* pi.                                                                       *)
Busy == pi \in {"starting", "between", "turn"}

Emits(events) ==
  /\ fromPi' = fromPi \o events
  /\ UNCHANGED <<engine, steers, history>>

(* A prompt opens a run of an idle agent; a streaming one queues it if it    *)
(* asks to be queued, and refuses it otherwise.  pi may also lose a prompt   *)
(* that the engine sends of its own accord, or turn it down after a while    *)
(* (an extension, a compaction).                                             *)
PiReadsPrompt ==
  /\ pi # "gone" /\ toPi # <<>> /\ Head(toPi).type = "prompt"
  /\ toPi' = Tail(toPi)
  /\ LET command == Head(toPi)
         own == command.of \in {"recover", "nudge"}
     IN  \/ /\ pi = "idle" /\ pi' = "starting" /\ doing' = command.of
            /\ UNCHANGED turningDown /\ Emits(<<>>)
         \/ /\ own \/ (Busy /\ command.steering)
            /\ UNCHANGED <<pi, doing, turningDown>> /\ Emits(<<>>)
         \/ /\ own /\ turningDown' = turningDown \cup {command.of}
            /\ UNCHANGED <<pi, doing>> /\ Emits(<<>>)
         \/ /\ Busy /\ ~command.steering
            /\ UNCHANGED <<pi, doing, turningDown>> /\ Emits(<<Refusal(command.of)>>)
  /\ UNCHANGED begun

PiTurnsDown ==
  /\ pi # "gone"
  /\ \E of \in turningDown :
       /\ turningDown' = turningDown \ {of}
       /\ Emits(<<Refusal(of)>>)
  /\ UNCHANGED <<pi, doing, begun, toPi>>

(* steer and follow_up wait in pi's own queues; abort winds the run up.      *)
PiReadsControl ==
  /\ pi # "gone" /\ toPi # <<>> /\ Head(toPi).type # "prompt"
  /\ toPi' = Tail(toPi)
  /\ IF Head(toPi) = Abort /\ Busy
     THEN /\ pi' = "idle"
          /\ \/ Emits(<<Event("agent_settled")>>)
             \/ pi = "turn" /\ Emits(<<MessageEnd(FALSE, FALSE), Event("agent_settled")>>)
     ELSE UNCHANGED pi /\ Emits(<<>>)
  /\ UNCHANGED <<doing, begun, turningDown>>

(* A run of the agent: turns, each with an answer of the model, or none when *)
(* it fails before the first.  A model call takes longer than a line spends  *)
(* in a pipe, and so does a run.                                             *)
QuietPipes == toPi = <<>> /\ fromPi = <<>>

PiBegins ==
  /\ pi = "starting" /\ pi' = "between"
  /\ Emits(<<Event("agent_start")>>)
  /\ UNCHANGED <<doing, begun, turningDown, toPi>>

PiTakesTurn ==
  /\ pi = "between" /\ begun < TurnBound
  /\ pi' = "turn" /\ begun' = begun + 1
  /\ Emits(<<Event("turn_start")>>)
  /\ UNCHANGED <<doing, turningDown, toPi>>

PiAnswers ==
  /\ pi = "turn" /\ QuietPipes
  /\ pi' = "between"
  /\ \E cut, bloated \in BOOLEAN : Emits(<<MessageEnd(cut, bloated)>>)
  /\ UNCHANGED <<doing, begun, turningDown, toPi>>

PiSettles ==
  /\ pi = "between" /\ pi' = "idle"
  /\ ~Contains(fromPi, Event("agent_start"))
  /\ Emits(<<Event("agent_settled")>>)
  /\ UNCHANGED <<doing, begun, turningDown, toPi>>

(* pi dies, or is killed: the hard timer, the grace of the shutdown, cancel. *)
PiIsGone ==
  /\ pi # "gone" /\ pi' = "gone"
  /\ UNCHANGED <<doing, begun, turningDown, toPi, fromPi, engine, steers, history>>

PiWorks ==
  PiReadsPrompt \/ PiTurnsDown \/ PiReadsControl \/ PiBegins \/ PiTakesTurn \/ PiAnswers \/ PiSettles
-----------------------------------------------------------------------------
(* The engine.  send() fails once stdin is closed or destroyed.              *)
CanSend == phase = "running" /\ pi # "gone"

(* The end of the event handler: the ceilings are checked on the counters    *)
(* the event has just moved, and the abort follows whatever was sent before. *)
SendAndCheckBudget(sent) ==
  LET stop == ~budgetStop /\ ~aborted /\ (turns' > MaxTurns \/ usage' > MaxUsage)
  IN  /\ budgetStop' = (budgetStop \/ stop)
      /\ toPi' = toPi \o sent \o (IF stop /\ CanSend THEN <<Abort>> ELSE <<>>)

Reads(type) ==
  /\ phase # "returned"
  /\ fromPi # <<>> /\ Head(fromPi).type = type
  /\ fromPi' = Tail(fromPi)
  /\ UNCHANGED <<piVars, phase, aborted, steers>>

(* Any refusal taken for that of the message still in flight.                *)
RefusesAnything(of) == recoverySent

(* A refused prompt other than a nudge hands the detector of the end back.   *)
RefusesContinuation(of) == of # "nudge" /\ recoverySent

RefusesNudge(of) == of = "nudge" /\ nudgeSent

OnRefusal ==
  /\ Reads("response")
  /\ LET of == Head(fromPi).of
         cont == RefusesContinuation(of)
         nudge == RefusesNudge(of)
     IN  /\ recoverySent' = (recoverySent /\ ~cont)
         /\ nudgeSent' = (nudgeSent /\ ~nudge)
         /\ settled' = (settled \/ cont \/ (nudge /\ ~recoverySent))
  /\ UNCHANGED <<toPi, budgetStop, lastCut, consecutive, nudging, turns, usage, history>>

OnStart(type) ==
  /\ Reads(type)
  /\ settled' = FALSE /\ recoverySent' = FALSE /\ nudgeSent' = FALSE
  /\ turns' = turns + (IF type = "turn_start" THEN 1 ELSE 0)
  /\ UNCHANGED usage
  /\ SendAndCheckBudget(<<>>)
  /\ UNCHANGED <<lastCut, consecutive, nudging, history>>

Hits(window) == Len(SelectSeq(window, LAMBDA bloated : bloated))

(* A message owed to a settled agent does not count against the allowance.   *)
MayNudgeAgain ==
  loopNudges < MaxNudges /\ phase = "running" /\ ~aborted /\ ~budgetStop

MayNudge ==
  loopNudges < MaxNudges /\ ~nudgePending /\ phase = "running" /\ ~aborted /\ ~budgetStop

(* A window that only grows.                                                 *)
Grown(window) == window

(* bloatWindow.shift() above THINKING_BLOAT_WINDOW.                          *)
Slid(window) == IF Len(window) > BloatWindow THEN Tail(window) ELSE window

(* message_end of the assistant.  Enough bloated turns in the window ask for *)
(* a nudge: at once when the answer is whole, on agent_settled when it was   *)
(* cut, where the nudge takes the place of the continuation.                 *)
OnMessageEnd ==
  /\ Reads("message_end")
  /\ LET answer == Head(fromPi)
         window == Slid(Append(bloatWindow, answer.bloated))
         circles == Hits(window) >= BloatHits /\ MayNudge
         steer == circles /\ ~answer.cut /\ CanSend
     IN  /\ lastCut' = answer.cut
         /\ cuts' = cuts + (IF answer.cut THEN 1 ELSE 0)
         /\ nudgePending' = (nudgePending \/ (circles /\ answer.cut))
         /\ loopNudges' = loopNudges + (IF steer THEN 1 ELSE 0)
         /\ bloatWindow' = IF steer \/ (circles /\ answer.cut) THEN <<>> ELSE window
         /\ usage' = usage + 1
         /\ UNCHANGED turns
         /\ SendAndCheckBudget(IF steer THEN <<SteeringNudge>> ELSE <<>>)
  /\ UNCHANGED <<settled, consecutive, recoverySent, nudgeSent, replies>>

OnSettled == Reads("agent_settled") /\ UNCHANGED <<bloatWindow, turns, usage, cuts>>

(* The nudge of a cut turn: sent in place of the continuation.               *)
SettledNudge ==
  /\ OnSettled
  /\ nudgePending /\ nudgePending' = FALSE
  /\ loopNudges' = loopNudges + (IF CanSend THEN 1 ELSE 0)
  /\ replies' = replies + (IF CanSend THEN 1 ELSE 0)
  /\ lastCut' = (lastCut /\ ~CanSend)
  /\ settled' = ~CanSend
  /\ nudgeSent' = (nudgeSent \/ CanSend)
  /\ SendAndCheckBudget(IF CanSend THEN <<Prompt("nudge")>> ELSE <<>>)
  /\ UNCHANGED <<consecutive, recoverySent>>

(* recoveryDecision                                                          *)
Blocked == phase # "running" \/ aborted \/ budgetStop
Recovers == lastCut /\ ~Blocked /\ consecutive < Retries

(* A reason that outlives the continuation it asked for.                     *)
ReasonKept == lastCut
ReasonAnswered == lastCut /\ ~CanSend

SettledRecover ==
  /\ OnSettled
  /\ ~nudgePending /\ Recovers
  /\ consecutive' = consecutive + (IF CanSend THEN 1 ELSE 0)
  /\ replies' = replies + (IF CanSend THEN 1 ELSE 0)
  /\ lastCut' = ReasonAnswered
  /\ settled' = ~CanSend
  /\ recoverySent' = (recoverySent \/ CanSend)
  /\ SendAndCheckBudget(IF CanSend THEN <<Prompt("recover")>> ELSE <<>>)
  /\ UNCHANGED <<nudgeSent, nudgePending, loopNudges>>

(* "reset" or "stop": the run may end.                                       *)
SettledOver ==
  /\ OnSettled
  /\ ~nudgePending /\ ~Recovers
  /\ consecutive' = IF lastCut THEN consecutive ELSE 0
  /\ settled' = TRUE
  /\ SendAndCheckBudget(<<>>)
  /\ UNCHANGED <<lastCut, recoverySent, nudgeSent, nudgePending, loopNudges, replies>>

HandlesEvent ==
  \/ OnRefusal \/ OnStart("agent_start") \/ OnStart("turn_start") \/ OnMessageEnd
  \/ SettledNudge \/ SettledRecover \/ SettledOver
-----------------------------------------------------------------------------
(* handleControl: a message of the user.  Once pi has settled it opens a new *)
(* prompt; before, it steers.  The engine looks only at its own detector.    *)
UserSteers ==
  /\ phase = "running" /\ steers < SteerBound
  /\ steers' = steers + 1
  /\ settled' = (settled /\ ~CanSend)
  /\ toPi' = toPi \o (IF ~CanSend THEN <<>> ELSE IF settled THEN <<Prompt("user")>> ELSE <<Steer>>)
  /\ UNCHANGED <<piVars, fromPi, phase, stops, lastCut, consecutive, recoverySent, nudgeSent,
                 nudging, turns, usage, history>>

UserAborts ==
  /\ phase = "running" /\ ~aborted
  /\ aborted' = TRUE
  /\ toPi' = toPi \o (IF CanSend THEN <<Abort>> ELSE <<>>)
  /\ UNCHANGED <<piVars, fromPi, phase, settled, budgetStop, lastCut, consecutive, recoverySent,
                 nudgeSent, nudging, turns, usage, steers, history>>

(* A time-out that only stops waiting and leaves the detector disarmed.      *)
GiveUpSilently ==
  /\ phase = "running" /\ QuietPipes /\ pi = "idle" /\ turningDown = {}
  /\ recoverySent \/ nudgeSent
  /\ recoverySent' = FALSE /\ nudgeSent' = FALSE
  /\ UNCHANGED <<piVars, toPi, fromPi, phase, stops, settled, lastCut, consecutive, nudging,
                 turns, usage, steers, history>>

(* RECOVERY_ACK_TIMEOUT_MS: pi never picked the message up.                  *)
GiveUpWaiting ==
  /\ phase = "running" /\ QuietPipes /\ pi = "idle" /\ turningDown = {}
  /\ \/ recoverySent /\ recoverySent' = FALSE /\ UNCHANGED nudgeSent
     \/ nudgeSent /\ nudgeSent' = FALSE /\ UNCHANGED recoverySent
  /\ settled' = TRUE
  /\ UNCHANGED <<piVars, toPi, fromPi, phase, stops, lastCut, consecutive, nudging,
                 turns, usage, steers, history>>

(* The poll closes the session: pi has settled, and the run was stopped or   *)
(* nothing came for the grace window.  stdin is ended.                       *)
CloseSession ==
  /\ phase = "running" /\ settled
  /\ aborted \/ budgetStop \/ QuietPipes
  /\ phase' = "closing"
  /\ UNCHANGED <<piVars, toPi, fromPi, settled, stops, lastCut, consecutive, recoverySent,
                 nudgeSent, nudging, turns, usage, steers, history>>

(* pi reads the end of its input, or is killed when the shutdown grace ends. *)
PiLeaves == phase = "closing" /\ PiIsGone

(* The close event of the child, after all of its output was read.           *)
Return ==
  /\ phase # "returned" /\ pi = "gone" /\ fromPi = <<>>
  /\ phase' = "returned"
  /\ UNCHANGED <<piVars, toPi, fromPi, settled, stops, lastCut, consecutive, recoverySent,
                 nudgeSent, nudging, turns, usage, steers, history>>

Engine == HandlesEvent \/ GiveUpWaiting \/ CloseSession \/ Return

Next == PiWorks \/ PiIsGone \/ Engine \/ UserSteers \/ UserAborts

Spec == Init /\ [][Next]_vars

(* pi goes on with what it does and obeys the end of its input; the event    *)
(* loop of the engine runs.  Nothing makes pi die, and no hard timer fires.  *)
FairSpec ==
  Spec /\ WF_vars(PiWorks) /\ WF_vars(PiLeaves)
       /\ WF_vars(HandlesEvent) /\ WF_vars(GiveUpWaiting \/ CloseSession \/ Return)
-----------------------------------------------------------------------------
(* Every run comes back without its hard timer: whatever becomes of a        *)
(* message the engine sent in place of the end of the run, accepted, refused *)
(* or lost, the detector of the end is armed again.                          *)
RunReturns == <>(phase = "returned")

(* Unless the run is stopped, its session is not closed while pi is at the   *)
(* task or at a continuation it accepted: neither the refusal of another     *)
(* message nor an event that was still in the pipe passes for the end (the   *)
(* check of the id in the handler of refusals).                              *)
NoWorkCutShort ==
  [][phase = "running" /\ phase' = "closing" /\ ~aborted /\ ~budgetStop =>
       ~Busy \/ doing \notin {"task", "recover"}]_vars

(* Exactly one message per cut-off answer: continuations and nudges sent to  *)
(* a settled agent together never outnumber the cuts (loop-nudge.test.mjs).  *)
OneMessagePerCut == replies <= cuts

(* A run is interrupted MAX_LOOP_NUDGES times at most, the nudge that still  *)
(* waits for its agent to settle included.                                   *)
NudgesAreFew == loopNudges + (IF nudgePending THEN 1 ELSE 0) <= MaxNudges
-----------------------------------------------------------------------------
(* A run that reached its budget, or was aborted, is not set going again by  *)
(* the engine itself: no prompt of its own follows the abort.                *)
StopIsFinal ==
  [][aborted \/ budgetStop => replies' = replies]_vars
=============================================================================
