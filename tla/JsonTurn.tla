------------------------------ MODULE JsonTurn ------------------------------
(***************************************************************************)
(* lib/pi.mjs, runPiTurn: one job of the one-shot engine.  The two proxies *)
(* are opened, then passes follow: a pass waits for a slot of its pool,    *)
(* spawns a pi, reads the events on its stdout until it has exited, and    *)
(* builds a result.  A result cut off at the output ceiling is continued   *)
(* by another pass in the same session, and the results are merged.  A     *)
(* budget and a time-out kill pi.  Whatever the exit, the proxies close.   *)
(*                                                                         *)
(* Time is counted in units.  A timer that is due fires before more time   *)
(* passes, and so does a check of the slots.  "progress" in Faults: what   *)
(* onProgress does between the decision to continue and the start of the   *)
(* pass takes time (it waits for the lock of the job list).                *)
(* Usage is counted in answers.  The writes of onProgress do not throw.    *)
(***************************************************************************)
EXTENDS Integers, SequencesExt

CONSTANTS
  TimeoutMs,      (* the deadline of the job, 0 for none                     *)
  MaxUsage,       (* the budget, in answers                                  *)
  Retries,        (* truncationRetries                                       *)
  Faults,         (* of "busy", "progress", "spawn", "callback"              *)
  PassBound,      (* bound: events of one pi                                 *)
  PipeBound,      (* bound: events pi is ahead of the engine                 *)
  Horizon         (* bound: time                                             *)

ASSUME JsonTurnAssumption ==
  /\ TimeoutMs \in Nat /\ MaxUsage \in Nat /\ Retries \in Nat
  /\ Faults \subseteq {"busy", "progress", "spawn", "callback"}
  /\ PassBound \in Nat /\ PipeBound \in Nat \ {0} /\ Horizon \in Nat

VARIABLES
  phase,          (* where runPiTurn is                                      *)
  proxy, gitProxy,
  now,
  waitingSince,   (* startedAt of awaitSandboxSlot                           *)
  passTimeout,    (* turnTimeoutMs of the pass, 0 or less for none           *)
  timer,          (* when the timer of the pass fires, None if there is none *)
  passes,           (* passes begun                                            *)
  pi,             (* the pi of the pass                                      *)
  written,        (* events it has written                                   *)
  stdout,         (* events not yet read                                     *)
  state,          (* the turn state the events are folded into               *)
  stopped,        (* budgetStop and timedOut of the pass                     *)
  result,         (* of the passes so far, merged                            *)
  recovered,      (* continuations begun                                     *)
  said            (* passes that were read an answer with text (history)     *)

clock == <<now, waitingSince, passTimeout, timer>>
piVars == <<pi, written, stdout>>
vars == <<phase, proxy, gitProxy, clock, passes, piVars, state, stopped, result, recovered, said>>

None == -1

Reasons == {"none", "stop", "length"}

(* createTurnState.  text: has an answer carried text?  failed: were errors  *)
(* collected?                                                                *)
TurnState == [session : BOOLEAN, text : BOOLEAN, reason : Reasons, usage : Nat, failed : BOOLEAN]
FreshTurn == [session |-> FALSE, text |-> FALSE, reason |-> "none", usage |-> 0, failed |-> FALSE]

(* text: the passes whose last text the answer is joined of, in order;       *)
(* failed: is exitStatus other than 0?                                       *)
Result == [session : BOOLEAN, text : Seq(Nat), reason : Reasons, usage : Nat, failed : BOOLEAN,
           stopped : BOOLEAN]

SessionEvent         == [type |-> "session"]
MessageEnd(reason, text) == [type |-> "message_end", reason |-> reason, text |-> text]
ErrorEvent           == [type |-> "error"]
Events == {SessionEvent, ErrorEvent} \cup {MessageEnd(r, t) : r \in Reasons, t \in BOOLEAN}

Phases == {"opening", "git", "settling", "begin", "slot", "spawn", "stream", "exited",
           "decide", "continue", "closing", "returned", "threw"}

TypeOK ==
  /\ phase \in Phases
  /\ {proxy, gitProxy} \subseteq {"none", "open", "closed"}
  /\ now \in 0 .. Horizon /\ waitingSince \in 0 .. Horizon
  /\ passTimeout \in Int /\ timer \in {None} \cup Nat
  /\ passes \in 0 .. Retries + 1
  /\ pi \in {"none", "running", "gone", "failed"} /\ written \in 0 .. PassBound
  /\ stdout \in Seq(Events) /\ Len(stdout) <= PipeBound
  /\ state \in TurnState /\ stopped \in BOOLEAN
  /\ result \in {<<>>} \cup Result
  /\ recovered \in 0 .. Retries
  /\ said \subseteq 1 .. Retries + 1

Init ==
  /\ phase = "opening" /\ proxy = "none" /\ gitProxy = "none"
  /\ now = 0 /\ waitingSince = 0 /\ passTimeout = TimeoutMs /\ timer = None
  /\ passes = 0 /\ pi = "none" /\ written = 0 /\ stdout = <<>>
  /\ state = FreshTurn /\ stopped = FALSE /\ result = <<>> /\ recovered = 0 /\ said = {}
-----------------------------------------------------------------------------
(* Each proxy is an offer: it is null when the profile does not ask for it   *)
(* or it cannot start.                                                       *)
OpenCredentialProxy ==
  /\ phase = "opening" /\ phase' = "git"
  /\ proxy' \in {"none", "open"}
  /\ UNCHANGED <<gitProxy, clock, passes, piVars, state, stopped, result, recovered, said>>

OpenGitProxy ==
  /\ phase = "git" /\ phase' = "settling"
  /\ gitProxy' \in {"none", "open"}
  /\ UNCHANGED <<proxy, clock, passes, piVars, state, stopped, result, recovered, said>>

(* The deadline of the job is fixed here, after the proxies have settled.    *)
SettlePorts ==
  /\ phase = "settling" /\ phase' = "begin"
  /\ UNCHANGED <<proxy, gitProxy, clock, passes, piVars, state, stopped, result, recovered, said>>

(* runTurn begins with a look at the slots.                                  *)
BeginPass ==
  /\ phase = "begin" /\ phase' = "slot"
  /\ waitingSince' = now
  /\ UNCHANGED <<proxy, gitProxy, now, passTimeout, timer, passes, piVars, state, stopped, result,
                 recovered, said>>

TakeSlot ==
  /\ phase = "slot" /\ phase' = "spawn"
  /\ UNCHANGED <<proxy, gitProxy, clock, passes, piVars, state, stopped, result, recovered, said>>

(* awaitSandboxSlot throws when it has waited as long as the pass may take.  *)
SlotWaitOver == now - waitingSince >= passTimeout

GiveUpOnSlot ==
  /\ phase = "slot" /\ "busy" \in Faults /\ SlotWaitOver
  /\ phase' = "closing"
  /\ result' = <<>>
  /\ UNCHANGED <<proxy, gitProxy, clock, passes, piVars, state, stopped, recovered, said>>

(* The timer is set after the spawn, for the whole time-out of the pass.     *)
SpawnPi ==
  /\ phase = "spawn" /\ phase' = "stream"
  /\ passes' = passes + 1
  /\ pi' = "running" /\ written' = 0 /\ stdout' = <<>>
  /\ state' = FreshTurn /\ stopped' = FALSE
  /\ timer' = IF passTimeout > 0 THEN now + passTimeout ELSE None
  /\ UNCHANGED <<proxy, gitProxy, now, waitingSince, passTimeout, result, recovered, said>>

(* The spawn fails (the promise of the exit is rejected), or onSpawn throws  *)
(* when it records the pid: then pi is there and nobody reads it.            *)
SpawnThrows ==
  /\ phase = "spawn" /\ phase' = "closing"
  /\ \/ "spawn" \in Faults /\ pi' = "failed"
     \/ "callback" \in Faults /\ pi' = "running"
  /\ result' = <<>>
  /\ UNCHANGED <<proxy, gitProxy, clock, passes, written, stdout, state, stopped, recovered, said>>
-----------------------------------------------------------------------------
(* pi writes events and exits by itself at any time.                         *)
Emit(event) == stdout' = Append(stdout, event)

PiWrites ==
  /\ pi = "running" /\ phase = "stream" /\ Len(stdout) < PipeBound
  /\ written < PassBound /\ written' = written + 1
  /\ \/ written = 0 /\ Emit(SessionEvent)
     \/ Emit(ErrorEvent)
     \/ \E reason \in Reasons, text \in BOOLEAN : Emit(MessageEnd(reason, text))
  /\ UNCHANGED <<phase, proxy, gitProxy, clock, passes, pi, state, stopped, result, recovered, said>>

PiExits ==
  /\ pi = "running" /\ pi' \in {"gone", "failed"}
  /\ UNCHANGED <<phase, proxy, gitProxy, clock, passes, written, stdout, state, stopped, result,
                 recovered, said>>

(* applyPiEvent, the events the result depends on.                           *)
Applied(turn, event) ==
  CASE event.type = "session"     -> [turn EXCEPT !.session = TRUE]
    [] event.type = "error"       -> [turn EXCEPT !.failed = TRUE]
    [] event.type = "message_end" ->
         [turn EXCEPT !.text = @ \/ event.text, !.usage = @ + 1,
                      !.reason = IF event.reason = "none" THEN @ ELSE event.reason]

SpentBefore == IF result = <<>> THEN 0 ELSE result.usage

(* Mutant: a pass forgets what the passes before it spent.                   *)
OverBudgetOfPass(usage) == usage > MaxUsage

(* budgetExceeded of the usage of all passes.                                *)
OverBudget(usage) == SpentBefore + usage > MaxUsage

(* enforceBudget kills pi, once.                                             *)
ReadEvent ==
  /\ phase = "stream" /\ stdout # <<>>
  /\ stdout' = Tail(stdout)
  /\ state' = Applied(state, Head(stdout))
  /\ said' = IF state'.text THEN said \cup {passes} ELSE said
  /\ IF OverBudget(state'.usage) /\ ~stopped
     THEN stopped' = TRUE /\ pi' = IF pi = "running" THEN "failed" ELSE pi
     ELSE UNCHANGED <<stopped, pi>>
  /\ UNCHANGED <<phase, proxy, gitProxy, clock, passes, written, result, recovered>>

(* Mutant: the signal reaches the docker client and not the container.       *)
TimerKillsClient ==
  /\ phase = "stream" /\ timer # None /\ now >= timer
  /\ timer' = timer /\ stopped' = TRUE
  /\ UNCHANGED <<phase, proxy, gitProxy, now, waitingSince, passTimeout, passes, piVars, state, result,
                 recovered, said>>

TimerFires ==
  /\ phase = "stream" /\ timer # None /\ now >= timer
  /\ timer' = None /\ stopped' = TRUE /\ pi' = IF pi = "running" THEN "failed" ELSE pi
  /\ UNCHANGED <<phase, proxy, gitProxy, now, waitingSince, passTimeout, passes, written, stdout, state,
                 result, recovered, said>>

(* The close event comes after the last of its output.                       *)
PiIsClosed ==
  /\ phase = "stream" /\ pi # "running" /\ stdout = <<>>
  /\ phase' = "exited" /\ timer' = None
  /\ UNCHANGED <<proxy, gitProxy, now, waitingSince, passTimeout, passes, piVars, state, stopped, result,
                 recovered, said>>
-----------------------------------------------------------------------------
(* What a pass returns; without a text and an error, that is its error.      *)
PassResult ==
  [session |-> state.session, text |-> IF state.text THEN << passes >> ELSE <<>>,
   reason |-> state.reason, usage |-> state.usage,
   failed |-> pi = "failed" \/ state.failed \/ stopped \/ ~state.text,
   stopped |-> stopped]

(* Mutant: the answer is the last pass's.                                    *)
MergedAsLast(first, next) == [next EXCEPT !.usage = first.usage + next.usage]

(* mergeRecoveredRun, joinRecoveredText: the rest is of the last pass.       *)
Merged(first, next) ==
  [next EXCEPT !.text = first.text \o next.text, !.usage = first.usage + next.usage]

FinishPass ==
  /\ phase = "exited" /\ phase' = "decide"
  /\ result' = IF result = <<>> THEN PassResult ELSE Merged(result, PassResult)
  /\ UNCHANGED <<proxy, gitProxy, clock, passes, piVars, state, stopped, recovered, said>>

Remaining == TimeoutMs - now

(* recoveryDecision and what blocks another pass.                            *)
Blocked == result.stopped \/ ~result.session \/ (TimeoutMs > 0 /\ Remaining <= 0)

(* Mutant: the allowance is compared after it was used.                      *)
RecoversOnceMore == result.reason = "length" /\ ~Blocked /\ recovered <= Retries

Recovers == result.reason = "length" /\ ~Blocked /\ recovered < Retries

Decide ==
  /\ phase = "decide"
  /\ IF Recovers
     THEN phase' = "continue" /\ recovered' = recovered + 1
     ELSE phase' = "closing" /\ UNCHANGED recovered
  /\ UNCHANGED <<proxy, gitProxy, clock, passes, piVars, state, stopped, result, said>>

Continue ==
  /\ phase = "continue" /\ phase' = "begin"
  /\ passTimeout' = IF TimeoutMs > 0 THEN Remaining ELSE 0
  /\ UNCHANGED <<proxy, gitProxy, now, waitingSince, timer, passes, piVars, state, stopped, result,
                 recovered, said>>

Closed(p) == IF p = "open" THEN "closed" ELSE p

(* Mutant: the proxies close where the result is returned.                   *)
CloseWithResult ==
  /\ phase = "closing"
  /\ phase' = IF result = <<>> THEN "threw" ELSE "returned"
  /\ proxy' = IF result = <<>> THEN proxy ELSE Closed(proxy)
  /\ gitProxy' = IF result = <<>> THEN gitProxy ELSE Closed(gitProxy)
  /\ UNCHANGED <<clock, passes, piVars, state, stopped, result, recovered, said>>

(* The finally block, then the result or the exception.                      *)
CloseProxies ==
  /\ phase = "closing"
  /\ phase' = IF result = <<>> THEN "threw" ELSE "returned"
  /\ proxy' = Closed(proxy) /\ gitProxy' = Closed(gitProxy)
  /\ UNCHANGED <<clock, passes, piVars, state, stopped, result, recovered, said>>
-----------------------------------------------------------------------------
(* Time passes while pi works, in the queue, and in onProgress.              *)
Due == phase = "stream" /\ timer # None /\ now >= timer

Tick ==
  /\ now < Horizon
  /\ \/ phase = "stream" /\ pi = "running" /\ ~Due
     \/ phase = "slot" /\ "busy" \in Faults /\ ~SlotWaitOver
     \/ phase = "continue" /\ "progress" \in Faults
  /\ now' = now + 1
  /\ UNCHANGED <<phase, proxy, gitProxy, waitingSince, passTimeout, timer, passes, piVars, state, stopped,
                 result, recovered, said>>

Opens  == OpenCredentialProxy \/ OpenGitProxy \/ SettlePorts
Starts == BeginPass \/ TakeSlot \/ GiveUpOnSlot \/ SpawnPi \/ SpawnThrows
Reads  == ReadEvent \/ TimerFires \/ PiIsClosed
Ends   == FinishPass \/ Decide \/ Continue \/ CloseProxies

Next == Opens \/ Starts \/ PiWrites \/ PiExits \/ Reads \/ Ends \/ Tick

Spec == Init /\ [][Next]_vars

(* The event loop of the engine runs, and time passes; a pi may hang.        *)
FairSpec ==
  Spec /\ WF_vars(Opens \/ Starts \/ Ends) /\ WF_vars(Tick)
       /\ WF_vars(ReadEvent) /\ WF_vars(TimerFires) /\ WF_vars(PiIsClosed)
-----------------------------------------------------------------------------
Over == phase \in {"returned", "threw"}

(* The tokens of the proxies live as long as the run: they are closed on     *)
(* every exit of runPiTurn, and never while a pass may still use them.       *)
ProxiesLiveWithTheRun ==
  /\ Over => "open" \notin {proxy, gitProxy}
  /\ "closed" \in {proxy, gitProxy} => Over

(* A run that comes back leaves no pi behind, and its answer is joined of    *)
(* the last text of every pass, in their order: continuing a cut-off answer  *)
(* drops none of its halves (joinRecoveredText).                             *)
AnswerIsWhole ==
  phase = "returned" =>
    /\ pi # "running"
    /\ ToSet(result.text) = said
    /\ \A i, j \in DOMAIN result.text : i < j => result.text[i] < result.text[j]

(* The budget bounds the job and not the pass: what all passes spent is over *)
(* it by one answer, and those that were in the pipe when pi was killed.     *)
BudgetBoundsTheJob == result # <<>> => result.usage <= MaxUsage + 1 + PipeBound

(* A pass with a timer ends, however pi hangs, and so does the run after it. *)
TimedPassEnds == phase = "stream" /\ timer # None ~> phase # "stream"

(* Past its hard limit no pi of the run is working: "the clock covers the    *)
(* whole run rather than restarting per continuation" (docs/config.md).      *)
ClockCoversTheRun == TimeoutMs > 0 /\ phase = "stream" /\ pi = "running" => now <= TimeoutMs
=============================================================================
