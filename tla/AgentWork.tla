------------------------------ MODULE AgentWork ------------------------------
(***************************************************************************)
(* What a run did with its hands (lib/agent-work.mjs): the tool calls of   *)
(* pi are counted as they start and end, and a run of the json engine that *)
(* is continued after a cut answer adds up the work of its passes          *)
(* (mergeRecoveredRun).  Each pass counts from a state of its own, with a  *)
(* clock that starts at its first event.  The time its tools held is the   *)
(* length of the union of their calls (summarizeTiming of lib/pi.mjs).     *)
(*                                                                         *)
(* A call is its kind of tool and the file it is about; one line is read   *)
(* or written by a call.                                                   *)
(***************************************************************************)
EXTENDS Integers, Sequences, FiniteSetsExt

CONSTANTS
  Kinds,          (* of tools: those that read, that edit, and others        *)
  Files,
  Passes,         (* bound: 1 + truncationRetryLimit                         *)
  PassCalls,      (* bound: calls of a pass                                  *)
  Horizon         (* bound: time                                             *)

VARIABLES
  now,
  began,          (* time of the first event of the pass                     *)
  open,           (* numbers of the calls that have started and not ended    *)
  work,           (* its AgentWorkState                                      *)
  intervals,      (* its toolIntervals                                       *)
  total,          (* the work of the passes before, NoWork for none          *)
  passes,         (* how many passes have begun                              *)
  calls,          (* all calls so far, in order (history)                    *)
  jobBegan        (* time of the first event of all (history)                *)

vars == <<now, began, open, work, intervals, total, passes, calls, jobBegan>>

Null   == -1
NoWork == <<>>

Call  == [kind : Kinds, file : Files]

(* createAgentWorkState, and the summary of it.                              *)
NothingDone ==
  [linesRead |-> 0, linesWritten |-> 0, readPaths |-> {}, rereads |-> 0, errors |-> 0,
   toolCalls |-> 0, firstEdit |-> Null, repeatCallRun |-> 0, lastCall |-> NoWork, currentCallRun |-> 0]

Summary(w) ==
  [linesRead |-> w.linesRead, linesWritten |-> w.linesWritten, filesRead |-> Cardinality(w.readPaths),
   rereads |-> w.rereads, errors |-> w.errors, toolCalls |-> w.toolCalls,
   firstEdit |-> w.firstEdit, repeatCallRun |-> w.repeatCallRun]

AgentWorkState ==
  [linesRead : Nat, linesWritten : Nat, readPaths : SUBSET Files, rereads : Nat, errors : Nat,
   toolCalls : Nat, firstEdit : {Null} \cup Nat, repeatCallRun : Nat, lastCall : Call \cup {NoWork},
   currentCallRun : Nat]

Summaries ==
  [linesRead : Nat, linesWritten : Nat, filesRead : Nat, rereads : Nat, errors : Nat,
   toolCalls : Nat, firstEdit : {Null} \cup Nat, repeatCallRun : Nat]

Spans == (0 .. Horizon) \X (0 .. Horizon)

TypeOK ==
  /\ now \in 0 .. Horizon /\ {began, jobBegan} \subseteq {Null} \cup 0 .. Horizon
  /\ open \subseteq DOMAIN calls
  /\ work \in AgentWorkState /\ IsFiniteSet(work.readPaths)
  /\ intervals \subseteq Spans
  /\ total \in {NoWork} \cup Summaries
  /\ passes \in 1 .. Passes
  /\ calls \in Seq([call : Call, at : 0 .. Horizon, pass : 1 .. Passes])

Init ==
  /\ now = 0 /\ began = Null /\ open = {} /\ work = NothingDone /\ intervals = {}
  /\ total = NoWork /\ passes = 1 /\ calls = <<>> /\ jobBegan = Null
-----------------------------------------------------------------------------
MaxOf(a, b) == IF a > b THEN a ELSE b

(* noteRepeat.                                                               *)
Repeats(w, call) ==
  LET run == IF call = w.lastCall THEN w.currentCallRun + 1 ELSE 1
  IN  [w EXCEPT !.currentCallRun = run, !.lastCall = call,
                !.repeatCallRun = MaxOf(@, run)]

(* noteToolStart: what is written is in the arguments.                       *)
Started(w, call, at) ==
  LET counted == [Repeats(w, call) EXCEPT !.toolCalls = @ + 1]
  IN  IF call.kind = "edit"
      THEN [counted EXCEPT !.linesWritten = @ + 1,
                           !.firstEdit = IF @ = Null THEN now - at ELSE @]
      ELSE counted

(* noteToolEnd: what was read is in the result, and a failure read nothing.  *)
EndedWell(w, call) ==
  IF call.kind # "read" THEN w
  ELSE [w EXCEPT !.linesRead = @ + 1,
                 !.rereads = IF call.file \in w.readPaths THEN @ + 1 ELSE @,
                 !.readPaths = @ \cup {call.file}]

Failed(w) == [w EXCEPT !.errors = @ + 1]

(* The session header of pi, firstEventAt of the pass.                       *)
FirstEvent ==
  /\ began = Null /\ began' = now
  /\ jobBegan' = IF jobBegan = Null THEN now ELSE jobBegan
  /\ UNCHANGED <<now, open, work, intervals, total, passes, calls>>

ToolStart ==
  /\ began # Null /\ work.toolCalls < PassCalls
  /\ \E call \in Call :
       /\ work' = Started(work, call, began)
       /\ open' = open \cup {Len(calls) + 1}
       /\ calls' = Append(calls, [call |-> call, at |-> now, pass |-> passes])
  /\ UNCHANGED <<now, began, intervals, total, passes, jobBegan>>

ToolEnd ==
  \E k \in open :
    /\ open' = open \ {k}
    /\ intervals' = intervals \cup {<<calls[k].at, now>>}
    /\ work' \in {EndedWell(work, calls[k].call), Failed(work)}
    /\ UNCHANGED <<now, began, total, passes, calls, jobBegan>>
-----------------------------------------------------------------------------
(* Mutant: a loop as long as those of both passes.                           *)
MergedLoops(first, second) ==
  [f \in DOMAIN first |->
     IF f = "firstEdit" THEN (IF first[f] = Null THEN second[f] ELSE first[f]) ELSE first[f] + second[f]]

EarlierOf(a, b) == IF a = Null THEN b ELSE IF b = Null \/ a < b THEN a ELSE b

(* mergeAgentWork.                                                           *)
Merged(first, second) ==
  [f \in DOMAIN first |->
     CASE f = "firstEdit"     -> EarlierOf(first[f], second[f])
       [] f = "repeatCallRun" -> MaxOf(first[f], second[f])
       [] OTHER               -> first[f] + second[f]]

Reported == IF total = NoWork THEN Summary(work) ELSE Merged(total, Summary(work))

(* The pass ends with a cut answer, and pi is started again.                 *)
NextPass ==
  /\ began # Null /\ passes < Passes /\ passes' = passes + 1
  /\ total' = Reported
  /\ work' = NothingDone /\ began' = Null /\ open' = {} /\ intervals' = {}
  /\ UNCHANGED <<now, calls, jobBegan>>

Tick ==
  /\ now < Horizon /\ now' = now + 1
  /\ UNCHANGED <<began, open, work, intervals, total, passes, calls, jobBegan>>

Next == FirstEvent \/ ToolStart \/ ToolEnd \/ NextPass \/ Tick

Spec == Init /\ [][Next]_vars
-----------------------------------------------------------------------------
FirstOf(spans) == CHOOSE i \in spans : \A j \in spans : i[1] <= j[1]

(* mergeIntervals: taken by their starts, each counts from where the last    *)
(* one that counted ended.  The argument is the spans left and that cursor.  *)
TimeOf[x \in (SUBSET Spans) \X ({Null} \cup 0 .. Horizon)] ==
  IF x[1] = {} THEN 0
  ELSE LET i    == FirstOf(x[1])
           from == MaxOf(i[1], x[2])
       IN  IF i[2] > from THEN i[2] - from + TimeOf[<<x[1] \ {i}, i[2]>>]
           ELSE TimeOf[<<x[1] \ {i}, x[2]>>]

(* A call that is still open counts for nothing.                             *)
ToolTime == TimeOf[<<intervals, Null>>]

Held == {t \in 0 .. Horizon - 1 : \E i \in intervals : i[1] <= t /\ t < i[2]}

Calls(i, j) == {k \in i .. j : calls[k].call = calls[i].call /\ calls[k].pass = calls[i].pass}

Loops == {p[2] - p[1] + 1 : p \in {q \in (DOMAIN calls) \X (DOMAIN calls) :
                                      q[1] <= q[2] /\ Calls(q[1], q[2]) = q[1] .. q[2]}}

Edits == {k \in DOMAIN calls : calls[k].call.kind = "edit"}

(* The report of a job is about all of its passes: every call is in it, a    *)
(* file read twice in a pass is one file and a reread, and its loop is the   *)
(* longest of any pass, not the sum of several.                              *)
CallsAddUp ==
  /\ Reported.toolCalls = Len(calls)
  /\ Reported.linesWritten = Cardinality(Edits)
  /\ Reported.linesRead = Reported.filesRead + Reported.rereads
  /\ Reported.repeatCallRun = Max(Loops \cup {0})
  /\ (Reported.firstEdit = Null) <=> (Edits = {})

(* Tools that ran at once are not counted twice.                             *)
OverlapsCountOnce == ToolTime = Cardinality(Held)

(* The report of a run is the sum of what was done, nothing of it twice.     *)
WorkAddsUp == CallsAddUp /\ OverlapsCountOnce

(* "The first edit of the whole job" (mergeAgentWork): how long it looked    *)
(* around before it changed the first file.                                  *)
FirstEditOfTheJob ==
  \A k \in DOMAIN calls :
    /\ calls[k].call.kind = "edit"
    /\ \A j \in 1 .. k - 1 : calls[j].call.kind # "edit"
    => Reported.firstEdit = calls[k].at - jobBegan
=============================================================================
