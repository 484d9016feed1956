--------------------------- MODULE RequestRecorder ---------------------------
(***************************************************************************)
(* The recorder of a run's model requests (lib/telemetry.mjs).  Rows wait  *)
(* in memory until there are FlushAt of them, a timer fires, or the run is *)
(* over; beside them the recorder keeps a summary, in which repeatRun is   *)
(* the length of the longest series of answers of the same length: what a  *)
(* model in a loop looks like.                                             *)
(*                                                                         *)
(* A request is what the summary tells apart.  Lengths are in units of     *)
(* which REPEAT_MIN_TOKENS is Long and the tolerance (1 %, at least 1) is  *)
(* one; Unknown is the length of an answer that reports no usage.          *)
(***************************************************************************)
EXTENDS Integers, SequencesExt, FiniteSetsExt

CONSTANTS
  Lengths,
  Long,
  FlushAt,        (* FLUSH_AT_ROWS                                           *)
  MaxRequests     (* bound: requests of the run                              *)

VARIABLES
  pending,        (* numbers of the rows in memory                           *)
  written,        (* numbers of the rows in the table                        *)
  timer,
  summary,
  repeatRun,      (* the series that is running, and its anchor              *)
  repeatLastOut,
  closed,
  requests        (* all requests so far (history)                           *)

vars == <<pending, written, timer, summary, repeatRun, repeatLastOut, closed, requests>>

Unknown == -1
Null    == -1

(* A failed request reports no length; only a long answer is cut off.        *)
Request ==
  {r \in [failed : BOOLEAN, out : Lengths \cup {Unknown}, cut : BOOLEAN] :
     (r.failed => r.out = Unknown) /\ (r.cut => r.out >= Long)}

TypeOK ==
  /\ pending \in Seq(1 .. MaxRequests)
  /\ written \subseteq 1 .. MaxRequests
  /\ timer \in BOOLEAN /\ closed \in BOOLEAN
  /\ summary \in [failed : Nat, truncated : Nat, lastCut : BOOLEAN, repeatRun : Nat]
  /\ repeatRun \in Nat /\ repeatLastOut \in Lengths \cup {Null}
  /\ requests \in Seq(Request)

Init ==
  /\ pending = <<>> /\ written = {} /\ timer = FALSE /\ closed = FALSE
  /\ summary = [failed |-> 0, truncated |-> 0, lastCut |-> FALSE, repeatRun |-> 0]
  /\ repeatRun = 0 /\ repeatLastOut = Null
  /\ requests = <<>>
-----------------------------------------------------------------------------
Near(out, anchor) == anchor # Null /\ out - anchor \in -1 .. 1

(* Mutant: each answer is compared with the one before it.                   *)
NextSeriesChained(request) ==
  IF request.failed THEN [run |-> 0, anchor |-> Null]
  ELSE IF request.out >= Long
  THEN [run |-> IF Near(request.out, repeatLastOut) THEN repeatRun + 1 ELSE 1,
        anchor |-> request.out]
  ELSE [run |-> IF request.out = Unknown THEN repeatRun ELSE 0,
        anchor |-> IF request.out = Unknown THEN repeatLastOut ELSE Null]

(* A failure and a short answer break a series; one of unknown length leaves *)
(* it; a long one continues it if it is as long as the first of the series.  *)
(* A usage without a count of output is a short answer (Number(null) = 0);   *)
(* Unknown is an answer without any usage.                                   *)
NextSeries(request) ==
  CASE request.failed -> [run |-> 0, anchor |-> Null]
    [] ~request.failed /\ request.out >= Long ->
         IF Near(request.out, repeatLastOut)
         THEN [run |-> repeatRun + 1, anchor |-> repeatLastOut]
         ELSE [run |-> 1, anchor |-> request.out]
    [] ~request.failed /\ request.out \in 0 .. Long - 1 -> [run |-> 0, anchor |-> Null]
    [] OTHER -> [run |-> repeatRun, anchor |-> repeatLastOut]

One(b) == IF b THEN 1 ELSE 0

(* flush: all that is pending leaves the memory, written or not.             *)
Flushed(batch) ==
  /\ pending' = <<>>
  /\ \/ written' = written \cup Range(batch)
     \/ UNCHANGED written

LastCut(request) == request.cut

(* record.  Rows may still come after close, and start the timer again.      *)
Record ==
  /\ Len(requests) < MaxRequests
  /\ \E request \in Request :
       LET series == NextSeries(request)
           batch  == Append(pending, Len(requests) + 1)
       IN  /\ requests' = Append(requests, request)
           /\ repeatRun' = series.run /\ repeatLastOut' = series.anchor
           /\ summary' = [failed |-> summary.failed + One(request.failed),
                          truncated |-> summary.truncated + One(request.cut),
                          lastCut |-> LastCut(request),
                          repeatRun |-> IF series.run > summary.repeatRun
                                        THEN series.run ELSE summary.repeatRun]
           /\ IF Len(batch) >= FlushAt
              THEN Flushed(batch) /\ UNCHANGED timer
              ELSE pending' = batch /\ timer' = TRUE /\ UNCHANGED written
  /\ UNCHANGED closed

TimerFires ==
  /\ timer /\ timer' = FALSE
  /\ Flushed(pending)
  /\ UNCHANGED <<summary, repeatRun, repeatLastOut, closed, requests>>

Close ==
  /\ ~closed /\ closed' = TRUE
  /\ timer' = FALSE
  /\ Flushed(pending)
  /\ UNCHANGED <<summary, repeatRun, repeatLastOut, requests>>

Next == Record \/ TimerFires \/ Close

Spec == Init /\ [][Next]_vars
-----------------------------------------------------------------------------
(* The long answers from i to j, those of unknown length left out, are all   *)
(* as long as the one at i.                                                  *)
Series(i, j) ==
  /\ requests[i].out >= Long /\ requests[j].out >= Long
  /\ \A k \in i .. j :
       /\ ~requests[k].failed
       /\ requests[k].out = Unknown \/ requests[k].out >= Long
       /\ requests[k].out # Unknown => requests[k].out - requests[i].out \in -1 .. 1

Answers(i, j) == Cardinality({k \in i .. j : requests[k].out # Unknown})

(* The summary reports a repetition when there is one, and no longer one     *)
(* than there is: lengths that drift, answers a failure lies between and     *)
(* short answers are not the same answer again.                              *)
NoFalseRepetition ==
  LET series == {s \in (DOMAIN requests) \X (DOMAIN requests) : s[1] <= s[2] /\ Series(s[1], s[2])}
  IN  /\ summary.repeatRun <= Max({Answers(s[1], s[2]) : s \in series} \cup {0})
      /\ series # {} => summary.repeatRun > 0

(* No row is written twice or waits without a timer, what a killed run can   *)
(* lose is bounded, and the summary tells how the last request ended.        *)
BatchIsSmall ==
  /\ Len(pending) < FlushAt
  /\ Range(pending) \cap written = {}
  /\ pending # <<>> => timer
  /\ requests # <<>> => summary.lastCut = Last(requests).cut

(* What the summary and the table tell of a run's requests is what happened. *)
RepetitionIsReal == NoFalseRepetition /\ BatchIsSmall
=============================================================================
