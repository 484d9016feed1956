--------------------------- MODULE CredentialProxy ---------------------------
(***************************************************************************)
(* The credential proxy of a run (lib/credential-proxy.mjs): a request of  *)
(* pi for a model goes through it to the provider, with the key of the     *)
(* host, the model of the run and the parameters the user declared; the    *)
(* answer is streamed back, and one row about it goes to the recorder.     *)
(*                                                                         *)
(* Timeout, error, end and abort of an exchange are events of the HTTP     *)
(* client that may come one after another.  A body is what the handler     *)
(* tells apart; of its parameters the model and the ceiling of the output  *)
(* are kept, which has two spellings.                                      *)
(***************************************************************************)
EXTENDS Integers, Sequences

CONSTANTS
  Requests

VARIABLES
  run,            (* what the proxy was started with                         *)
  proxy,          (* null, open, closed                                      *)
  exchange,
  rows,           (* what recorder.record got of each request                *)
  flushed         (* the requests whose rows the recorder has written        *)

vars == <<run, proxy, exchange, rows, flushed>>

Old == "max_tokens"
New == "max_completion_tokens"
Unset == "unset"

Spellings == {Old, New}

(* named: does the run name a model?  declared: ceilings in samplingParams.  *)
(* provider, model: maxTokensField in the compat of either; known: is the    *)
(* model one of the catalogue of pi?  detected: does the address ask for the *)
(* old spelling?                                                             *)
Run == [named : BOOLEAN, declared : SUBSET Spellings, endpoint : BOOLEAN,
        provider : Spellings \cup {Unset}, model : Spellings \cup {Unset},
        known : BOOLEAN, detected : BOOLEAN]

Bodies == {"chat", "encoded", "huge", "broken", "other"}

(* What the provider gets.                                                   *)
Forwarded == [model : {"real", "asked"}, ceilings : SUBSET Spellings]

Idle == [stage |-> "idle"]

Exchange ==
  {Idle} \cup
  [stage : {"live", "destroyed", "over"}, head : BOOLEAN, body : Forwarded,
   client : {"open", "gone", "whole", "cut", "refused", "padded"}]

Outcomes == {"ok", "aborted", "timeout", "transport"}

TypeOK ==
  /\ run \in Run
  /\ proxy \in {"null", "open", "closed"}
  /\ exchange \in [Requests -> Exchange]
  /\ rows \in [Requests -> Seq(Outcomes)]
  /\ flushed \subseteq Requests

Init ==
  /\ run \in Run
  /\ proxy = IF run.endpoint THEN "open" ELSE "null"
  /\ exchange = [q \in Requests |-> Idle]
  /\ rows = [q \in Requests |-> <<>>]
  /\ flushed = {}
-----------------------------------------------------------------------------
(* resolveCompat: the entry of the user over the catalogue, a model of the   *)
(* user over its provider.                                                   *)
Stated ==
  LET first  == IF run.known THEN run.provider ELSE run.model
      second == IF run.known THEN run.model ELSE run.provider
  IN  IF first # Unset THEN first ELSE second

(* maskedProviderEntry: what the address asks for fills the gap.  Behind the *)
(* mask pi uses the new spelling unless it is told otherwise.                *)
Field == IF Stated # Unset THEN Stated ELSE IF run.detected THEN Old ELSE New

(* Mutant: what is declared is added, whatever is there.                     *)
WithEveryDeclared(ceilings) == {ceilings \cup run.declared}

(* applySamplingParams: missing keys only, and one spelling of the ceiling.  *)
WithDeclared(ceilings) ==
  IF ceilings # {} THEN {ceilings} ELSE
  IF run.declared = {} THEN {{}} ELSE {{c} : c \in run.declared}

(* The body as it is forwarded: of a run that names no model, or if there is *)
(* no model in it, as it came.                                               *)
Body(kind, ceilings) ==
  IF run.named /\ kind = "chat"
  THEN [model : {"real"}, ceilings : WithDeclared(ceilings)]
  ELSE [model : {"asked"}, ceilings : {ceilings}]

(* A body that cannot be read is refused: encoded, too large, not JSON.      *)
Readable(kind) == run.named => kind \notin {"encoded", "huge", "broken"}

(* The handler.  Requests without the token, or for another host, and bodies *)
(* that are refused leave no trace.                                          *)
Arrive(q) ==
  /\ proxy = "open" /\ exchange[q] = Idle
  /\ \E admitted \in BOOLEAN, kind \in Bodies, ceilings \in {{}, {Field}} :
       IF admitted /\ Readable(kind)
       THEN \E body \in Body(kind, ceilings) :
              exchange' = [exchange EXCEPT ![q] =
                [stage |-> "live", head |-> FALSE, body |-> body, client |-> "open"]]
       ELSE UNCHANGED exchange
  /\ UNCHANGED <<run, proxy, rows, flushed>>
-----------------------------------------------------------------------------
(* Mutant: every event records.                                              *)
FinishEach(q, outcome) == [rows EXCEPT ![q] = Append(@, outcome)]

(* finish: the first event is the one recorded.                              *)
Finish(q, outcome) == IF rows[q] = <<>> THEN [rows EXCEPT ![q] = Append(@, outcome)] ELSE rows

Is(q, stage) == exchange[q].stage = stage

Streams(q) == Is(q, "live") /\ exchange[q].head

Over(q, client) ==
  exchange' = [exchange EXCEPT ![q].stage = "over",
                               ![q].client = IF @ = "gone" THEN "gone" ELSE client]

(* The head of the answer is sent on.                                        *)
Headers(q) ==
  /\ Is(q, "live") /\ ~exchange[q].head
  /\ exchange' = [exchange EXCEPT ![q].head = TRUE]
  /\ UNCHANGED <<run, proxy, rows, flushed>>

UpstreamEnds(q) ==
  /\ Streams(q)
  /\ rows' = Finish(q, "ok") /\ Over(q, "whole")
  /\ UNCHANGED <<run, proxy, flushed>>

(* The provider closes the connection in the middle of an answer.            *)
UpstreamAborts(q) ==
  /\ Streams(q)
  /\ rows' = Finish(q, "aborted") /\ Over(q, "cut")
  /\ UNCHANGED <<run, proxy, flushed>>

(* UPSTREAM_TIMEOUT_MS without a byte: recorded, and the request destroyed,  *)
(* which is an error event of it.                                            *)
Timeout(q) ==
  /\ Is(q, "live")
  /\ rows' = Finish(q, "timeout")
  /\ exchange' = [exchange EXCEPT ![q].stage = "destroyed"]
  /\ UNCHANGED <<run, proxy, flushed>>

(* The connection fails or is reset, or was destroyed: the client gets an    *)
(* error, which is put behind what it already has of an answer and ends it.  *)
(* The response that is cut as well may be faster than its end.              *)
UpstreamError(q) ==
  /\ Is(q, "live") \/ Is(q, "destroyed")
  /\ rows' = Finish(q, "transport")
  /\ \/ ~exchange[q].head /\ Over(q, "refused")
     \/ exchange[q].head /\ \E client \in {"padded", "cut"} : Over(q, client)
  /\ UNCHANGED <<run, proxy, flushed>>

(* pi hangs up.  The provider is not told.                                   *)
ClientLeaves(q) ==
  /\ exchange[q] # Idle /\ exchange[q].client = "open"
  /\ exchange' = [exchange EXCEPT ![q].client = "gone"]
  /\ UNCHANGED <<run, proxy, rows, flushed>>

(* close: the connections of pi, then the rows.                              *)
Close ==
  /\ proxy = "open" /\ proxy' = "closed"
  /\ exchange' = [q \in Requests |->
       IF exchange[q] # Idle /\ exchange[q].client = "open" THEN [exchange[q] EXCEPT !.client = "gone"] ELSE exchange[q]]
  /\ flushed' = {q \in Requests : rows[q] # <<>>}
  /\ UNCHANGED <<run, rows>>

Next ==
  \/ \E q \in Requests :
       \/ Arrive(q) \/ Headers(q) \/ UpstreamEnds(q) \/ UpstreamAborts(q)
       \/ Timeout(q) \/ UpstreamError(q) \/ ClientLeaves(q)
  \/ Close

Spec == Init /\ [][Next]_vars
-----------------------------------------------------------------------------
(* The provider never sees two spellings of one ceiling (which some refuse), *)
(* and of a run that names a model and declares a ceiling it never sees a    *)
(* chat request without one.                                                 *)
OneCeiling ==
  \A q \in Requests : exchange[q] # Idle =>
    LET body == exchange[q].body
    IN  /\ body.ceilings # Spellings
        /\ body.model = "real" /\ run.declared # {} => body.ceilings # {}

(* Every exchange is recorded once, for what happened to it first, and one   *)
(* that was over, or timed out, when the proxy was closed is written.        *)
RecordedOnce ==
  \A q \in Requests :
    /\ Len(rows[q]) <= 1
    /\ Is(q, "over") => Len(rows[q]) = 1
    /\ exchange[q] # Idle /\ exchange[q].client = "whole" => rows[q] = <<"ok">>
    /\ proxy = "closed" /\ exchange[q] # Idle /\ exchange[q].client # "gone" => q \in flushed
=============================================================================
