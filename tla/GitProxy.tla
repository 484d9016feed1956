------------------------------ MODULE GitProxy ------------------------------
(***************************************************************************)
(* The git proxy of a run (lib/git-proxy.mjs): it answers the fetches of   *)
(* the container with the credentials of the host.  A request is let       *)
(* through by the gate of resolveRoute, redirects of a forge are followed  *)
(* inside the proxy and pass the same gate, and the path a forge redirects *)
(* to is remembered, because git sends the second request of a fetch to    *)
(* the path of the first.                                                  *)
(*                                                                         *)
(* A path is a repository without its endpoint, and a location a path on a *)
(* forge.  Where a forge redirects a location to (moved) does not change.  *)
(* Texts, headers and the counters of the statistics are left out.         *)
(***************************************************************************)
EXTENDS Integers, FiniteSets

CONSTANTS
  Requests,       (* connections of the container                            *)
  Hosts,          (* keys of the configured forges                           *)
  Paths,
  BadPath,        (* a path with "..", with a bad escape, or with no forge   *)
  Moves,          (* what the forges may redirect                            *)
  MaxHops         (* MAX_UPSTREAM_HOPS                                       *)

VARIABLES
  specs,          (* the configuration of each host                          *)
  proxy,          (* null, open, closed                                      *)
  canonical,
  exchange,
  moved,
  landed          (* where the last advertisement of a path was found        *)
                  (* (history)                                               *)

vars == <<specs, proxy, canonical, exchange, moved, landed>>

Locations == [host : Hosts, path : Paths]
Nowhere   == <<>>

GetEnds   == {"fetch refs", "push refs", "dumb refs", "other"}
PostEnds  == {"fetch pack", "push pack"}
Pushes    == {"push refs", "push pack"}

HostSpec == [secret : {"value", "none"}, allowPush : BOOLEAN]

Idle == [stage |-> "idle"]

Exchange ==
  {Idle} \cup
  [stage : {"sent", "relay"}, end : GetEnds \cup PostEnds, for : Locations,
   at : Locations, hops : 0 .. MaxHops]

TypeOK ==
  /\ specs \in [Hosts -> HostSpec]
  /\ proxy \in {"null", "open", "closed"}
  /\ canonical \in [Locations -> {Nowhere} \cup Paths]
  /\ exchange \in [Requests -> Exchange]
  /\ moved \in Moves
  /\ landed \in [Locations -> {Nowhere} \cup Locations]

(* startGitProxy: a host that is off, or whose secret is empty or cannot be  *)
(* had, is dropped, and there is no proxy without a host.                    *)
Prepared(h) == specs[h].secret = "value"

Init ==
  /\ specs \in [Hosts -> HostSpec]
  /\ proxy = IF \E h \in Hosts : Prepared(h) THEN "open" ELSE "null"
  /\ canonical = [l \in Locations |-> Nowhere]
  /\ exchange = [q \in Requests |-> Idle]
  /\ moved \in Moves
  /\ landed = [l \in Locations |-> Nowhere]
-----------------------------------------------------------------------------
(* resolveRoute: the host is one of the table, and only the two routes of a  *)
(* fetch, or those of a push where that is allowed, are let through.         *)
Gate(host, path, end) ==
  /\ path # BadPath /\ host \in Hosts /\ Prepared(host)
  /\ end \in Pushes => specs[host].allowPush
  /\ end \notin {"dumb refs", "other"}

(* Mutant: the rewrite of a path is used on every forge.                     *)
CanonicalOfPath(l) ==
  LET known == {m \in Locations : m.path = l.path /\ canonical[m] # Nowhere}
  IN  IF known = {} THEN l
      ELSE [l EXCEPT !.path = canonical[CHOOSE m \in known : TRUE]]

(* canonicalize: one rewrite, of a path as a whole.                          *)
Canonical(l) ==
  IF canonical[l] = Nowhere THEN l ELSE [l EXCEPT !.path = canonical[l]]

(* handleRequest.  What is not let through is answered at once.              *)
Arrive(q) ==
  /\ proxy = "open" /\ exchange[q] = Idle
  /\ \E offered \in {"none", "wrong", "token"}, host \in Hosts,
        path \in Paths \cup {BadPath}, end \in GetEnds \cup PostEnds :
       IF offered = "token" /\ Gate(host, path, end)
       THEN LET l == [host |-> host, path |-> path]
            IN  exchange' = [exchange EXCEPT ![q] =
                  [stage |-> "sent", end |-> end, for |-> l, at |-> Canonical(l),
                   hops |-> 0]]
       ELSE UNCHANGED exchange
  /\ UNCHANGED <<specs, proxy, canonical, moved, landed>>
-----------------------------------------------------------------------------
Sent(q) == exchange[q].stage = "sent"

(* Mutant: a redirect is followed wherever it leads on the same forge.       *)
FollowedOnForge(q, end) ==
  /\ exchange[q].end \in GetEnds /\ exchange[q].hops < MaxHops
  /\ moved[exchange[q].at].host = exchange[q].at.host

(* Mutant: a forge is followed as often as it redirects.                     *)
FollowedForEver(q, end) ==
  /\ exchange[q].end \in GetEnds
  /\ Gate(moved[exchange[q].at].host, moved[exchange[q].at].path, end)

(* redirectRoute: the new location passes the gate as a GET, or the request  *)
(* is given up.                                                              *)
Followed(q, end) ==
  /\ exchange[q].end \in GetEnds /\ exchange[q].hops < MaxHops
  /\ Gate(moved[exchange[q].at].host, moved[exchange[q].at].path, end)

(* rememberCanonical: of the forge asked, the path of the forge reached.     *)
Remembered(l, m) == IF l.path = m.path THEN canonical ELSE [canonical EXCEPT ![l] = m.path]

(* The forge redirects, also to another endpoint.                            *)
Redirect(q) ==
  /\ Sent(q) /\ moved[exchange[q].at] # exchange[q].at
  /\ \E end \in GetEnds :
       IF Followed(q, end)
       THEN /\ canonical' = Remembered(exchange[q].at, moved[exchange[q].at])
            /\ exchange' = [exchange EXCEPT ![q].at = moved[@], ![q].end = end,
                                            ![q].hops = @ + 1]
       ELSE /\ exchange' = [exchange EXCEPT ![q] = Idle] /\ UNCHANGED canonical
  /\ UNCHANGED <<specs, proxy, moved, landed>>

(* The forge answers, and the answer is streamed to the container.           *)
Answer(q) ==
  /\ Sent(q) /\ moved[exchange[q].at] = exchange[q].at
  /\ exchange' = [exchange EXCEPT ![q].stage = "relay"]
  /\ landed' = IF exchange[q].end = "fetch refs"
               THEN [landed EXCEPT ![exchange[q].for] = exchange[q].at] ELSE landed
  /\ UNCHANGED <<specs, proxy, canonical, moved>>

(* The end of the stream, an error of the forge, UPSTREAM_IDLE_TIMEOUT_MS,   *)
(* or a container that hangs up, which before the answer is only noticed by  *)
(* one of the others.                                                        *)
Over(q) ==
  /\ exchange[q] # Idle
  /\ exchange' = [exchange EXCEPT ![q] = Idle]
  /\ UNCHANGED <<specs, proxy, canonical, moved, landed>>

(* close: the sockets of both sides are destroyed.                           *)
Close ==
  /\ proxy = "open" /\ proxy' = "closed"
  /\ exchange' = [q \in Requests |-> Idle]
  /\ UNCHANGED <<specs, canonical, moved, landed>>

Next ==
  \/ \E q \in Requests : Arrive(q) \/ Redirect(q) \/ Answer(q) \/ Over(q)
  \/ Close

Spec == Init /\ [][Next]_vars
-----------------------------------------------------------------------------
(* A credential goes to the forge it is for, and no push to a forge that     *)
(* does not allow it, on whatever way the request came there: asked for,     *)
(* rewritten or redirected.                                                  *)
OnlyWhatIsAllowed ==
  \A q \in Requests :
    exchange[q] # Idle =>
      /\ Prepared(exchange[q].at.host)
      /\ exchange[q].end \in Pushes => specs[exchange[q].at.host].allowPush

Begins(q) == exchange[q] = Idle /\ exchange'[q] # Idle

(* A redirect of one hop, on the forge itself.                               *)
PlainMove(l) == moved[l].host = l.host /\ moved[moved[l]] = moved[l]

(* The second request of a fetch goes where the first one found the          *)
(* repository, when the forge redirects in one hop and to itself.            *)
PackFollowsRefs ==
  [][\A q \in Requests :
       Begins(q) /\ exchange'[q].end = "fetch pack" =>
         LET l == exchange'[q].for
         IN  PlainMove(l) /\ landed[l] # Nowhere => exchange'[q].at = landed[l]]_vars
=============================================================================
