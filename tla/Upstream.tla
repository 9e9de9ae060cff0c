------------------------------ MODULE Upstream ------------------------------
(***************************************************************************)
(* Requests of one worker that are passed to the servers of one upstream:  *)
(* the state machine of http/ngx_http_upstream.c over the round robin      *)
(* balancer with backup servers of ngx_http_upstream_round_robin.c.  The   *)
(* phases "connect", "declined", "send" and "read" are inside a handler that has  *)
(* not returned yet, when no other request moves.                            *)
(***************************************************************************)
EXTENDS Integers, Sequences, FiniteSets, FiniteSetsExt

CONSTANTS
  Upstreams,     \* configurations: << main servers, backup servers, requests at one time >>, servers being
                 \* records [weight, max_fails, down] as ngx_http_upstream_init_round_robin sorts them
  Proxied,       \* requests that are in the upstream module at one time
  NextUpstream,  \* proxy_next_upstream
  MaxDepth       \* bound: servers asked in one handler are counted so far

ASSUME UpstreamAssumption ==
  /\ \A s \in Upstreams : \A g \in 1..2 : \A i \in DOMAIN s[g] :
       /\ s[g][i].weight \in Nat \ {0} /\ s[g][i].max_fails \in Nat /\ s[g][i].down \in BOOLEAN
       /\ i > 1 => s[g][i - 1].weight >= s[g][i].weight
  /\ NextUpstream \subseteq {"error", "timeout", "invalid_header", "http_404", "http_500"} /\ MaxDepth \in Nat

VARIABLES
  servers,  \* the configuration
  peer,     \* [group -> [index -> [cw: current_weight, or 0 when below, fails, recent: fail_timeout has not passed yet]]]
  proxied,  \* the requests, see NoProxied
  alerts    \* history: what the last choice of a server was blamed for

upstreamVars == <<servers, peer, proxied, alerts>>

\* tries, current, tried, group: the state of the balancer; gone: c->error of the client;
\* whole: all of the request was sent; headed: u->header_sent; rh, wh: the
\* handlers; wtimer, rtimer: the timers of the upstream connection.  History: asked, how often a
\* server was chosen; amnesty, the failures of a server were forgotten meanwhile; depth, servers
\* asked in one handler; early, the response began before the request was sent;
\* missed, a server answered 404; over, the failing servers of the group that were passed
\* over; twice, one of them was counted again.
NoProxied ==
  [phase |-> "idle", tries |-> 0, current |-> 1, tried |-> {}, group |-> 1, gone |-> FALSE,
   whole |-> FALSE, headed |-> FALSE, rh |-> "header", wh |-> "send", wtimer |-> FALSE,
   rtimer |-> FALSE, asked |-> {}, again |-> FALSE, amnesty |-> FALSE, depth |-> 0, early |-> FALSE, missed |-> FALSE,
   over |-> {}, twice |-> FALSE]

Number(g) == Len(servers[g])
HasNext(g) == g = 1 /\ Number(2) > 0
Single == Number(1) = 1 /\ Number(2) = 0

\* ngx_http_upstream_init_round_robin: a server that is down has no weight, unless it is a backup
Weight(g, i) == IF g = 1 /\ servers[g][i].down THEN 0 ELSE servers[g][i].weight

UpstreamInit ==
  /\ servers \in Upstreams
  /\ peer = [g \in 1..2 |-> [i \in 1..Number(g) |-> [cw |-> Weight(g, i), fails |-> 0, recent |-> FALSE]]]
  /\ proxied = [r \in Proxied |-> NoProxied]
  /\ alerts = {}

-----------------------------------------------------------------------------
(* ngx_http_upstream_get_peer and ngx_http_upstream_get_round_robin_peer *)

\* a server that failed too often is not chosen again in this period
Shunned(p, i) == [p EXCEPT ![i].cw = 0]

\* server i gives way to the next one, j, that has weight left
Ahead(g, p, i, j) == (p[i].cw * 1000) \div p[j].cw > (Weight(g, i) * 1000) \div Weight(g, j)

WithWeight(p) == {i \in DOMAIN p : p[i].cw > 0}

\* new weights when all are used up
Reweighted(g, p) ==
  IF WithWeight(p) = {} THEN [i \in DOMAIN p |-> [p[i] EXCEPT !.cw = Weight(g, i)]] ELSE p

\* The peer that is chosen: the first that is ahead of its follower, or the last; the first of all
\* when no peer has weight.
GetPeer(g, p, left) ==
  LET Follower(i) == Min({j \in left : j > i})
  IN  IF left = {} THEN 1 ELSE Min({i \in left : i = Max(left) \/ Ahead(g, p, i, Follower(i))})

Live(g, p, i) == servers[g][i].max_fails = 0 \/ p[i].fails < servers[g][i].max_fails \/ ~p[i].recent

\* the failures are forgotten when fail_timeout has passed
Forgiven(g, p, i) ==
  IF servers[g][i].max_fails # 0 /\ p[i].fails >= servers[g][i].max_fails THEN [p EXCEPT ![i].fails = 0] ELSE p

\* One round of the loops with server i and then with server `on': a state
\* [p, i, tries, tried, found, over, twice] of the search.
Round(g, s, i, on) ==
  IF i \in s.tried THEN [s EXCEPT !.i = on]
  ELSE IF servers[g][i].down THEN [s EXCEPT !.i = on, !.tried = @ \cup {i}, !.tries = @ - 1]
  ELSE IF Live(g, s.p, i) THEN [s EXCEPT !.p = Forgiven(g, @, i), !.i = i, !.found = TRUE]
  ELSE [s EXCEPT !.p = Shunned(@, i), !.i = on, !.tries = @ - 1, !.over = @ \cup {i}, !.twice = @ \/ i \in s.over]

\* the first search of a request chooses by weight, the others go round
ByWeight(g, s, p) ==
  LET i == GetPeer(g, p, WithWeight(p)) IN Round(g, [s EXCEPT !.p = p], i, i)

GoRound(g, s) == Round(g, s, s.i, IF s.i >= Number(g) THEN 1 ELSE s.i + 1)

\* the server that was found
Taken(e) == [e EXCEPT !.p = [@ EXCEPT ![e.i].cw = Max({0, @ - 1})], !.tried = @ \cup {e.i}]

TakenIfFound(e) == IF e.found THEN Taken(e) ELSE e

\* As many rounds as there are tries: `stuck' is the alert after the last of them.
Search(g, u) ==
  LET f[k \in 0..u.tries] ==
        IF k = 0 THEN [p |-> peer[g], i |-> u.current, tries |-> u.tries, tried |-> u.tried, found |-> FALSE,
                       over |-> u.over, twice |-> u.twice]
        ELSE IF f[k - 1].found \/ f[k - 1].tries = 0 THEN f[k - 1]
        ELSE IF u.tries = Number(g) THEN ByWeight(g, f[k - 1], Reweighted(g, f[k - 1].p))
        ELSE GoRound(g, f[k - 1])
  IN  TakenIfFound(f[u.tries])

\* all peers failed, mark them as live for quick recovery
Recovered(p) == [i \in DOMAIN p |-> [p[i] EXCEPT !.fails = 0]]

\* the last server of the group was found: the backup servers count from now on
MoreTries(g, tries) == IF tries = 1 /\ HasNext(g) THEN tries + Number(2) ELSE tries

\* History: the servers that are neither down nor failing, and were neither asked for the request u
\* nor passed over before.
Untried(u, g) ==
  {i \in 1..Number(g) : /\ ~servers[g][i].down /\ Live(g, peer[g], i)
                        /\ <<g, i>> \notin u.asked /\ ~(g = u.group /\ i \in u.over)}

\* What comes of a search e among the servers of group g, or of one, s, among those of group h
\* after it; given: the groups that are given up.
Outcome(u, g, e, h, s, p) ==
  LET last == s.found /\ s.tries = 1 /\ HasNext(h) IN
  [found |-> s.found,
   peer  |-> [x \in 1..2 |-> IF ~s.found /\ x \in {g, h} THEN Recovered(p[x]) ELSE p[x]],
   u     |-> [u EXCEPT !.group = h, !.current = s.i, !.tried = IF last THEN {} ELSE s.tried,
                       !.tries = IF s.found THEN MoreTries(h, s.tries) ELSE s.tries,
                       !.over = s.over, !.twice = s.twice],
   stuck |-> (~e.found /\ e.tries > 0) \/ (~s.found /\ s.tries > 0),
   given |-> (IF e.found THEN {} ELSE {g}) \cup (IF s.found THEN {} ELSE {h})]

WithBackup(u, g, e, b) ==
  IF ~e.found /\ HasNext(g) THEN Outcome(u, g, e, 2, b, <<e.p, b.p>>)
  ELSE Outcome(u, g, e, g, e, [peer EXCEPT ![g] = e.p])

Searched(u, g, e) ==
  WithBackup(u, g, e, Search(2, [u EXCEPT !.tries = Number(2), !.tried = {}, !.over = {}, !.twice = e.twice]))

GetRoundRobinPeer(u) ==
  IF Single THEN [found |-> TRUE, peer |-> peer, u |-> u, stuck |-> FALSE, given |-> {}]
  ELSE Searched(u, u.group, Search(u.group, u))

-----------------------------------------------------------------------------
(* ngx_http_upstream_free_round_robin_peer *)

\* failures count no further than max_fails
Counted(g, i, n) == Min({n, servers[g][i].max_fails})

Lightened(g, p, i) ==
  IF servers[g][i].max_fails = 0 THEN p.cw ELSE p.cw - Weight(g, i) \div servers[g][i].max_fails

\* mutant: the time of the failure is not noted
FailedUntimed(g, i) ==
  [peer[g] EXCEPT ![i] = [cw |-> Max({0, Lightened(g, @, i)}), fails |-> Counted(g, i, @.fails + 1), recent |-> FALSE]]

\* the peers of a group after peer i failed
Failed(g, i) ==
  [peer[g] EXCEPT ![i] = [cw |-> Max({0, Lightened(g, @, i)}), fails |-> Counted(g, i, @.fails + 1), recent |-> TRUE]]

\* mutant: two tries are used up
FreePeerTwice(u) ==
  IF Single THEN [u EXCEPT !.tries = 0]
  ELSE [u EXCEPT !.current = IF @ >= Number(u.group) THEN 1 ELSE @ + 1, !.tries = Max({0, @ - 2})]

FreePeer(u) ==
  IF Single THEN [u EXCEPT !.tries = 0]
  ELSE [u EXCEPT !.current = IF @ >= Number(u.group) THEN 1 ELSE @ + 1, !.tries = Max({0, @ - 1})]

-----------------------------------------------------------------------------
(* ngx_http_upstream_next and ngx_http_upstream_finalize_request *)

Handling(r) == proxied[r].phase \in {"connect", "declined", "send", "read"}
Idle == \A r \in Proxied : ~Handling(r)

\* the handler of r runs on, or begins when none runs
Runs(r, phase) == proxied[r].phase = phase \/ (proxied[r].phase = "open" /\ Idle)

Now(r, u) == proxied' = [proxied EXCEPT ![r] = u]
Waits(u) == [u EXCEPT !.phase = "open", !.depth = 0]

\* ngx_http_upstream_finalize_request closes the connection and frees the peer without a failure
Finalize(r) == Now(r, NoProxied) /\ UNCHANGED <<servers, peer>> /\ alerts' = {}

GoesOn(u, type) == ~u.gone /\ u.tries > 0 /\ type \in NextUpstream

\* ngx_http_upstream_next for every failure but "no live upstreams"
NextServer(r, type) ==
  LET u == [FreePeer(proxied[r]) EXCEPT !.missed = @ \/ type = "http_404"]
      g == proxied[r].group
      fails == type # "http_404" /\ ~Single
  IN /\ peer' = IF fails THEN [peer EXCEPT ![g] = Failed(g, proxied[r].current)] ELSE peer
     /\ Now(r, IF GoesOn(u, type) THEN [u EXCEPT !.phase = "connect", !.wtimer = FALSE, !.rtimer = FALSE] ELSE NoProxied)
     /\ alerts' = {} /\ UNCHANGED servers

-----------------------------------------------------------------------------
(* ngx_http_upstream_init_request and ngx_http_upstream_connect *)

Start(r) ==
  /\ Idle /\ proxied[r].phase = "idle"
  /\ Cardinality({x \in Proxied : proxied[x].phase # "idle"}) < servers[3]
  /\ Now(r, [NoProxied EXCEPT !.phase = "connect", !.tries = Number(1)])
  /\ alerts' = {} /\ UNCHANGED <<servers, peer>>

\* the request was passed to the server <<g, i>>, and the failures of the groups of `given' were forgotten
Noted(u, g, i) ==
  [u EXCEPT !.asked = @ \cup {<<g, i>>}, !.again = @ \/ <<g, i>> \in u.asked, !.depth = Min({MaxDepth, @ + 1})]

Amnesty(x) == [r \in Proxied |-> IF x[r].phase = "idle" THEN x[r] ELSE [x[r] EXCEPT !.amnesty = TRUE]]

\* rc: what ngx_event_connect_peer returns when a server was found
Connect(r, rc) ==
  /\ proxied[r].phase = "connect"
  /\ \E o \in {GetRoundRobinPeer(proxied[r])} :
     LET u == Noted(o.u, o.u.group, o.u.current)
         v == [u EXCEPT !.whole = FALSE, !.rh = "header", !.wh = "send", !.rtimer = FALSE]
     IN /\ alerts' = (IF o.stuck THEN {"stuck"} ELSE {})
                     \cup (IF ~o.u.twice /\ \E g \in o.given : Untried(proxied[r], g) # {} THEN {"untried"} ELSE {})
        /\ UNCHANGED servers
        /\ IF ~o.found
           THEN rc = "busy" /\ peer' = o.peer /\ proxied' = Amnesty([proxied EXCEPT ![r] = NoProxied])
           ELSE \/ rc = "error" /\ peer' = o.peer /\ Now(r, NoProxied)
                \/ rc = "declined" /\ peer' = o.peer /\ Now(r, [u EXCEPT !.phase = "declined"])
                \/ rc = "again" /\ peer' = o.peer /\ Now(r, Waits([v EXCEPT !.wtimer = TRUE]))
                \/ rc = "ok" /\ peer' = o.peer /\ Now(r, [v EXCEPT !.phase = "send", !.wtimer = FALSE])
Declined(r) == proxied[r].phase = "declined" /\ NextServer(r, "error")

-----------------------------------------------------------------------------
(* ngx_http_upstream_send_request_handler and ngx_http_upstream_send_request *)

WriteTimedOut(r) ==
  /\ Idle /\ proxied[r].phase = "open" /\ proxied[r].wh = "send" /\ proxied[r].wtimer
  /\ NextServer(r, "timeout")

\* the response has begun: the rest of the request is not sent
WriteNoMore(r) ==
  /\ Idle /\ proxied[r].phase = "open" /\ proxied[r].wh = "send" /\ proxied[r].headed
  /\ Now(r, [proxied[r] EXCEPT !.wh = "dummy"])
  /\ alerts' = {} /\ UNCHANGED <<servers, peer>>

\* mutant: the timer for the response is not set
AwaitsUntimed(u) == [u EXCEPT !.whole = TRUE, !.wtimer = FALSE]

\* all of the request is written: the response is waited for
AwaitsResponse(u) == [u EXCEPT !.whole = TRUE, !.wtimer = FALSE, !.rtimer = TRUE]

SendRequest(r, rc) ==
  /\ Runs(r, "send") /\ proxied[r].wh = "send" /\ (proxied[r].phase = "open" => ~proxied[r].headed)
  /\ \/ rc = "error" /\ NextServer(r, "error")                  \* or test_connect fails
     \/ /\ rc = "again" /\ ~proxied[r].whole
        /\ Now(r, Waits([proxied[r] EXCEPT !.wtimer = TRUE]))
        /\ alerts' = {} /\ UNCHANGED <<servers, peer>>
     \/ /\ rc \in {"ok", "ready"}
        /\ Now(r, IF rc = "ready" THEN [AwaitsResponse(proxied[r]) EXCEPT !.phase = "read"]
                                  ELSE Waits([AwaitsResponse(proxied[r]) EXCEPT !.wh = "dummy"]))
        /\ alerts' = {} /\ UNCHANGED <<servers, peer>>

-----------------------------------------------------------------------------
(* ngx_http_upstream_process_header, ngx_http_upstream_test_next, ngx_http_upstream_send_response *)

ReadTimedOut(r) ==
  /\ Idle /\ proxied[r].phase = "open" /\ proxied[r].rh = "header" /\ proxied[r].rtimer
  /\ NextServer(r, "timeout")

\* mutant: the handler of the header stays
ResponseReadAgain(u) == Waits([u EXCEPT !.headed = TRUE, !.rtimer = TRUE, !.early = @ \/ ~u.whole])

\* the header goes to the client, and the body is read by other handlers
Response(u) == Waits([u EXCEPT !.headed = TRUE, !.rh = "body", !.rtimer = TRUE, !.early = @ \/ ~u.whole])

ProcessHeader(r, rc) ==
  /\ Runs(r, "read") /\ proxied[r].rh = "header"
  /\ \/ /\ rc = "again" /\ Now(r, Waits(proxied[r])) /\ alerts' = {} /\ UNCHANGED <<servers, peer>>
     \/ rc \in {"error", "invalid_header"} /\ NextServer(r, rc)
     \/ rc \in {"http_404", "http_500"} /\ proxied[r].tries > 1 /\ rc \in NextUpstream /\ NextServer(r, rc)
     \/ rc = "ok" /\ Now(r, Response(proxied[r])) /\ alerts' = {} /\ UNCHANGED <<servers, peer>>
     \/ rc = "abort" /\ Finalize(r)                              \* no memory, or nothing but a header

\* ngx_http_upstream_process_request and the handlers of the body: its end, an error or a timeout
BodyEnds(r) == Idle /\ proxied[r].phase = "open" /\ proxied[r].rh = "body" /\ Finalize(r)

\* ngx_http_upstream_check_broken_connection
ClientGone(r) ==
  /\ Idle /\ proxied[r].phase = "open" /\ proxied[r].rh = "header" /\ ~proxied[r].gone
  /\ \/ Now(r, [proxied[r] EXCEPT !.gone = TRUE]) /\ alerts' = {} /\ UNCHANGED <<servers, peer>>  \* u->cacheable
     \/ Finalize(r)

\* now - peer->accessed > peer->fail_timeout
TimePasses(g, i) ==
  /\ Idle /\ peer[g][i].recent
  /\ peer' = [peer EXCEPT ![g][i].recent = FALSE]
  /\ proxied' = Amnesty(proxied)
  /\ alerts' = {} /\ UNCHANGED servers

UpstreamNext ==
  \/ \E r \in Proxied :
       \/ Start(r)
       \/ \E rc \in {"ok", "again", "busy", "declined", "error"} : Connect(r, rc)
       \/ \E rc \in {"ok", "ready", "again", "error"} : SendRequest(r, rc)
       \/ \E rc \in {"ok", "again", "error", "abort", "invalid_header", "http_404", "http_500"} : ProcessHeader(r, rc)
       \/ Declined(r) \/ WriteTimedOut(r) \/ WriteNoMore(r) \/ ReadTimedOut(r) \/ BodyEnds(r) \/ ClientGone(r)
  \/ \E g \in 1..2 : \E i \in DOMAIN peer[g] : TimePasses(g, i)

UpstreamSpec == UpstreamInit /\ [][UpstreamNext]_upstreamVars

-----------------------------------------------------------------------------
(* Properties *)

AnyServer(P(_)) == \E g \in 1..2 : \E i \in 1..Number(g) : P(servers[g][i])

Backup == Number(2) > 0
MayRepeat(u) == Backup /\ (u.missed \/ AnyServer(LAMBDA s : s.max_fails # 1))

\* "All peers failed": a group is given up, and its failures forgotten, only if each of its servers
\* is down, failing or was tried for this request - unless a failing server was counted twice, or a
\* backup server is down.
AllFailed == "untried" \in alerts => \E i \in 1..Number(2) : servers[2][i].down

\* The search does not get stuck on servers that it has tried ("round robin upstream stuck"),
\* unless servers are marked as down.
NeverStuck == AnyServer(LAMBDA s : s.down) \/ "stuck" \notin alerts

\* A server is asked at most once for a request, unless its failures were forgotten meanwhile, or
\* there are backup servers and the main ones answer 404 or may fail more often than once.
AskedOnce == \A r \in Proxied : proxied[r].again => proxied[r].amnesty \/ MayRepeat(proxied[r])

\* One handler asks no more servers than there are, with the same exception: servers that refuse
\* at once do not keep the worker from its other events.
HandlerEnds == \A r \in Proxied : proxied[r].depth > Number(1) + Number(2) => MayRepeat(proxied[r])

\* Once the header of a response is with the client no other server is asked, unless the server
\* answered before it had the whole request: two responses do not mix.
OneResponse ==
  \A r \in Proxied : proxied[r].headed /\ ~proxied[r].early => proxied[r].phase = "open" /\ proxied[r].rh = "body"

\* A request that waits for a server has a timer that will end the wait.
AlwaysTimed == \A r \in Proxied : proxied[r].phase = "open" => proxied[r].wtimer \/ proxied[r].rtimer

\* The balancer gives up ("no live upstreams", "upstream stuck") only when no server is left that
\* it could ask, with the exceptions of its two parts.
PeersExhausted == AllFailed /\ NeverStuck

\* A request, and a handler within one turn of the event loop, does not come back to servers that
\* it has asked, with the exceptions of the two parts.
NoRepeats == AskedOnce /\ HandlerEnds

\* The balancer asks every server it may, and none again (ngx_http_upstream_get_peer(),
\* ngx_http_upstream_next()), with the exceptions of the four parts.
PeersTried == PeersExhausted /\ NoRepeats

\* The conversation with a server ends (ngx_http_upstream_process_header()): one response, and a
\* timer as long as it is awaited.
ConversationKept == OneResponse /\ AlwaysTimed

=============================================================================
