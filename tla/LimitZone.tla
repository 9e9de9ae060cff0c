------------------------------ MODULE LimitZone ------------------------------
(***************************************************************************)
(* limit_zone (http/modules/ngx_http_limit_zone_module.c): connections of  *)
(* a key counted in a shared zone, by the workers that serve them.  The    *)
(* handler and the cleanup hold the mutex of the zone: one action each.    *)
(***************************************************************************)
EXTENDS Integers, FiniteSets

CONSTANTS
  Clients,      \* main requests, each of a client with one key
  ClientKeys,   \* values of the variable
  OddKeys,      \* those that are empty or longer than 255 bytes
  Locations,    \* locations with limit_conn on the zone
  LimitConn,    \* lzcf->conn of each location
  ConnNodes,    \* bound: keys that fit in the zone
  MaxVisits     \* bound: locations that one main request visits (internal redirects, subrequests)

ASSUME ConnAssumption ==
  /\ IsFiniteSet(Clients) /\ OddKeys \subseteq ClientKeys
  /\ LimitConn \in [Locations -> Nat \ {0}] /\ {ConnNodes, MaxVisits} \subseteq Nat \ {0}

VARIABLES
  conn,     \* lz->conn of each key; 0: there is no node
  visit,    \* the main requests: [key, set: r->main->limit_zone_set, counted: the cleanup has a
            \* handler, visits, at: where it was
            \* counted (history)]; visits 0: not there
  leaked    \* history: what dead workers had counted

connVars == <<conn, visit, leaked>>

NoVisit == [key |-> CHOOSE k \in ClientKeys : TRUE, set |-> FALSE, counted |-> FALSE, visits |-> 0,
            at |-> CHOOSE l \in Locations : TRUE]

ConnInit ==
  /\ conn = [k \in ClientKeys |-> 0]
  /\ visit = [c \in Clients |-> NoVisit]
  /\ leaked = [k \in ClientKeys |-> 0]

\* the early returns of ngx_http_limit_zone_handler
Limits(v) == ~v.set /\ v.key \notin OddKeys

Below(k, l) == conn[k] < LimitConn[l]

\* a node is made if the zone has room
HasNode(k) == conn[k] > 0 \/ Cardinality({j \in ClientKeys : conn[j] > 0}) < ConnNodes

\* ngx_http_limit_zone_handler in the preaccess phase of a location.  limit_zone_set is set
\* before the limit is looked at, so that a request that was refused and is redirected by
\* error_page is neither limited nor counted again.
Visit(c, k, l) ==
  LET v == IF visit[c].visits = 0 THEN [NoVisit EXCEPT !.key = k] ELSE visit[c]
      in == Limits(v) /\ Below(k, l) /\ HasNode(k)
  IN
  /\ v.key = k /\ v.visits < MaxVisits
  /\ conn' = IF in THEN [conn EXCEPT ![k] = @ + 1] ELSE conn
  /\ visit' = [visit EXCEPT ![c] =
                 [v EXCEPT !.visits = @ + 1, !.set = @ \/ Limits(v), !.counted = @ \/ in,
                           !.at = IF in THEN l ELSE @]]
  /\ UNCHANGED leaked

\* mutant: a refused request gives back what it never took
GivesBackSet(v) == v.set

\* a cleanup with a handler
GivesBack(v) == v.counted

\* the pool of the request is destroyed: ngx_http_limit_zone_cleanup
Cleanup(c) ==
  LET v == visit[c] IN
  /\ v.visits > 0
  /\ conn' = IF GivesBack(v) THEN [conn EXCEPT ![v.key] = @ - 1] ELSE conn
  /\ visit' = [visit EXCEPT ![c] = NoVisit]
  /\ UNCHANGED leaked

\* the worker of a request dies, and runs no cleanup
WorkerDies(c) ==
  LET v == visit[c] IN
  /\ v.visits > 0 /\ \A k \in ClientKeys : leaked[k] = 0      \* bound: once
  /\ leaked' = [leaked EXCEPT ![v.key] = @ + IF v.counted THEN 1 ELSE 0]
  /\ visit' = [visit EXCEPT ![c] = NoVisit]
  /\ UNCHANGED conn

ConnNext ==
  \E c \in Clients :
    Cleanup(c) \/ WorkerDies(c) \/ \E k \in ClientKeys, l \in Locations : Visit(c, k, l)

ConnSpec == ConnInit /\ [][ConnNext]_connVars

-----------------------------------------------------------------------------
(* Properties *)

Counted(k) == {c \in Clients : visit[c].counted /\ visit[c].key = k}

\* A key is charged for exactly the live requests that counted themselves, and for those whose
\* workers died, which nobody gives back: a key with no request at all is not locked out unless
\* workers died.
ConnExact == \A k \in ClientKeys : conn[k] = Cardinality(Counted(k)) + leaked[k]

\* No location lets a request in beyond its own limit, whatever the limits of the other
\* locations on the zone; and no step but the start of a request raises the count.
WithinLimit ==
  \A c \in Clients : visit'[c].counted /\ ~visit[c].counted =>
    conn'[visit'[c].key] <= LimitConn[visit'[c].at]

\* Connections are charged exactly, and none is let in beyond the limit of its location.
ConnLimited == [][ConnExact' /\ WithinLimit]_connVars

=============================================================================
