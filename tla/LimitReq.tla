------------------------------- MODULE LimitReq -------------------------------
(***************************************************************************)
(* limit_req (http/modules/ngx_http_limit_req_module.c): a leaky bucket    *)
(* per key in a shared zone, in integers, fed by workers that each have    *)
(* their own cached time.  A handler holds the mutex of the zone, so that  *)
(* it is one action.  Units: the code counts thousandths of a request and  *)
(* milliseconds; Unit stands for both thousands.                           *)
(***************************************************************************)
EXTENDS Integers, Sequences, SequencesExt

CONSTANTS
  LimitWorkers,  \* worker processes
  LimitKeys,     \* values of the variable
  LongKeys,      \* those of more than 255 bytes
  ZoneNodes,     \* bound: nodes that fit in the zone
  Unit,          \* 1000
  Rate, Burst,   \* ctx->rate, lrcf->burst
  IdleTime,      \* 60000: a node is not deleted before
  MaxClock,      \* bound: the time that passes
  MaxSkew,       \* bound: how far the cached time of a worker is behind
  MaxRequests    \* bound: requests for one key

ASSUME LimitAssumption ==
  /\ LongKeys \subseteq LimitKeys /\ {MaxClock, MaxSkew, Burst, IdleTime} \subseteq Nat
  /\ {ZoneNodes, Unit, Rate, MaxRequests} \subseteq Nat \ {0}

VARIABLES
  clock,   \* the time
  cached,  \* ngx_timeofday() of each worker
  bucket,  \* sh->queue, most recent first: [key, last, excess]
  past     \* history, for each key since it was last forgotten by force: the requests that passed,
           \* the nodes made for it, when the first one came, when its node was last touched, how
           \* far that clock has gone back, when the last request goes on and how long after the
           \* one before

limitVars == <<clock, cached, bucket, past>>

NoPast ==
  [passed |-> 0, made |-> 0, first |-> 0, touched |-> 0, back |-> 0, goes |-> 0, gap |-> Unit * Unit]

LimitInit ==
  /\ clock = 0 /\ cached = [w \in LimitWorkers |-> 0]
  /\ bucket = <<>>
  /\ past = [k \in LimitKeys |-> NoPast]

Abs(x) == IF x < 0 THEN -x ELSE x

\* mutant: the bucket drains too fast
LeakTwice(b, now) == (2 * Rate * Abs(now - b.last)) \div Unit

\* what runs out of the bucket since its last request; a clock that went back counts as well
Leak(b, now) == (Rate * Abs(now - b.last)) \div Unit

\* the excess with one more request
Excess(b, now) ==
  LET e == b.excess - Leak(b, now) + Unit IN IF e < 0 THEN 0 ELSE e

\* ngx_http_limit_req_lookup: the length of a long key was cut to a byte, so that it is not found
Found(k) == {i \in DOMAIN bucket : bucket[i].key = k /\ k \notin LongKeys}

\* a node that ngx_http_limit_req_expire deletes without force
Old(b, now) == Abs(now - b.last) >= IdleTime /\ b.excess - Leak(b, now) <= 0

\* ngx_http_limit_req_expire: up to two old nodes from the end of the queue
Expired(q, now) ==
  LET n == Len(q)
  IN  IF n = 0 \/ ~Old(q[n], now) THEN q
      ELSE IF n = 1 \/ ~Old(q[n - 1], now) THEN Front(q)
      ELSE SubSeq(q, 1, n - 2)

\* when a request that came at `now' goes on: ngx_http_limit_req_delay
GoesOnAt(now, e) == now + (e * Unit) \div Rate

\* history: the node of a key is touched by a worker whose clock shows `now'
Touched(p, now) ==
  [p EXCEPT !.touched = now, !.back = @ + IF now < p.touched THEN p.touched - now ELSE 0]

\* history: the keys whose nodes are in q but not in its front part r
Dropped(q, r) == {q[i].key : i \in (Len(r) + 1)..Len(q)}

\* history: the nodes of the keys `old' are deleted unused, the keys of `lost' are forgotten by force
Forgotten(now, old, lost) ==
  [j \in LimitKeys |-> IF j \in lost THEN NoPast ELSE IF j \in old THEN Touched(past[j], now) ELSE past[j]]

\* history: a request of key k goes on, `new' if a node was made for it
Passed(p, now, e, new) ==
  [Touched(p, now) EXCEPT !.passed = @ + 1,
                          !.made = IF new THEN @ + 1 ELSE @,
                          !.first = IF p.passed = 0 THEN now ELSE @,
                          !.gap = IF new THEN Unit * Unit ELSE GoesOnAt(now, e) - p.goes,
                          !.goes = GoesOnAt(now, e)]

\* ngx_http_limit_req_handler for a request of key k
Request(w, k) ==
  LET now == cached[w]
      q   == Expired(bucket, now)
      hit == {i \in DOMAIN q : i \in Found(k)}
  IN
  /\ past[k].passed < MaxRequests /\ clock - now <= MaxSkew
  /\ \/ \E i \in hit :                               \* a bucket that has room
          LET e == Excess(q[i], now)
              f == Forgotten(now, Dropped(bucket, q), {})
          IN /\ e <= Burst
             /\ bucket' = <<[q[i] EXCEPT !.excess = e, !.last = now]>> \o RemoveAt(q, i)
             /\ past' = [f EXCEPT ![k] = Passed(@, now, e, FALSE)]
     \/ \E i \in hit :                               \* NGX_BUSY
          /\ Excess(q[i], now) > Burst
          /\ bucket' = <<q[i]>> \o RemoveAt(q, i)
          /\ past' = Forgotten(now, Dropped(bucket, q), {})
     \/ /\ hit = {}                                  \* a new node, by force if the zone is full
        /\ LET full == Len(q) >= ZoneNodes
               rest == IF full THEN Expired(Front(q), now) ELSE q
               lost == IF full THEN {Last(q).key} ELSE {}
               f    == Forgotten(now, Dropped(bucket, rest), lost)
           IN /\ bucket' = <<[key |-> k, last |-> now, excess |-> 0]>> \o rest
              /\ past' = [f EXCEPT ![k] = Passed(@, now, 0, TRUE)]
  /\ UNCHANGED <<clock, cached>>

Tick ==
  /\ clock < MaxClock
  /\ clock' = clock + 1
  /\ UNCHANGED <<cached, bucket, past>>

\* ngx_time_update of a worker
UpdateTime(w) ==
  /\ cached[w] # clock
  /\ cached' = [cached EXCEPT ![w] = clock]
  /\ UNCHANGED <<clock, bucket, past>>

LimitNext ==
  \/ Tick
  \/ \E w \in LimitWorkers : UpdateTime(w) \/ \E k \in LimitKeys : Request(w, k)

LimitSpec == LimitInit /\ [][LimitNext]_limitVars

-----------------------------------------------------------------------------
(* Properties *)

\* The nodes fit in the zone, no bucket is fuller than burst, and a key of up to 255 bytes has
\* one node.
LimitTypeOK ==
  /\ Len(bucket) <= ZoneNodes
  /\ \A i \in DOMAIN bucket : bucket[i].excess \in 0..Burst /\ bucket[i].last \in 0..MaxClock
  /\ \A i, j \in DOMAIN bucket : bucket[i].key = bucket[j].key /\ bucket[i].key \notin LongKeys => i = j

\* In any time, no more requests of a key pass than burst and the rate allow, and one more for
\* each time its node was deleted unused; what the clocks of the workers that touch its node go
\* back counts twice, because the code takes the absolute value.
RateBounded ==
  \A k \in LimitKeys \ LongKeys :
    LET p == past[k] IN
      Unit * (Unit * (p.passed - p.made) - Burst) <= Rate * (p.touched - p.first + 2 * p.back)

\* Delayed requests of a key go on one after the other at the rate, to the unit of time, in the
\* integers of the code.
SpacedOut ==
  \A k \in LimitKeys : past[k].back = 0 => Rate * (past[k].gap + 1) >= Unit * Unit

\* The integer bucket limits each key to its rate and burst, and spaces out delayed requests,
\* whatever the clocks of the workers and the expiry of nodes do, within the stated corrections.
BucketsExact == LimitTypeOK /\ RateBounded /\ SpacedOut

=============================================================================
