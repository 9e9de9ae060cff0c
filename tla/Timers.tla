------------------------------- MODULE Timers -------------------------------
(***************************************************************************)
(* The timers of a worker (event/ngx_event_timer.[ch]): a tree ordered by  *)
(* a deadline in milliseconds that wraps around, the search for the next   *)
(* one before epoll_wait(), the expiry after it, and the lazy re-arming of *)
(* a timer whose deadline hardly moves.                                    *)
(*                                                                         *)
(* Keys and ngx_current_msec are words of the machine.  left is a history  *)
(* variable that counts the real time to the deadline last asked for, so   *)
(* that what the modular arithmetic does is checked against true time.     *)
(***************************************************************************)
EXTENDS Integers, FiniteSets

CONSTANTS
  Events,    \* the ngx_event_t
  Modulus,   \* 2^w for a word of w bits
  Lazy,      \* NGX_TIMER_LAZY_DELAY: 300
  MaxTime,   \* bound: the longest timer, and the longest sleep without one
  MaxLag     \* bound: how much later than asked for epoll_wait() may return

ASSUME EventsAssumption == IsFiniteSet(Events)
\* "Timer values are spread in small range": everything comparable lies within half the words
ASSUME RangeAssumption ==
  /\ Modulus \in Nat /\ Lazy \in Nat \ {0} /\ MaxTime \in Nat \ {0} /\ MaxLag \in Nat
  /\ 2 * (2 * MaxTime + MaxLag + Lazy) < Modulus

VARIABLES
  msec,      \* ngx_current_msec
  key,       \* ev->timer.key
  timerSet,  \* ev->timer_set
  left,      \* history: time from msec to the deadline last asked for
  tphase,    \* where ngx_process_events_and_timers is
  wait       \* the time-out passed to epoll_wait(), -1 if infinite

timerVars == <<msec, key, timerSet, left, tphase, wait>>

TimersInit ==
  /\ msec = Modulus - 2
  /\ key = [e \in Events |-> 0] /\ timerSet = [e \in Events |-> FALSE]
  /\ left = [e \in Events |-> 0]
  /\ tphase = "events" /\ wait = 0

\* (ngx_msec_int_t) a - (ngx_msec_int_t) b
Diff(a, b) ==
  LET d == (a - b) % Modulus IN IF 2 * d >= Modulus THEN d - Modulus ELSE d

\* ngx_current_msec + d in a word
Advanced(d) == (msec + d) % Modulus

\* mutant: an earlier deadline never replaces a later one
LazySigned(d) == d < Lazy

\* ngx_abs(diff) < NGX_TIMER_LAZY_DELAY
KeepsOld(d) == d < Lazy /\ -d < Lazy

\* ngx_event_add_timer, by a handler
AddTimer ==
  /\ tphase # "sleep"
  /\ \E e \in Events, t \in 1 .. MaxTime :
       LET new == Advanced(t) IN
       /\ key' = IF timerSet[e] /\ KeepsOld(Diff(new, key[e])) THEN key
                 ELSE [key EXCEPT ![e] = new]
       /\ timerSet' = [timerSet EXCEPT ![e] = TRUE]
       /\ left' = [left EXCEPT ![e] = t]
  /\ UNCHANGED <<msec, tphase, wait>>

\* ngx_event_del_timer, by a handler; keys of timers that are not set are dead
DelTimer ==
  /\ tphase # "sleep"
  /\ \E e \in Events :
       /\ timerSet[e]
       /\ timerSet' = [timerSet EXCEPT ![e] = FALSE]
       /\ key' = [key EXCEPT ![e] = 0] /\ left' = [left EXCEPT ![e] = 0]
  /\ UNCHANGED <<msec, tphase, wait>>

\* the nodes that ngx_rbtree_min may return
Least == {e \in Events : timerSet[e] /\ \A f \in Events : timerSet[f] => Diff(key[e], key[f]) <= 0}

FindTimer ==
  IF Least = {} THEN -1
  ELSE LET d == Diff(key[CHOOSE e \in Least : TRUE], msec) IN IF d > 0 THEN d ELSE 0

Sleep ==
  /\ tphase = "posted"
  /\ wait' = FindTimer /\ tphase' = "sleep"
  /\ UNCHANGED <<msec, key, timerSet, left>>

\* epoll_wait() returns on an event or on the time-out, and ngx_time_update() is called
Wake ==
  /\ tphase = "sleep"
  /\ \E d \in 0 .. ((IF wait = -1 THEN MaxTime ELSE wait) + MaxLag) :
       /\ msec' = Advanced(d)
       /\ left' = [e \in Events |-> IF timerSet[e] THEN left[e] - d ELSE 0]
       /\ tphase' = IF d = 0 THEN "unchanged" ELSE "events"
  /\ UNCHANGED <<key, timerSet, wait>>

\* the handlers of the batch are done; timers are looked at only if the clock moved
BatchHandled ==
  /\ tphase \in {"events", "unchanged"}
  /\ tphase' = IF tphase = "events" THEN "expire" ELSE "posted"
  /\ UNCHANGED <<msec, key, timerSet, left, wait>>

Due(e) == e \in Least /\ Diff(key[e], msec) <= 0

\* ngx_event_expire_timers: one turn of its loop
Expire ==
  /\ tphase = "expire"
  /\ \E e \in Events :
       /\ Due(e)
       /\ timerSet' = [timerSet EXCEPT ![e] = FALSE]
       /\ key' = [key EXCEPT ![e] = 0] /\ left' = [left EXCEPT ![e] = 0]
  /\ UNCHANGED <<msec, tphase, wait>>

ExpireDone ==
  /\ tphase = "expire" /\ ~\E e \in Events : Due(e)
  /\ tphase' = "posted"
  /\ UNCHANGED <<msec, key, timerSet, left, wait>>

TimersNext ==
  AddTimer \/ DelTimer \/ Sleep \/ Wake \/ BatchHandled \/ Expire \/ ExpireDone

TimersSpec == TimersInit /\ [][TimersNext]_timerVars

-----------------------------------------------------------------------------
(* Properties *)

TimersTypeOK ==
  /\ msec \in 0 .. (Modulus - 1) /\ key \in [Events -> 0 .. (Modulus - 1)]
  /\ timerSet \in [Events -> BOOLEAN] /\ left \in [Events -> Int]
  /\ tphase \in {"events", "unchanged", "expire", "posted", "sleep"} /\ wait \in Int

\* However often a timer is re-armed, its key is less than NGX_TIMER_LAZY_DELAY away from
\* the deadline last asked for: laziness does not add up, also across the wrap of the clock.
LazinessBounded ==
  \A e \in Events : timerSet[e] =>
    LET off == Diff(key[e], msec) - left[e] IN off < Lazy /\ -off < Lazy

\* The worker never sleeps past a deadline: a timer is still waiting at most as long after
\* its deadline as the laziness and the delay of epoll_wait() explain.
NeverForgotten ==
  \A e \in Events : timerSet[e] => left[e] > -(Lazy + MaxLag)

\* A timer that fires is due, up to the laziness, and no other timer was due before it,
\* up to the laziness of both.
FiresInOrder ==
  Expire => \A e \in Events : (timerSet[e] /\ ~timerSet'[e]) =>
    /\ left[e] < Lazy
    /\ \A f \in Events : timerSet[f] => left[f] > left[e] - 2 * Lazy

\* Re-armed lazily or not, and across the wrap of the clock, no timer is forgotten, none fires
\* early by more than the laziness, and they fire in the order of their deadlines up to it.
TimersInTime ==
  [][TimersTypeOK' /\ LazinessBounded' /\ NeverForgotten' /\ FiresInOrder]_timerVars

=============================================================================
