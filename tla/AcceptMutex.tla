---------------------------- MODULE AcceptMutex ----------------------------
(***************************************************************************)
(* How the worker processes share the listening sockets: one iteration of  *)
(* ngx_process_events_and_timers() per worker, the accept mutex, the       *)
(* registration of the listening sockets in each worker's epoll, the load  *)
(* shedding by ngx_accept_disabled, ngx_event_accept() and the connection  *)
(* pool it draws from, graceful and immediate exit, and the death of a     *)
(* worker with what the master does about it.                              *)
(*                                                                         *)
(* accept_mutex is on and there is more than one worker, epoll is the      *)
(* event method.  ngx_shmtx_trylock and ngx_shmtx_unlock are single steps  *)
(* here: the accept mutex is created with spin = -1, so it has neither     *)
(* waiters nor a semaphore, and ShMtx proves that such steps implement a   *)
(* lock bit.  The bit does not know its owner; owner is a history variable.*)
(***************************************************************************)
EXTENDS Integers, FiniteSets

CONSTANTS
  Workers,       \* the worker processes
  Listens,       \* cycle->listening
  None, Orphan,  \* not workers: nobody, and a worker that the master has reaped
  Bit,           \* 0x80000000, the value of a locked word; not the pid of a worker
  ConnN,         \* worker_connections (cycle->connection_n)
  MultiAccept,   \* multi_accept
  MaxArrivals,   \* bound: clients that connect in one behaviour
  MaxFaults,     \* bound: failing epoll_ctl() calls in one behaviour
  MaxCrashes     \* bound: killed workers in one behaviour

ASSUME NamesAssumption == 
  {None, Orphan, Bit} \cap Workers = {} /\ None # Orphan /\ None # Bit /\ None \notin Listens
ASSUME SizesAssumption ==
  /\ IsFiniteSet(Listens) /\ Listens # {}
  /\ ConnN \in Nat /\ ConnN > Cardinality(Listens)
  /\ MultiAccept \in BOOLEAN
  /\ MaxArrivals \in Nat /\ MaxFaults \in Nat /\ MaxCrashes \in Nat

VARIABLES
  \* shared memory and the kernel
  word,      \* *ngx_accept_mutex_ptr: None stands for 0, Bit for 0x80000000
  owner,     \* history: whose trylock set the bit
  backlog,   \* per listening socket: connections waiting for accept()
  \* per worker
  pc,        \* where it is in its iteration
  held,      \* ngx_accept_mutex_held
  disabled,  \* ngx_accept_disabled, 0 when it is not positive
  active,    \* listening sockets registered in its epoll (read->active)
  post,      \* NGX_POST_EVENTS in flags
  timed,     \* the timeout of epoll_wait() is capped by accept_mutex_delay
  posted,    \* accept events that epoll_wait() returned and that are not handled yet
  cur,       \* the listening socket ngx_event_accept() is busy with
  exiting,   \* ngx_exiting
  free,      \* cycle->free_connection_n
  busy,      \* connections in use by clients and upstreams
  idle,      \* keepalive connections: c->idle and c->reusable
  \* environment
  arrivals, faults, crashes

shared == <<word, owner, backlog>>
loop   == <<held, disabled, active, post, timed, posted, cur, exiting>>
pool   == <<free, busy, idle>>
env    == <<arrivals, faults, crashes>>
vars   == <<shared, pc, loop, pool, env>>

Points == {"top", "enable", "wait", "events", "accept", "unlock", "rest", "flags", "gone", "dead"}

Goto(w, to) == pc' = [pc EXCEPT ![w] = to]
Set(f, w, x) == [f EXCEPT ![w] = x]

-----------------------------------------------------------------------------
(***************************************************************************)
(* ngx_event_process_init: a fresh worker.  The listening sockets and the  *)
(* channel to the master take a connection each; the sockets are not       *)
(* registered because the accept mutex is in use.                          *)
(***************************************************************************)
FreshFree == ConnN - Cardinality(Listens) - 1

Init ==
  /\ word = None /\ owner = None
  /\ backlog = [l \in Listens |-> 0]
  /\ pc = [w \in Workers |-> "top"]
  /\ held = [w \in Workers |-> FALSE]
  /\ disabled = [w \in Workers |-> 0]
  /\ active = [w \in Workers |-> {}]
  /\ post = [w \in Workers |-> FALSE]
  /\ timed = [w \in Workers |-> FALSE]
  /\ posted = [w \in Workers |-> {}]
  /\ cur = [w \in Workers |-> None]
  /\ exiting = [w \in Workers |-> FALSE]
  /\ free = [w \in Workers |-> FreshFree]
  /\ busy = [w \in Workers |-> 0]
  /\ idle = [w \in Workers |-> 0]
  /\ arrivals = 0 /\ faults = 0 /\ crashes = 0

-----------------------------------------------------------------------------
(* The start of an iteration: ngx_process_events_and_timers, 222-242 *)

\* the worker is at the start of an iteration and goes for the mutex
Contends(w) == pc[w] = "top" /\ ~exiting[w] /\ disabled[w] = 0

\* ngx_shmtx_unlock of the accept mutex: the bit is cleared, whoever set it
UnlockWord == word' = None /\ owner' = None

\* a worker that shed load skips the mutex once; held and active keep their values
SkipMutex(w) ==
  /\ pc[w] = "top" /\ ~exiting[w]
  /\ disabled[w] > 0
  /\ disabled' = Set(disabled, w, disabled[w] - 1)
  /\ post' = Set(post, w, FALSE)
  /\ timed' = Set(timed, w, FALSE)
  /\ Goto(w, "wait")
  /\ UNCHANGED <<shared, held, active, posted, cur, exiting, pool, env>>

\* ngx_shmtx_trylock succeeds
TryLockOk(w) ==
  /\ Contends(w)
  /\ word = None
  /\ word' = Bit /\ owner' = w
  /\ post' = Set(post, w, TRUE)
  /\ timed' = Set(timed, w, FALSE)
  /\ Goto(w, IF held[w] THEN "wait" ELSE "enable")
  /\ UNCHANGED <<backlog, held, disabled, active, posted, cur, exiting, pool, env>>

\* mutant: the sockets are not unregistered
UnregisterKeepsEvents(w) == held' = Set(held, w, FALSE) /\ UNCHANGED active

\* mutant: ngx_accept_mutex_held is not reset
UnregisterKeepsHeld(w) ==
  active' = (IF held[w] THEN Set(active, w, {}) ELSE active) /\ UNCHANGED held

\* a worker that held the mutex last time unregisters the sockets
Unregister(w) == /\ held' = Set(held, w, FALSE)
                 /\ active' = IF held[w] THEN Set(active, w, {}) ELSE active

\* ngx_shmtx_trylock fails
TryLockFail(w) ==
  /\ Contends(w)
  /\ word = Bit
  /\ Unregister(w)
  /\ post' = Set(post, w, FALSE)
  /\ timed' = Set(timed, w, TRUE)
  /\ Goto(w, "wait")
  /\ UNCHANGED <<shared, disabled, posted, cur, exiting, pool, env>>

\* ngx_disable_accept_events fails half way: NGX_ERROR, the iteration is abandoned
DisableFail(w) ==
  /\ Contends(w)
  /\ word = Bit /\ held[w]
  /\ faults < MaxFaults /\ faults' = faults + 1
  /\ \E kept \in SUBSET active[w] : kept # {} /\ active' = Set(active, w, kept)
  /\ Goto(w, "flags")
  /\ UNCHANGED <<shared, held, disabled, post, timed, posted, cur, exiting, pool, arrivals, crashes>>

\* ngx_enable_accept_events: every socket is added to epoll
Enable(w) ==
  /\ pc[w] = "enable"
  /\ active[w] = {}              \* EPOLL_CTL_ADD of a registered socket fails (EEXIST)
  /\ active' = Set(active, w, Listens)
  /\ held' = Set(held, w, TRUE)
  /\ Goto(w, "wait")
  /\ UNCHANGED <<shared, disabled, post, timed, posted, cur, exiting, pool, env>>

\* mutant: the error path forgets ngx_shmtx_unlock
GiveUpKeepsLock == UNCHANGED <<word, owner>>

\* the error path of ngx_trylock_accept_mutex
GiveUp == UnlockWord

\* ngx_enable_accept_events fails half way, or meets a socket that is still registered:
\* the mutex is released and the iteration abandoned
EnableFail(w) ==
  /\ pc[w] = "enable"
  /\ \/ active[w] # {} /\ UNCHANGED faults
     \/ faults < MaxFaults /\ faults' = faults + 1
  /\ \E more \in SUBSET Listens : /\ more # Listens
                                  /\ active' = Set(active, w, active[w] \cup more)
  /\ GiveUp
  /\ Goto(w, "flags")
  /\ UNCHANGED <<backlog, held, disabled, post, timed, posted, cur, exiting, pool, arrivals, crashes>>

\* a gracefully exiting worker: keepalive connections are closed, and it is gone when
\* no connection (and so no timer) is left; the mutex is not used any more
ExitingIteration(w) ==
  /\ pc[w] = "top" /\ exiting[w]
  /\ free' = Set(free, w, free[w] + idle[w])
  /\ idle' = Set(idle, w, 0)
  /\ post' = Set(post, w, FALSE)
  /\ timed' = Set(timed, w, FALSE)
  /\ Goto(w, IF busy[w] = 0 THEN "gone" ELSE "wait")
  /\ UNCHANGED <<shared, held, disabled, active, posted, cur, exiting, busy, env>>

-----------------------------------------------------------------------------
(* ngx_process_events (ngx_epoll_process_events) *)

Ready(w) == {l \in active[w] : backlog[l] > 0}

\* epoll_wait() returns the pending accept events, or times out on accept_mutex_delay
Poll(w) ==
  /\ pc[w] = "wait"
  /\ Ready(w) # {} \/ timed[w]
  /\ posted' = Set(posted, w, Ready(w))
  /\ Goto(w, "events")
  /\ UNCHANGED <<shared, held, disabled, active, post, timed, cur, exiting, pool, env>>

\* epoll_wait() returns for a signal, another timer or an event of another connection
PollOther(w) ==
  /\ pc[w] = "wait"
  /\ Ready(w) = {} /\ ~timed[w]
  /\ Goto(w, "events")
  /\ UNCHANGED <<shared, loop, pool, env>>

\* the next accept event: from ngx_posted_accept_events when events are posted, else
\* rev->handler() straight from the epoll loop
NextAccept(w) ==
  /\ pc[w] = "events"
  /\ \E l \in posted[w] : /\ posted' = Set(posted, w, posted[w] \ {l})
                          /\ cur' = Set(cur, w, l)
  /\ Goto(w, "accept")
  /\ UNCHANGED <<shared, held, disabled, active, post, timed, exiting, pool, env>>

EventsDone(w) ==
  /\ pc[w] = "events" /\ posted[w] = {}
  /\ Goto(w, "unlock")
  /\ UNCHANGED <<shared, loop, pool, env>>

-----------------------------------------------------------------------------
(* ngx_event_accept: one turn of its loop *)

\* the loop ends, or goes on when multi_accept is set
Again(w) ==
  IF MultiAccept THEN UNCHANGED <<pc, cur>>
                 ELSE Goto(w, "events") /\ cur' = Set(cur, w, None)

Return(w) == Goto(w, "events") /\ cur' = Set(cur, w, None)

\* accept() takes a connection off the backlog
Take(w) == backlog' = [backlog EXCEPT ![cur[w]] = @ - 1]

\* ngx_accept_disabled = connection_n / 8 - free_connection_n, read before the connection is taken
Shed(w) == IF ConnN \div 8 > free[w] THEN ConnN \div 8 - free[w] ELSE 0

\* ngx_drain_connections: at most 32 keepalive connections are closed when none is free
Drained(w) == IF free[w] > 0 THEN 0 ELSE IF idle[w] < 32 THEN idle[w] ELSE 32

\* ngx_get_connection succeeds
GetConnection(w) ==
  /\ free[w] + Drained(w) > 0
  /\ free' = Set(free, w, free[w] + Drained(w) - 1)
  /\ idle' = Set(idle, w, idle[w] - Drained(w))
  /\ busy' = Set(busy, w, busy[w] + 1)

\* EAGAIN: another worker was faster, or the loop has emptied the backlog
AcceptAgain(w) ==
  /\ pc[w] = "accept"
  /\ backlog[cur[w]] = 0
  /\ Return(w)
  /\ UNCHANGED <<shared, held, disabled, active, post, timed, posted, exiting, pool, env>>

\* accept() fails for another reason (no descriptors): logged, the client stays in the backlog
AcceptError(w) ==
  /\ pc[w] = "accept"
  /\ faults < MaxFaults /\ faults' = faults + 1
  /\ Return(w)
  /\ UNCHANGED <<shared, held, disabled, active, post, timed, posted, exiting, pool, arrivals, crashes>>

\* ECONNABORTED: the client has gone
AcceptAborted(w) ==
  /\ pc[w] = "accept"
  /\ backlog[cur[w]] > 0
  /\ Take(w)
  /\ Again(w)
  /\ UNCHANGED <<word, owner, held, disabled, active, post, timed, posted, exiting, pool, env>>

\* no free connection: the new socket is closed
AcceptNoConnection(w) ==
  /\ pc[w] = "accept"
  /\ backlog[cur[w]] > 0
  /\ free[w] + Drained(w) = 0
  /\ Take(w)
  /\ disabled' = Set(disabled, w, Shed(w))
  /\ Return(w)
  /\ UNCHANGED <<word, owner, held, active, post, timed, posted, exiting, pool, env>>

\* a connection is set up and handed to ls->handler()
AcceptOk(w) ==
  /\ pc[w] = "accept"
  /\ backlog[cur[w]] > 0
  /\ Take(w)
  /\ disabled' = Set(disabled, w, Shed(w))
  /\ GetConnection(w)
  /\ Again(w)
  /\ UNCHANGED <<word, owner, held, active, post, timed, posted, exiting, env>>

\* mutant: ngx_close_accepted_connection without ngx_free_connection
CloseAcceptedLeaks(w) ==
  /\ free' = Set(free, w, free[w] + Drained(w) - 1)
  /\ idle' = Set(idle, w, idle[w] - Drained(w))

\* ngx_get_connection and, later, ngx_close_accepted_connection
CloseAccepted(w) ==
  /\ free' = Set(free, w, free[w] + Drained(w))
  /\ idle' = Set(idle, w, idle[w] - Drained(w))

\* memory or the socket fails after the connection was taken
AcceptFail(w) ==
  /\ pc[w] = "accept"
  /\ backlog[cur[w]] > 0
  /\ free[w] + Drained(w) > 0
  /\ Take(w)
  /\ disabled' = Set(disabled, w, Shed(w))
  /\ CloseAccepted(w)
  /\ Return(w)
  /\ UNCHANGED <<word, owner, held, active, post, timed, posted, exiting, busy, env>>

-----------------------------------------------------------------------------
(* The rest of the iteration *)

\* mutant: every worker clears the bit
ReleaseAlways(w) == UnlockWord

\* line 257: whoever believes to hold the mutex clears the bit
Release(w) == IF held[w] THEN UnlockWord ELSE UNCHANGED <<word, owner>>

Unlock(w) ==
  /\ pc[w] = "unlock"
  /\ Release(w)
  /\ Goto(w, "rest")
  /\ UNCHANGED <<backlog, loop, pool, env>>

\* handlers of other connections run from the epoll loop, the timers or the posted queue
InHandlers(w) == pc[w] = "rest" \/ (pc[w] = "events" /\ ~post[w])

\* a request is proxied: ngx_event_connect_peer takes a connection from the pool
OpenUpstream(w) ==
  /\ InHandlers(w) /\ busy[w] > 0
  /\ GetConnection(w)
  /\ UNCHANGED <<shared, pc, loop, env>>

\* ngx_close_connection of a connection in use
CloseBusy(w) ==
  /\ InHandlers(w) /\ busy[w] > 0
  /\ busy' = Set(busy, w, busy[w] - 1)
  /\ free' = Set(free, w, free[w] + 1)
  /\ UNCHANGED <<shared, pc, loop, idle, env>>

\* a request is finished: the connection waits for the next one (ngx_reusable_connection(c, 1))
Keepalive(w) ==
  /\ InHandlers(w) /\ busy[w] > 0
  /\ busy' = Set(busy, w, busy[w] - 1)
  /\ idle' = Set(idle, w, idle[w] + 1)
  /\ UNCHANGED <<shared, pc, loop, free, env>>

\* the next request arrives (ngx_reusable_connection(c, 0)), or the client closes
Rearm(w) ==
  /\ InHandlers(w) /\ idle[w] > 0
  /\ idle' = Set(idle, w, idle[w] - 1)
  /\ \/ busy' = Set(busy, w, busy[w] + 1) /\ UNCHANGED free
     \/ free' = Set(free, w, free[w] + 1) /\ UNCHANGED busy
  /\ UNCHANGED <<shared, pc, loop, env>>

RestDone(w) ==
  /\ pc[w] = "rest"
  /\ Goto(w, "flags")
  /\ UNCHANGED <<shared, loop, pool, env>>

\* ngx_worker_process_cycle: the next iteration
Continue(w) ==
  /\ pc[w] = "flags"
  /\ Goto(w, "top")
  /\ UNCHANGED <<shared, loop, pool, env>>

\* ngx_quit: ngx_close_listening_sockets, then the worker finishes its connections
Quit(w) ==
  /\ pc[w] = "flags" /\ ~exiting[w]
  /\ held' = Set(held, w, FALSE)
  /\ active' = Set(active, w, {})
  /\ exiting' = Set(exiting, w, TRUE)
  /\ free' = Set(free, w, free[w] + Cardinality(Listens))
  /\ Goto(w, "top")
  /\ UNCHANGED <<shared, disabled, post, timed, posted, cur, busy, idle, env>>

\* ngx_terminate
Terminate(w) ==
  /\ pc[w] = "flags"
  /\ Goto(w, "gone")
  /\ UNCHANGED <<shared, loop, pool, env>>

-----------------------------------------------------------------------------
(* The environment, and the master *)

Arrive(l) ==
  /\ arrivals < MaxArrivals
  /\ arrivals' = arrivals + 1
  /\ backlog' = [backlog EXCEPT ![l] = @ + 1]
  /\ UNCHANGED <<word, owner, pc, loop, pool, faults, crashes>>

\* a worker is killed; the kernel closes its descriptors, the mutex is shared memory
Crash(w) ==
  /\ pc[w] \notin {"gone", "dead"}
  /\ crashes < MaxCrashes
  /\ crashes' = crashes + 1
  /\ Goto(w, "dead")
  /\ UNCHANGED <<shared, loop, pool, arrivals, faults>>

\* ngx_process_get_status: ngx_atomic_cmp_set(ngx_accept_mutex_ptr, pid, 0), with w for the
\* pid of w; ngx_reap_children then starts a new worker in its place
Reap(w) ==
  /\ pc[w] = "dead"
  /\ word' = IF word = w THEN None ELSE word
  /\ owner' = IF owner = w THEN Orphan ELSE owner
  /\ Goto(w, "top")
  /\ held' = Set(held, w, FALSE)
  /\ disabled' = Set(disabled, w, 0)
  /\ active' = Set(active, w, {})
  /\ post' = Set(post, w, FALSE)
  /\ timed' = Set(timed, w, FALSE)
  /\ posted' = Set(posted, w, {})
  /\ cur' = Set(cur, w, None)
  /\ exiting' = Set(exiting, w, FALSE)
  /\ free' = Set(free, w, FreshFree)
  /\ busy' = Set(busy, w, 0)
  /\ idle' = Set(idle, w, 0)
  /\ UNCHANGED <<backlog, env>>

-----------------------------------------------------------------------------
\* one step of the iteration that the worker takes whenever it can
Loop(w) ==
  \/ SkipMutex(w) \/ TryLockOk(w) \/ TryLockFail(w) \/ Enable(w) \/ EnableFail(w)
  \/ ExitingIteration(w) \/ Poll(w) \/ NextAccept(w) \/ EventsDone(w)
  \/ AcceptAgain(w) \/ AcceptNoConnection(w) \/ AcceptOk(w)
  \/ Unlock(w) \/ RestDone(w) \/ Continue(w)

Handlers(w) == OpenUpstream(w) \/ CloseBusy(w) \/ Keepalive(w) \/ Rearm(w)

\* what may happen to a worker but need not
Mishap(w) ==
  PollOther(w) \/ DisableFail(w) \/ AcceptError(w) \/ AcceptAborted(w) \/ AcceptFail(w) \/ Quit(w)
  \/ Terminate(w) \/ Crash(w)

Next == \/ \E w \in Workers : Loop(w) \/ Handlers(w) \/ Mishap(w) \/ Reap(w)
        \/ \E l \in Listens : Arrive(l)

Spec == Init /\ [][Next]_vars

(***************************************************************************)
(* Every worker is scheduled: epoll_wait() returns when a registered       *)
(* socket is readable or its timeout expires, and the code between two     *)
(* calls of it always comes to an end.  Nothing else is assumed: other     *)
(* events need not occur.                                                  *)
(***************************************************************************)
FairSpec == Spec /\ \A w \in Workers : WF_vars(Loop(w)) /\ WF_vars(Reap(w))

-----------------------------------------------------------------------------
(* Properties *)

TypeOK ==
  /\ word \in {None, Bit}
  /\ owner \in Workers \cup {None, Orphan}
  /\ backlog \in [Listens -> Nat]
  /\ pc \in [Workers -> Points]
  /\ held \in [Workers -> BOOLEAN]
  /\ disabled \in [Workers -> Nat]
  /\ active \in [Workers -> SUBSET Listens]
  /\ post \in [Workers -> BOOLEAN]
  /\ timed \in [Workers -> BOOLEAN]
  /\ posted \in [Workers -> SUBSET Listens]
  /\ cur \in [Workers -> Listens \cup {None}]
  /\ exiting \in [Workers -> BOOLEAN]
  /\ free \in [Workers -> Nat]
  /\ busy \in [Workers -> Nat]
  /\ idle \in [Workers -> Nat]
  /\ arrivals \in Nat /\ faults \in Nat /\ crashes \in Nat

\* ngx_get_connection, ngx_free_connection, ngx_drain_connections, ngx_close_listening_sockets:
\* the free counter is exactly the connections nobody uses, on every path of
\* ngx_event_accept and through a graceful exit.
ConnAccounting ==
  \A w \in Workers :
    free[w] + busy[w] + idle[w] + (IF exiting[w] THEN 0 ELSE Cardinality(Listens)) + 1 = ConnN

\* ngx_process_events_and_timers:227,258 and ngx_trylock_accept_mutex:319: whatever fails in
\* an iteration, a worker leaves it without the lock bit it set, so it neither runs
\* the handlers of ordinary events nor exits with the mutex locked.
ReleasedEveryIteration ==
  \A w \in Workers : owner = w => pc[w] \in {"enable", "wait", "events", "accept", "unlock", "dead"}

\* ngx_process_events_and_timers:231-240: a worker that waits in epoll_wait() without the cap
\* of accept_mutex_delay is woken by new clients: it has the listening sockets
\* registered, all of them unless epoll_ctl() failed.
NoDeafSleep ==
  \A w \in Workers :
    pc[w] = "wait" /\ ~timed[w] /\ ~exiting[w]
      => active[w] # {} /\ (faults = 0 => active[w] = Listens)

\* ngx_accept_disabled: a worker that sheds load got its last connection from a socket
\* that is still registered, so skipping the mutex cannot make it deaf.
ShedderStaysRegistered ==
  \A w \in Workers : disabled[w] > 0 /\ ~exiting[w] => active[w] # {}

\* The purpose of the accept mutex: accept() is called by one worker at a time,
\* the one that owns the mutex.
AcceptsUnderMutex == \A w \in Workers : pc[w] = "accept" => owner = w

\* ngx_process_events_and_timers:257: the bit a worker set is cleared by that worker, when it
\* unlocks or gives up enabling the events; nobody else unlocks for it.
OwnerReleases ==
  [][\A w \in Workers : owner = w /\ word' = None
       => pc[w] \in {"enable", "unlock"} /\ pc'[w] # pc[w]]_vars

\* Clients are served: a connection that waits on a listening socket is accepted or
\* refused as long as one worker has not been told to quit.
Served ==
  \A l \in Listens :
    backlog[l] > 0 ~> \/ backlog[l] = 0
                      \/ \A w \in Workers : exiting[w] \/ pc[w] = "gone"
=============================================================================
