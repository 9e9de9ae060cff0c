------------------------------ MODULE EventLoop ------------------------------
(***************************************************************************)
(* One iteration of a worker's event loop as its connections see it: the   *)
(* pool of ngx_connection_t with its free list and reusable queue          *)
(* (core/ngx_connection.c), the batch of events that epoll_wait() returned *)
(* (event/modules/ngx_epoll_module.c), posted events                       *)
(* (event/ngx_event_posted.c) and expired timers.                          *)
(*                                                                         *)
(* A handler runs to its end before the loop goes on; what it may do is a  *)
(* sequence of the Handler* actions.  The danger is that it closes, and    *)
(* opens again, connections that later entries of the batch or of a queue  *)
(* refer to: these are recognised by one bit only, the instance.           *)
(***************************************************************************)
EXTENDS Integers, Sequences, FiniteSets, SequencesExt

CONSTANTS
  Conns,      \* ngx_cycle->connections
  Listening,  \* the connection of the listening socket
  NoEntry,    \* not an event
  MaxTaken,   \* bound: how often connections are taken from the free list
  DrainMax    \* connections that ngx_drain_connections() closes at a time: 32

ASSUME ConnsAssumption == IsFiniteSet(Conns) /\ Listening \in Conns
ASSUME LoopBoundsAssumption == MaxTaken \in Nat /\ DrainMax \in Nat \ {0}

VARIABLES
  freeList,   \* ngx_cycle->free_connections, head first
  open,       \* c->fd # -1
  reuse,      \* history: how often the connection was taken from the free list
  instance,   \* rev->instance (and wev->instance)
  watched,    \* "r" and "w": c->read->active, c->write->active
  timer,      \* an event of the connection has timer_set
  idleq,      \* reusable_connections_queue, head first
  phase,      \* where ngx_process_events_and_timers is
  posting,    \* flags & NGX_POST_EVENTS
  batch,      \* entries of event_list not handled yet (in any order)
  half,       \* the entry whose read event has been handled, not its write event
  acceptq,    \* ngx_posted_accept_events, head first
  eventq,     \* ngx_posted_events, head first
  run,        \* the handler that is running
  drained     \* in ngx_drain_connections(): i + 1; otherwise 0

connState     == <<freeList, open, reuse, instance, watched, timer, idleq>>
queues   == <<acceptq, eventq>>
handlerVars == <<run, drained>>
loopVars == <<connState, phase, posting, batch, half, queues, handlerVars>>

LoopInit ==
  /\ freeList = SetToSeq(Conns \ {Listening})
  /\ open = [c \in Conns |-> c = Listening]
  /\ reuse = [c \in Conns |-> IF c = Listening THEN 1 ELSE 0]
  /\ instance = [c \in Conns |-> IF c = Listening THEN 0 ELSE 1]
  /\ watched = [c \in Conns |-> IF c = Listening THEN {"r"} ELSE {}]
  /\ timer = [c \in Conns |-> FALSE]
  /\ idleq = <<>>
  /\ phase = "wait" /\ posting = FALSE /\ batch = {} /\ half = NoEntry
  /\ acceptq = <<>> /\ eventq = <<>> /\ run = NoEntry /\ drained = 0

-----------------------------------------------------------------------------
(* The loop *)

\* an entry of event_list; was: the socket it is about (history)
Entry(c, revents) ==
  [c |-> c, inst |-> instance[c], revents |-> revents, was |-> reuse[c]]

\* What epoll_wait() may report of a socket: events it is watched for, and both when an
\* error was reported without them.
Reported(c) == {{"r", "w"}} \cup (SUBSET watched[c] \ {{}})

PollEvents ==
  /\ phase = "wait"
  /\ \E S \in SUBSET {c \in Conns : open[c] /\ watched[c] # {}} :
       \E ev \in [S -> SUBSET {"r", "w"}] :
         /\ \A c \in S : ev[c] \in (IF c = Listening THEN {{"r"}} ELSE Reported(c))
         /\ batch' = {Entry(c, ev[c]) : c \in S}
  /\ posting' \in BOOLEAN
  /\ phase' = "batch"
  /\ UNCHANGED <<connState, half, queues, handlerVars>>

\* "the stale event from a file descriptor that was just closed in this iteration"
Stale(e) == ~open[e.c] \/ instance[e.c] # e.inst

Queued(q, c, dir) == \E i \in DOMAIN q : q[i].c = c /\ q[i].dir = dir

\* ngx_locked_post_event: at the head of the queue, once
Post(q, c, dir, was) ==
  IF Queued(q, c, dir) THEN q ELSE <<[c |-> c, dir |-> dir, was |-> was]>> \o q

\* a handler starts; is: the socket of the connection whose handler it is (history)
Running(c, dir, was) == [c |-> c, dir |-> dir, was |-> was, is |-> reuse[c]]

\* an event of the entry is passed on: posted, or its handler called
Fire(e, dir) ==
  IF posting
  THEN /\ IF e.c = Listening
          THEN acceptq' = Post(acceptq, e.c, dir, e.was) /\ UNCHANGED eventq
          ELSE eventq' = Post(eventq, e.c, dir, e.was) /\ UNCHANGED acceptq
       /\ UNCHANGED run
  ELSE run' = Running(e.c, dir, e.was) /\ UNCHANGED queues

BatchStale ==
  /\ phase = "batch" /\ run = NoEntry /\ half = NoEntry
  /\ \E e \in batch : Stale(e) /\ batch' = batch \ {e}
  /\ UNCHANGED <<connState, phase, posting, half, queues, handlerVars>>

BatchRead ==
  /\ phase = "batch" /\ run = NoEntry /\ half = NoEntry
  /\ \E e \in batch :
       /\ ~Stale(e)
       /\ batch' = batch \ {e} /\ half' = e
       /\ IF "r" \in e.revents /\ "r" \in watched[e.c]
          THEN Fire(e, "r")
          ELSE UNCHANGED <<queues, run>>
  /\ UNCHANGED <<connState, phase, posting, drained>>

BatchWrite ==
  /\ phase = "batch" /\ run = NoEntry /\ half # NoEntry
  /\ half' = NoEntry
  /\ IF "w" \in half.revents /\ "w" \in watched[half.c] /\ ~Stale(half)
     THEN Fire(half, "w")
     ELSE UNCHANGED <<queues, run>>
  /\ UNCHANGED <<connState, phase, posting, batch, drained>>

BatchDone ==
  /\ phase = "batch" /\ run = NoEntry /\ half = NoEntry /\ batch = {}
  /\ phase' = "accepts"
  /\ UNCHANGED <<connState, posting, batch, half, queues, handlerVars>>

\* ngx_event_process_posted on either queue
RunPosted ==
  /\ run = NoEntry
  /\ \/ /\ phase = "accepts" /\ acceptq # <<>>
        /\ run' = Running(Head(acceptq).c, "r", Head(acceptq).was)
        /\ acceptq' = Tail(acceptq) /\ UNCHANGED eventq
     \/ /\ phase = "posted" /\ eventq # <<>>
        /\ run' = Running(Head(eventq).c, Head(eventq).dir, Head(eventq).was)
        /\ eventq' = Tail(eventq) /\ UNCHANGED acceptq
  /\ UNCHANGED <<connState, phase, posting, batch, half, drained>>

AcceptsDone ==
  /\ phase = "accepts" /\ run = NoEntry /\ acceptq = <<>>
  /\ phase' = "timers"
  /\ UNCHANGED <<connState, posting, batch, half, queues, handlerVars>>

\* ngx_event_expire_timers: any timer may be due
RunTimer ==
  /\ phase = "timers" /\ run = NoEntry
  /\ \E c \in Conns :
       /\ timer[c]
       /\ timer' = [timer EXCEPT ![c] = FALSE]
       /\ run' = Running(c, "r", reuse[c])
  /\ UNCHANGED <<freeList, open, reuse, instance, watched, idleq, phase, posting, batch, half, queues, drained>>

TimersDone ==
  /\ phase = "timers" /\ run = NoEntry
  /\ phase' = "posted"
  /\ UNCHANGED <<connState, posting, batch, half, queues, handlerVars>>

PostedDone ==
  /\ phase = "posted" /\ run = NoEntry /\ eventq = <<>>
  /\ phase' = "wait"
  /\ UNCHANGED <<connState, posting, batch, half, queues, handlerVars>>

-----------------------------------------------------------------------------
(* What handlers do *)

\* ngx_delete_posted_event, when the event is in the queue
Deleted(q, c, dir) ==
  IF Queued(q, c, dir)
  THEN RemoveAt(q, CHOOSE i \in DOMAIN q : q[i].c = c /\ q[i].dir = dir)
  ELSE q

\* mutant: a posted write event of the connection stays in its queue
PurgedKept(q, c) == Deleted(q, c, "r")

Purged(q, c) == Deleted(Deleted(q, c, "r"), c, "w")

TimerDeleted(c) == [timer EXCEPT ![c] = FALSE]

\* ngx_reusable_connection(c, 0)
NotReusable(c) ==
  IF Contains(idleq, c)
  THEN RemoveAt(idleq, CHOOSE i \in DOMAIN idleq : idleq[i] = c)
  ELSE idleq

\* ngx_close_connection
CloseConn(c) ==
  /\ timer' = TimerDeleted(c)
  /\ watched' = [watched EXCEPT ![c] = {}]
  /\ acceptq' = Purged(acceptq, c) /\ eventq' = Purged(eventq, c)
  /\ idleq' = NotReusable(c)
  /\ freeList' = <<c>> \o freeList
  /\ open' = [open EXCEPT ![c] = FALSE]

\* a handler is running and not inside ngx_drain_connections()
InHandler == run # NoEntry /\ drained = 0

\* The events that a new connection is registered for: reading after accept(), both by
\* ngx_add_conn() in ngx_event_connect_peer().
Registered == IF run.c = Listening THEN {"r"} ELSE {"r", "w"}

MayTake == FoldFunction(LAMBDA n, m : n + m, 0, reuse) < MaxTaken

\* ngx_get_connection: the head of the free list, with its instance flipped
TakeFree(c) ==
  /\ freeList' = Tail(freeList)
  /\ reuse' = [reuse EXCEPT ![c] = @ + 1]
  /\ instance' = [instance EXCEPT ![c] = 1 - @]
  /\ open' = [open EXCEPT ![c] = TRUE]
  /\ watched' = [watched EXCEPT ![c] = Registered]
  /\ UNCHANGED <<timer, idleq, phase, posting, batch, half, queues, run>>

\* ngx_get_connection with a free connection
HandlerOpens ==
  /\ InHandler /\ freeList # <<>> /\ MayTake
  /\ TakeFree(Head(freeList))
  /\ UNCHANGED drained

\* ngx_get_connection without one calls ngx_drain_connections
HandlerDrains ==
  /\ InHandler /\ freeList = <<>> /\ MayTake
  /\ drained' = 1
  /\ UNCHANGED <<connState, phase, posting, batch, half, queues, run>>

\* one turn of its loop: the last connection of the queue is closed by its own handler
DrainOne ==
  /\ drained \in 1..DrainMax /\ idleq # <<>>
  /\ CloseConn(idleq[Len(idleq)])
  /\ drained' = drained + 1
  /\ UNCHANGED <<reuse, instance, phase, posting, batch, half, run>>

\* back in ngx_get_connection, which fails if nothing could be closed
DrainEnds ==
  /\ drained > 0 /\ (drained > DrainMax \/ idleq = <<>>)
  /\ drained' = 0
  /\ IF freeList = <<>>
     THEN UNCHANGED <<connState, phase, posting, batch, half, queues, run>>
     ELSE TakeFree(Head(freeList))

\* A handler closes its own connection or another one of its request.  An idle
\* connection has no request: only its own handler closes it.
MayClose(c) == open[c] /\ (c = run.c \/ ~Contains(idleq, c))

HandlerCloses ==
  /\ InHandler
  /\ \E c \in Conns \ {Listening} : MayClose(c) /\ CloseConn(c)
  /\ UNCHANGED <<reuse, instance, phase, posting, batch, half, handlerVars>>

\* ngx_http_set_keepalive: pipelined data are handled by a posted event
HandlerIdles ==
  /\ InHandler
  /\ \E c \in Conns \ {Listening} :
       /\ open[c] /\ ~Contains(idleq, c)
       /\ idleq' = <<c>> \o idleq
       /\ \/ eventq' = Post(eventq, c, "r", reuse[c])
          \/ UNCHANGED eventq
       /\ timer' = [timer EXCEPT ![c] = TRUE]
  /\ UNCHANGED <<freeList, open, reuse, instance, watched, phase, posting, batch, half, acceptq,
                 handlerVars>>

\* the connection of a new request leaves the reusable queue (ngx_http_keepalive_handler)
HandlerResumes ==
  /\ InHandler /\ open[run.c] /\ Contains(idleq, run.c)
  /\ idleq' = NotReusable(run.c)
  /\ UNCHANGED <<freeList, open, reuse, instance, watched, timer, phase, posting, batch, half, queues,
                 handlerVars>>

\* ngx_handle_write_event and ngx_add_timer
HandlerWaits ==
  /\ InHandler
  /\ \E c \in Conns \ {Listening} :
       /\ open[c]
       /\ watched' = [watched EXCEPT ![c] = @ \cup {"w"}]
       /\ timer' = [timer EXCEPT ![c] = TRUE]
  /\ UNCHANGED <<freeList, open, reuse, instance, idleq, phase, posting, batch, half, queues,
                 handlerVars>>

HandlerReturns ==
  /\ InHandler
  /\ run' = NoEntry
  /\ UNCHANGED <<connState, phase, posting, batch, half, queues, drained>>

LoopNext ==
  \/ PollEvents \/ BatchStale \/ BatchRead \/ BatchWrite \/ BatchDone
  \/ RunPosted \/ AcceptsDone \/ RunTimer \/ TimersDone \/ PostedDone
  \/ HandlerOpens \/ HandlerDrains \/ DrainOne \/ DrainEnds \/ HandlerCloses \/ HandlerIdles
  \/ HandlerResumes \/ HandlerWaits \/ HandlerReturns

LoopSpec == LoopInit /\ [][LoopNext]_loopVars

-----------------------------------------------------------------------------
(* Properties *)

PostedEntry == [c : Conns, dir : {"r", "w"}, was : Nat]

LoopTypeOK ==
  /\ freeList \in Seq(Conns) /\ idleq \in Seq(Conns)
  /\ open \in [Conns -> BOOLEAN] /\ timer \in [Conns -> BOOLEAN]
  /\ reuse \in [Conns -> Nat] /\ instance \in [Conns -> {0, 1}]
  /\ watched \in [Conns -> SUBSET {"r", "w"}]
  /\ phase \in {"wait", "batch", "accepts", "timers", "posted"} /\ posting \in BOOLEAN
  /\ acceptq \in Seq(PostedEntry) /\ eventq \in Seq(PostedEntry)
  /\ drained \in 0..(DrainMax + 1)

\* The free list holds every closed connection exactly once: a connection freed twice would
\* be given to two sockets, one that is lost is never used again.
FreeListExact ==
  /\ \A i, j \in DOMAIN freeList : freeList[i] = freeList[j] => i = j
  /\ \A c \in Conns : Contains(freeList, c) <=> ~open[c]

\* Nothing refers to a closed connection once ngx_close_connection() returned: no posted
\* event, no timer, no place in the reusable queue.
ClosedIsForgotten ==
  \A c \in Conns : ~open[c] =>
    /\ ~timer[c] /\ ~Contains(idleq, c)
    /\ \A dir \in {"r", "w"} : ~Queued(eventq, c, dir) /\ ~Queued(acceptq, c, dir)

\* The handler of a posted event or of a timer always runs for the socket that the event
\* was about, however many connections were closed and reused since it was posted.
PostedIsCurrent ==
  (run # NoEntry /\ phase # "batch") => run.was = run.is

\* An entry of the batch that is about a closed socket gets past the instance bit only if
\* its connection was taken from the free list again at least twice, an even number of times.
\* (The comment at ngx_epoll_process_events:622 promises that it never does.)
StaleNeedsTwoReuses ==
  (run # NoEntry /\ run.was # run.is) => run.is >= run.was + 2 /\ (run.is - run.was) % 2 = 0

\* Closing and reusing connections in the middle of a batch keeps the pool exact: every closed
\* connection is on the free list once, and nothing in the loop refers to it any more.
ConnectionsExact == LoopTypeOK /\ FreeListExact /\ ClosedIsForgotten

\* A handler runs for the socket that its event was about, except for an entry of the batch whose
\* connection was reused twice since: the instance bit cannot tell these.
HandlersCurrent == PostedIsCurrent /\ StaleNeedsTwoReuses

\* Both, while ngx_epoll_process_events() goes through a batch.
ConnectionsCurrent == ConnectionsExact /\ HandlersCurrent

=============================================================================
