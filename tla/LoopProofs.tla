------------------------------ MODULE LoopProofs ------------------------------
(***************************************************************************)
(* Proofs about the event loop of a worker: its connections, for any       *)
(* number of them and however often a handler closes them and takes them   *)
(* again from the free list; and its timers, for any number of events, any *)
(* word size, and any laziness, timer length and delay of epoll_wait()     *)
(* that together fit in half of the words; the conversations of its        *)
(* requests with upstream servers, for any servers; and the books of its   *)
(* resolver, for any names and contexts.                                   *)
(***************************************************************************)
EXTENDS EventLoop, Timers, Resolver, Upstream, SequenceLemmas, WellFoundedInduction

-----------------------------------------------------------------------------
(* Connections: the inductive invariant *)

BatchEntry == [c : Conns, inst : {0, 1}, revents : SUBSET {"r", "w"}, was : Nat]
Handler == [c : Conns, dir : {"r", "w"}, was : Nat, is : Nat]

\* what epoll_wait() reported and is not handled to its end
Pending == batch \cup ({half} \ {NoEntry})

LoopTypes ==
  /\ LoopTypeOK
  /\ batch \in SUBSET BatchEntry /\ half \in BatchEntry \cup {NoEntry}
  /\ run \in Handler \cup {NoEntry}

\* no two entries for one event
NoTwice(q) == \A i, j \in DOMAIN q : q[i].c = q[j].c /\ q[i].dir = q[j].dir => i = j

\* an event waits in a queue once, for the open socket that it is about
QueueCurrent(q) == NoTwice(q) /\ \A i \in DOMAIN q : open[q[i].c] /\ q[i].was = reuse[q[i].c]

\* The free list, the reusable queue and the timers know which connections are open, and the
\* instance bit is the parity of the number of times that a connection was taken.
PoolExact ==
  /\ FreeListExact
  /\ open[Listening]
  /\ \A i, j \in DOMAIN idleq : idleq[i] = idleq[j] => i = j
  /\ \A i \in DOMAIN idleq : open[idleq[i]] /\ idleq[i] # Listening
  /\ \A c \in Conns : timer[c] => open[c]
  /\ \A c \in Conns : instance[c] = (reuse[c] + 1) % 2

\* A pending entry is about an earlier socket of its connection, or the present one.  It is the
\* present one as long as events are posted: no handler runs then.
PendingPast ==
  /\ \A e \in Pending : e.was <= reuse[e.c] /\ e.inst = (e.was + 1) % 2
  /\ posting /\ phase = "batch" => run = NoEntry /\ \A e \in Pending : e.was = reuse[e.c]

\* where the loop is while a handler runs
LoopPlace ==
  /\ phase # "batch" => half = NoEntry
  /\ phase = "wait" => run = NoEntry
  /\ drained > 0 => run # NoEntry

LoopInv ==
  /\ LoopTypes /\ PoolExact /\ QueueCurrent(acceptq) /\ QueueCurrent(eventq)
  /\ PendingPast /\ LoopPlace /\ HandlersCurrent

-----------------------------------------------------------------------------
(* The queues *)

\* ngx_delete_posted_event: the event is not in the queue any more, the others are.
LEMMA DeletedEvents ==
  ASSUME NEW q \in Seq(PostedEntry), NoTwice(q), NEW c \in Conns, NEW dir \in {"r", "w"}
  PROVE  LET r == Deleted(q, c, dir) IN
         /\ r \in Seq(PostedEntry) /\ NoTwice(r)
         /\ \A j \in DOMAIN r : \E k \in DOMAIN q : r[j] = q[k] /\ ~(q[k].c = c /\ q[k].dir = dir)
<1> DEFINE r == Deleted(q, c, dir)
<1>1. CASE ~Queued(q, c, dir)
  <2>1. r = q
    BY <1>1 DEF Deleted
  <2> QED BY <1>1, <2>1 DEF Queued
<1>2. CASE Queued(q, c, dir)
  <2> DEFINE i == CHOOSE i \in DOMAIN q : q[i].c = c /\ q[i].dir = dir
  <2>1. i \in DOMAIN q /\ q[i].c = c /\ q[i].dir = dir /\ r = RemoveAt(q, i)
    BY <1>2 DEF Deleted, Queued
  <2> HIDE DEF i, r
  <2>2. r \in Seq(PostedEntry) /\ IsWithout(q, i, r)
    BY <2>1, RemovedPlace
  <2>3. PICK f \in [DOMAIN r -> DOMAIN q] :
             /\ \A j \in DOMAIN r : r[j] = q[f[j]] /\ f[j] # i
             /\ \A j, k \in DOMAIN r : f[j] = f[k] => j = k
    BY <2>2 DEF IsWithout
  <2>4. NoTwice(r)
    BY <2>3 DEF NoTwice
  <2>5. ASSUME NEW j \in DOMAIN r
        PROVE  \E k \in DOMAIN q : r[j] = q[k] /\ ~(q[k].c = c /\ q[k].dir = dir)
    <3>1. f[j] \in DOMAIN q /\ r[j] = q[f[j]] /\ f[j] # i
      BY <2>3
    <3>2. ~(q[f[j]].c = c /\ q[f[j]].dir = dir)
      BY <2>1, <3>1 DEF NoTwice
    <3> QED BY <3>1, <3>2
  <2> QED BY <2>2, <2>4, <2>5 DEF r
<1> QED BY <1>1, <1>2

\* ngx_close_connection deletes both events of the connection.
LEMMA PurgedEvents ==
  ASSUME NEW q \in Seq(PostedEntry), NoTwice(q), NEW c \in Conns
  PROVE  LET r == Purged(q, c) IN
         /\ r \in Seq(PostedEntry) /\ NoTwice(r)
         /\ \A j \in DOMAIN r : \E k \in DOMAIN q : r[j] = q[k] /\ q[k].c # c
<1> DEFINE m == Deleted(q, c, "r") r == Deleted(m, c, "w")
<1>1. /\ m \in Seq(PostedEntry) /\ NoTwice(m)
      /\ \A j \in DOMAIN m : \E k \in DOMAIN q : m[j] = q[k] /\ ~(q[k].c = c /\ q[k].dir = "r")
  BY DeletedEvents
<1> HIDE DEF m
<1>2. /\ r \in Seq(PostedEntry) /\ NoTwice(r)
      /\ \A j \in DOMAIN r : \E k \in DOMAIN m : r[j] = m[k] /\ ~(m[k].c = c /\ m[k].dir = "w")
  BY <1>1, DeletedEvents
<1> HIDE DEF r
<1>3. ASSUME NEW k \in DOMAIN q PROVE q[k].dir \in {"r", "w"}
  <2>1. q[k] \in PostedEntry
    BY ElementOfSeq, LenProperties
  <2> QED BY <2>1 DEF PostedEntry
<1>4. \A j \in DOMAIN r : \E k \in DOMAIN q : r[j] = q[k] /\ q[k].c # c
  BY <1>1, <1>2, <1>3
<1> QED BY <1>2, <1>4 DEF r, m, Purged

\* ngx_locked_post_event: the event is in the queue once.
LEMMA PostedEvents ==
  ASSUME NEW q \in Seq(PostedEntry), NoTwice(q), NEW c \in Conns, NEW dir \in {"r", "w"},
         NEW was \in Nat
  PROVE  LET r == Post(q, c, dir, was) IN
         /\ r \in Seq(PostedEntry) /\ NoTwice(r)
         /\ \A j \in DOMAIN r : \/ r[j].c = c /\ r[j].was = was
                                \/ \E k \in DOMAIN q : r[j] = q[k]
<1> DEFINE r == Post(q, c, dir, was) e == [c |-> c, dir |-> dir, was |-> was]
<1>1. CASE Queued(q, c, dir)
  BY <1>1 DEF Post
<1>2. CASE ~Queued(q, c, dir)
  <2>1. r = <<e>> \o q /\ e \in PostedEntry /\ e.c = c /\ e.dir = dir /\ e.was = was
    BY <1>2 DEF Post, PostedEntry
  <2> HIDE DEF r, e
  <2>2. r \in Seq(PostedEntry) /\ r[1] = e /\ IsWithout(r, 1, q)
    BY <2>1, HeadPlace
  <2>3. PICK f \in [DOMAIN q -> DOMAIN r] :
              /\ \A j \in DOMAIN q : q[j] = r[f[j]] /\ f[j] # 1
              /\ \A n \in DOMAIN r : n # 1 => \E j \in DOMAIN q : f[j] = n
    BY <2>2 DEF IsWithout
  <2>4. ASSUME NEW j \in DOMAIN r, j # 1 PROVE \E k \in DOMAIN q : f[k] = j /\ r[j] = q[k]
    BY <2>3, <2>4
  <2>5. NoTwice(r)
    <3>1. ASSUME NEW j \in DOMAIN r, j # 1 PROVE ~(r[j].c = c /\ r[j].dir = dir)
      BY <1>2, <2>4, <3>1 DEF Queued
    <3>2. ASSUME NEW j \in DOMAIN r, NEW k \in DOMAIN r, r[j].c = r[k].c, r[j].dir = r[k].dir
          PROVE  j = k
      <4>1. CASE j = 1 \/ k = 1
        BY <2>1, <2>2, <3>1, <3>2, <4>1
      <4>2. CASE j # 1 /\ k # 1
        BY <2>4, <3>2, <4>2 DEF NoTwice
      <4> QED BY <4>1, <4>2
    <3> QED BY <3>2 DEF NoTwice
  <2>6. \A j \in DOMAIN r : \/ r[j].c = c /\ r[j].was = was
                            \/ \E k \in DOMAIN q : r[j] = q[k]
    BY <2>1, <2>2, <2>4
  <2> QED BY <2>2, <2>5, <2>6 DEF r
<1> QED BY <1>1, <1>2

\* ngx_event_process_posted takes the head of the queue.
LEMMA TakenEvents ==
  ASSUME NEW q \in Seq(PostedEntry), NoTwice(q), q # <<>>
  PROVE  /\ Tail(q) \in Seq(PostedEntry) /\ NoTwice(Tail(q))
         /\ \A j \in DOMAIN Tail(q) : \E k \in DOMAIN q : Tail(q)[j] = q[k]
         /\ 1 \in DOMAIN q /\ Head(q) = q[1] /\ Head(q) \in PostedEntry
<1> DEFINE r == Tail(q)
<1>1. r \in Seq(PostedEntry) /\ Head(q) = q[1] /\ Head(q) \in PostedEntry /\ IsWithout(q, 1, r)
  BY TailPlace
<1> HIDE DEF r
<1>2. PICK f \in [DOMAIN r -> DOMAIN q] :
           /\ \A j \in DOMAIN r : r[j] = q[f[j]] /\ f[j] # 1
           /\ \A j, k \in DOMAIN r : f[j] = f[k] => j = k
  BY <1>1 DEF IsWithout
<1>3. NoTwice(r) /\ \A j \in DOMAIN r : \E k \in DOMAIN q : r[j] = q[k]
  BY <1>2 DEF NoTwice
<1> QED BY <1>1, <1>3 DEF r, IsWithout

\* ngx_reusable_connection(c, 0): the connection leaves the reusable queue, no other does.
LEMMA NotReusableAnyMore ==
  ASSUME NEW c \in Conns, idleq \in Seq(Conns), \A i, j \in DOMAIN idleq : idleq[i] = idleq[j] => i = j
  PROVE  LET r == NotReusable(c) IN
         /\ r \in Seq(Conns) /\ \A i, j \in DOMAIN r : r[i] = r[j] => i = j
         /\ \A j \in DOMAIN r : r[j] # c /\ \E k \in DOMAIN idleq : r[j] = idleq[k]
<1> DEFINE r == NotReusable(c)
<1>1. DOMAIN idleq = 1..Len(idleq)
  BY LenProperties
<1>2. CASE ~Contains(idleq, c)
  BY <1>1, <1>2 DEF NotReusable, Contains
<1>3. CASE Contains(idleq, c)
  <2> DEFINE i == CHOOSE i \in DOMAIN idleq : idleq[i] = c
  <2>1. i \in DOMAIN idleq /\ idleq[i] = c /\ r = RemoveAt(idleq, i)
    BY <1>1, <1>3 DEF NotReusable, Contains
  <2> HIDE DEF i, r
  <2>2. r \in Seq(Conns) /\ IsWithout(idleq, i, r)
    BY <2>1, RemovedPlace
  <2>3. PICK f \in [DOMAIN r -> DOMAIN idleq] :
             /\ \A j \in DOMAIN r : r[j] = idleq[f[j]] /\ f[j] # i
             /\ \A j, k \in DOMAIN r : f[j] = f[k] => j = k
    BY <2>2 DEF IsWithout
  <2>4. /\ \A k, j \in DOMAIN r : r[k] = r[j] => k = j
        /\ \A j \in DOMAIN r : r[j] # c /\ \E k \in DOMAIN idleq : r[j] = idleq[k]
    BY <2>1, <2>3
  <2> QED BY <2>2, <2>4 DEF r
<1> QED BY <1>2, <1>3

\* The free list without its head, which was closed and is open now, is exact again.
LEMMA FreeListTaken ==
  ASSUME LoopTypeOK, FreeListExact, freeList # <<>>
  PROVE  LET c == Head(freeList) r == Tail(freeList) IN
         /\ c \in Conns /\ ~open[c]
         /\ r \in Seq(Conns) /\ \A i, j \in DOMAIN r : r[i] = r[j] => i = j
         /\ \A d \in Conns : Contains(r, d) <=> ~open[d] /\ d # c
<1> DEFINE c == Head(freeList) r == Tail(freeList)
<1>1. freeList \in Seq(Conns)
  BY DEF LoopTypeOK
<1>2. r \in Seq(Conns) /\ c = freeList[1] /\ IsWithout(freeList, 1, r)
  BY <1>1, TailPlace
<1>3. DOMAIN freeList = 1..Len(freeList) /\ \A n \in DOMAIN freeList : freeList[n] \in Conns
  BY <1>1, LenProperties, ElementOfSeq
<1> HIDE DEF c, r
<1>4. PICK f \in [DOMAIN r -> DOMAIN freeList] :
           /\ \A j \in DOMAIN r : r[j] = freeList[f[j]] /\ f[j] # 1
           /\ \A j, k \in DOMAIN r : f[j] = f[k] => j = k
           /\ \A n \in DOMAIN freeList : n # 1 => \E j \in DOMAIN r : f[j] = n
  BY <1>2 DEF IsWithout
<1>5. DOMAIN r = 1..Len(r)
  BY <1>2, LenProperties
<1>6. c \in Conns /\ ~open[c]
  BY <1>2, <1>3 DEF FreeListExact, Contains, IsWithout
<1>7. \A i, j \in DOMAIN r : r[i] = r[j] => i = j
  BY <1>4 DEF FreeListExact
<1>8. ASSUME NEW d \in Conns PROVE Contains(r, d) <=> ~open[d] /\ d # c
  <2>1. Contains(r, d) => ~open[d] /\ d # c
    BY <1>2, <1>3, <1>4, <1>5 DEF FreeListExact, Contains
  <2>2. ASSUME ~open[d], d # c PROVE Contains(r, d)
    <3>1. PICK n \in DOMAIN freeList : freeList[n] = d
      BY <1>3, <2>2 DEF FreeListExact, Contains
    <3>2. n # 1
      BY <1>2, <2>2, <3>1
    <3>3. PICK j \in DOMAIN r : f[j] = n
      BY <1>4, <3>2
    <3> QED BY <1>4, <1>5, <3>1, <3>3 DEF Contains
  <2> QED BY <2>1, <2>2
<1> QED BY <1>2, <1>6, <1>7, <1>8 DEF c, r

\* With an open connection at its head that is closed now it is exact, too.
LEMMA FreeListGiven ==
  ASSUME LoopTypeOK, FreeListExact, NEW c \in Conns, open[c]
  PROVE  LET r == <<c>> \o freeList IN
         /\ r \in Seq(Conns) /\ \A i, j \in DOMAIN r : r[i] = r[j] => i = j
         /\ \A d \in Conns : Contains(r, d) <=> ~open[d] \/ d = c
<1> DEFINE r == <<c>> \o freeList
<1>1. freeList \in Seq(Conns)
  BY DEF LoopTypeOK
<1>2. r \in Seq(Conns) /\ r[1] = c /\ IsWithout(r, 1, freeList)
  BY <1>1, HeadPlace
<1> HIDE DEF r
<1>3. DOMAIN freeList = 1..Len(freeList) /\ DOMAIN r = 1..Len(r) /\ 1 \in DOMAIN r
  BY <1>1, <1>2, LenProperties DEF IsWithout
<1>4. PICK f \in [DOMAIN freeList -> DOMAIN r] :
           /\ \A j \in DOMAIN freeList : freeList[j] = r[f[j]] /\ f[j] # 1
           /\ \A n \in DOMAIN r : n # 1 => \E j \in DOMAIN freeList : f[j] = n
  BY <1>2 DEF IsWithout
<1>5. ASSUME NEW j \in DOMAIN r, j # 1 PROVE \E k \in DOMAIN freeList : f[k] = j /\ r[j] = freeList[k]
  BY <1>4, <1>5
<1>6. \A j \in DOMAIN freeList : freeList[j] # c
  BY <1>3 DEF FreeListExact, Contains
<1>7. ASSUME NEW j \in DOMAIN r, NEW k \in DOMAIN r, r[j] = r[k] PROVE j = k
  <2>1. CASE j = 1 \/ k = 1
    BY <1>2, <1>5, <1>6, <1>7, <2>1
  <2>2. CASE j # 1 /\ k # 1
    BY <1>5, <1>7, <2>2 DEF FreeListExact
  <2> QED BY <2>1, <2>2
<1>8. ASSUME NEW d \in Conns PROVE Contains(r, d) <=> ~open[d] \/ d = c
  <2>1. ASSUME NEW j \in DOMAIN r, r[j] = d PROVE ~open[d] \/ d = c
    <3>1. CASE j = 1
      BY <1>2, <2>1, <3>1
    <3>2. CASE j # 1
      <4>1. Contains(freeList, d)
        BY <1>3, <1>5, <2>1, <3>2 DEF Contains
      <4> QED BY <4>1 DEF FreeListExact
    <3> QED BY <3>1, <3>2
  <2>2. ASSUME ~open[d] PROVE Contains(r, d)
    <3>1. PICK n \in DOMAIN freeList : freeList[n] = d
      BY <1>3, <2>2 DEF FreeListExact, Contains
    <3> QED BY <1>3, <1>4, <3>1 DEF Contains
  <2>3. ASSUME d = c PROVE Contains(r, d)
    BY <1>2, <1>3, <2>3 DEF Contains
  <2> QED BY <1>3, <2>1, <2>2, <2>3 DEF Contains
<1> QED BY <1>2, <1>7, <1>8 DEF r

-----------------------------------------------------------------------------
(* The start *)

\* The loop starts with every connection free.
LEMMA LoopStart == LoopInit => LoopInv
<1> SUFFICES ASSUME LoopInit PROVE LoopInv
  OBVIOUS
<1> USE DEF LoopInit
<1>1. /\ freeList \in Seq(Conns \ {Listening})
      /\ \A i, j \in DOMAIN freeList : freeList[i] = freeList[j] => i = j
      /\ \A c \in Conns \ {Listening} : Contains(freeList, c)
  <2> DEFINE S == Conns \ {Listening}
  <2>1. IsFiniteSet(S) /\ freeList = SetToSeq(S)
    BY ConnsAssumption, FS_RemoveElement
  <2> HIDE DEF S, LoopInit
  <2>2. /\ SetToSeq(S) \in Seq(S)
        /\ \A i, j \in DOMAIN SetToSeq(S) : SetToSeq(S)[i] = SetToSeq(S)[j] => i = j
        /\ \A x \in S : Contains(SetToSeq(S), x)
    BY <2>1, SetAsSeq
  <2> QED BY <2>1, <2>2 DEF S
<1>2. freeList \in Seq(Conns) /\ ~Contains(freeList, Listening)
  <2>1. \A i \in 1..Len(freeList) : freeList[i] \in Conns \ {Listening}
    BY <1>1, ElementOfSeq
  <2>2. freeList \in Seq(Conns)
    BY <1>1, SeqMonotonic
  <2> QED BY <2>1, <2>2 DEF Contains
<1>3. LoopTypes
  <2>1. drained \in 0..(DrainMax + 1) /\ idleq \in Seq(Conns)
    BY LoopBoundsAssumption
  <2>2. acceptq \in Seq(PostedEntry) /\ eventq \in Seq(PostedEntry)
    OBVIOUS
  <2>3. /\ open \in [Conns -> BOOLEAN] /\ timer \in [Conns -> BOOLEAN]
        /\ reuse \in [Conns -> Nat] /\ instance \in [Conns -> {0, 1}]
        /\ watched \in [Conns -> SUBSET {"r", "w"}]
    OBVIOUS
  <2>4. LoopTypeOK
    BY <1>2, <2>1, <2>2, <2>3 DEF LoopTypeOK
  <2> QED BY <2>4 DEF LoopTypes
<1>4. PoolExact
  <2>1. FreeListExact
    BY <1>1, <1>2 DEF FreeListExact
  <2>2. open[Listening] /\ \A c \in Conns : timer[c] => open[c]
    BY ConnsAssumption
  <2>3. \A c \in Conns : instance[c] = (reuse[c] + 1) % 2
    OBVIOUS
  <2> QED BY <2>1, <2>2, <2>3 DEF PoolExact
<1>5. QueueCurrent(acceptq) /\ QueueCurrent(eventq)
  BY DEF QueueCurrent, NoTwice
<1>6. PendingPast /\ LoopPlace /\ HandlersCurrent
  BY DEF PendingPast, Pending, LoopPlace, HandlersCurrent, PostedIsCurrent, StaleNeedsTwoReuses
<1> QED BY <1>3, <1>4, <1>5, <1>6 DEF LoopInv

-----------------------------------------------------------------------------
(* The steps of the loop *)

\* An event of the batch that is not stale is posted for the open socket, or its handler starts:
\* if that is not the socket of the entry, the connection was reused twice, or more often.
LEMMA Fired ==
  ASSUME LoopInv, NEW e \in Pending, NEW dir \in {"r", "w"}, ~Stale(e), phase = "batch", run = NoEntry,
         Fire(e, dir), UNCHANGED <<connState, posting>>
  PROVE  /\ acceptq' \in Seq(PostedEntry) /\ eventq' \in Seq(PostedEntry)
         /\ QueueCurrent(acceptq)' /\ QueueCurrent(eventq)'
         /\ run' \in Handler \cup {NoEntry} /\ StaleNeedsTwoReuses'
         /\ posting => run' = NoEntry
<1> USE DEF LoopInv, connState
<1>1. e \in BatchEntry
  BY DEF LoopTypes, Pending
<1>2. e.c \in Conns /\ e.was \in Nat /\ e.inst \in {0, 1} /\ reuse[e.c] \in Nat
  BY <1>1 DEF BatchEntry, LoopTypes, LoopTypeOK
<1>3. /\ e.was <= reuse[e.c] /\ e.inst = (e.was + 1) % 2 /\ instance[e.c] = (reuse[e.c] + 1) % 2
      /\ open[e.c] /\ instance[e.c] = e.inst
  BY <1>2 DEF PendingPast, PoolExact, Stale
<1>4. acceptq \in Seq(PostedEntry) /\ eventq \in Seq(PostedEntry) /\ NoTwice(acceptq) /\ NoTwice(eventq)
  BY DEF LoopTypes, LoopTypeOK, QueueCurrent
<1>5. CASE posting
  <2>1. e.was = reuse[e.c]
    BY <1>5 DEF PendingPast
  <2>2. ASSUME NEW q \in Seq(PostedEntry), QueueCurrent(q), NEW r, r = Post(q, e.c, dir, e.was)
        PROVE  r \in Seq(PostedEntry) /\ QueueCurrent(r)
    <3> DEFINE c == e.c was == e.was
    <3>1. NoTwice(q) /\ c \in Conns /\ was \in Nat
      BY <1>2, <2>2 DEF QueueCurrent
    <3> HIDE DEF c, was
    <3>2. LET p == Post(q, c, dir, was) IN
          /\ p \in Seq(PostedEntry) /\ NoTwice(p)
          /\ \A j \in DOMAIN p : \/ p[j].c = c /\ p[j].was = was
                                 \/ \E k \in DOMAIN q : p[j] = q[k]
      BY <3>1, PostedEvents
    <3>3. /\ r \in Seq(PostedEntry) /\ NoTwice(r)
          /\ \A j \in DOMAIN r : \/ r[j].c = e.c /\ r[j].was = e.was
                                 \/ \E k \in DOMAIN q : r[j] = q[k]
      BY <2>2, <3>2 DEF c, was
    <3> QED BY <1>3, <2>1, <2>2, <3>3 DEF QueueCurrent
  <2>3. /\ acceptq' = acceptq \/ acceptq' = Post(acceptq, e.c, dir, e.was)
        /\ eventq' = eventq \/ eventq' = Post(eventq, e.c, dir, e.was)
        /\ run' = NoEntry
    BY <1>5 DEF Fire
  <2>4. acceptq' \in Seq(PostedEntry) /\ QueueCurrent(acceptq')
    BY <1>4, <2>2, <2>3
  <2>5. eventq' \in Seq(PostedEntry) /\ QueueCurrent(eventq')
    BY <1>4, <2>2, <2>3
  <2>6. QueueCurrent(acceptq)' /\ QueueCurrent(eventq)'
    BY <2>4, <2>5 DEF QueueCurrent, NoTwice
  <2> QED BY <2>3, <2>4, <2>5, <2>6 DEF StaleNeedsTwoReuses
<1>6. CASE ~posting
  <2>1. run' = [c |-> e.c, dir |-> dir, was |-> e.was, is |-> reuse[e.c]] /\ UNCHANGED queues
    BY <1>6 DEF Fire, Running
  <2>2. run' \in Handler
    BY <1>2, <2>1 DEF Handler
  <2>3. run'.was = e.was /\ run'.is = reuse[e.c]
    BY <2>1
  <2>4. e.was # reuse[e.c] => reuse[e.c] >= e.was + 2 /\ (reuse[e.c] - e.was) % 2 = 0
    BY <1>2, <1>3
  <2>5. StaleNeedsTwoReuses'
    BY <2>3, <2>4 DEF StaleNeedsTwoReuses
  <2>6. QueueCurrent(acceptq)' /\ QueueCurrent(eventq)'
    BY <2>1 DEF QueueCurrent, NoTwice, queues
  <2> QED BY <1>4, <1>6, <2>1, <2>2, <2>5, <2>6 DEF queues
<1> QED BY <1>5, <1>6 DEF LoopTypes, LoopTypeOK

\* What a step of the loop has to respect that leaves the connections alone.
LEMMA LoopKept ==
  ASSUME LoopInv, UNCHANGED connState,
         acceptq' \in Seq(PostedEntry), eventq' \in Seq(PostedEntry),
         QueueCurrent(acceptq)', QueueCurrent(eventq)',
         phase' \in {"wait", "batch", "accepts", "timers", "posted"}, posting' \in BOOLEAN,
         drained' \in 0..(DrainMax + 1),
         batch' \in SUBSET BatchEntry, half' \in BatchEntry \cup {NoEntry},
         run' \in Handler \cup {NoEntry},
         PendingPast', LoopPlace', HandlersCurrent'
  PROVE  LoopInv'
<1>1. LoopTypes'
  BY DEF LoopInv, LoopTypes, LoopTypeOK, connState
<1>2. PoolExact'
  BY DEF LoopInv, PoolExact, FreeListExact, connState
<1> QED BY <1>1, <1>2 DEF LoopInv

\* The entries of a new batch are about the sockets that are open.
LEMMA PollStep == LoopInv /\ PollEvents => LoopInv'
<1> SUFFICES ASSUME LoopInv, PollEvents PROVE LoopInv'
  OBVIOUS
<1> USE DEF LoopInv, PollEvents
<1>1. /\ phase = "wait" /\ phase' = "batch" /\ posting' \in BOOLEAN /\ run = NoEntry /\ half = NoEntry
      /\ UNCHANGED <<connState, half, queues, handlerVars>>
  BY DEF LoopPlace
<1>2. \A e \in batch' : \E c \in Conns, rv \in SUBSET {"r", "w"} : e = Entry(c, rv)
  OBVIOUS
<1> HIDE DEF PollEvents
<1>3. ASSUME NEW e \in batch'
      PROVE  e \in BatchEntry /\ e.was = reuse[e.c] /\ e.inst = (e.was + 1) % 2
  <2>1. PICK c \in Conns, rv \in SUBSET {"r", "w"} : e = Entry(c, rv)
    BY <1>2
  <2>2. reuse[c] \in Nat /\ instance[c] \in {0, 1} /\ instance[c] = (reuse[c] + 1) % 2
    BY DEF LoopTypes, LoopTypeOK, PoolExact
  <2>3. e = [c |-> c, inst |-> instance[c], revents |-> rv, was |-> reuse[c]]
    BY <2>1 DEF Entry
  <2>4. e \in BatchEntry
    BY <2>2, <2>3 DEF BatchEntry
  <2> QED BY <2>2, <2>3, <2>4
<1>4. half' = NoEntry /\ run' = NoEntry /\ reuse' = reuse /\ drained' = drained
  BY <1>1 DEF handlerVars, connState
<1>5. PendingPast'
  <2>1. ASSUME NEW e \in Pending' PROVE e.was <= reuse'[e.c] /\ e.inst = (e.was + 1) % 2 /\ e.was = reuse'[e.c]
    <3>1. e \in batch'
      BY <1>4 DEF Pending
    <3>2. e \in BatchEntry /\ e.was = reuse[e.c] /\ e.inst = (e.was + 1) % 2
      BY <1>3, <3>1
    <3>3. e.was \in Nat
      BY <3>2 DEF BatchEntry
    <3> QED BY <1>4, <3>2, <3>3
  <2> QED BY <1>4, <2>1 DEF PendingPast
<1>6. LoopPlace' /\ HandlersCurrent'
  BY <1>1, <1>4 DEF LoopPlace, HandlersCurrent, PostedIsCurrent, StaleNeedsTwoReuses
<1>7. batch' \in SUBSET BatchEntry
  BY <1>3
<1>8. /\ acceptq' \in Seq(PostedEntry) /\ eventq' \in Seq(PostedEntry)
      /\ QueueCurrent(acceptq)' /\ QueueCurrent(eventq)' /\ drained' \in 0..(DrainMax + 1)
      /\ half' \in BatchEntry \cup {NoEntry} /\ run' \in Handler \cup {NoEntry}
  BY <1>1, <1>4 DEF queues, connState, QueueCurrent, NoTwice, LoopTypes, LoopTypeOK
<1> QED BY <1>1, <1>5, <1>6, <1>7, <1>8, LoopKept

\* A handler runs for the current socket or started in the batch; nothing of that changes while
\* it runs on and the entries become fewer.
LEMMA PendingKept ==
  ASSUME LoopInv, Pending' \subseteq Pending, reuse' = reuse, posting' = posting, phase' = phase,
         posting /\ phase = "batch" => run' = NoEntry
  PROVE  PendingPast'
BY DEF LoopInv, PendingPast

\* What the unhandled part of an entry is.
LEMMA HalfPending == LoopInv => \A e \in batch : e \in Pending /\ e \in BatchEntry
BY DEF LoopInv, Pending, LoopTypes

\* An event of the batch, stale or not, keeps the invariant.
LEMMA BatchStep == LoopInv /\ (BatchStale \/ BatchRead \/ BatchWrite \/ BatchDone) => LoopInv'
<1> SUFFICES ASSUME LoopInv, BatchStale \/ BatchRead \/ BatchWrite \/ BatchDone PROVE LoopInv'
  OBVIOUS
<1> USE DEF LoopInv
<1>1. /\ phase = "batch" /\ run = NoEntry /\ UNCHANGED <<connState, posting>> /\ drained' = drained
      /\ drained = 0
  BY DEF BatchStale, BatchRead, BatchWrite, BatchDone, handlerVars, LoopPlace, LoopTypes, LoopTypeOK
<1>2. /\ acceptq \in Seq(PostedEntry) /\ eventq \in Seq(PostedEntry)
      /\ posting \in BOOLEAN /\ drained \in 0..(DrainMax + 1)
      /\ batch \in SUBSET BatchEntry /\ half \in BatchEntry \cup {NoEntry}
  BY DEF LoopTypes, LoopTypeOK
<1>3. ASSUME UNCHANGED <<queues, run>>
      PROVE  /\ acceptq' \in Seq(PostedEntry) /\ eventq' \in Seq(PostedEntry)
             /\ QueueCurrent(acceptq)' /\ QueueCurrent(eventq)'
             /\ run' = NoEntry /\ HandlersCurrent'
  BY <1>1, <1>2, <1>3 DEF queues, connState, QueueCurrent, NoTwice, HandlersCurrent, PostedIsCurrent,
     StaleNeedsTwoReuses
<1>4. ASSUME NEW e \in Pending, NEW dir \in {"r", "w"}, ~Stale(e), Fire(e, dir), phase' = "batch",
             Pending' \subseteq Pending, batch' \in SUBSET BatchEntry, half' \in BatchEntry \cup {NoEntry}
      PROVE  LoopInv'
  <2>1. /\ acceptq' \in Seq(PostedEntry) /\ eventq' \in Seq(PostedEntry)
        /\ QueueCurrent(acceptq)' /\ QueueCurrent(eventq)'
        /\ run' \in Handler \cup {NoEntry} /\ StaleNeedsTwoReuses'
        /\ posting => run' = NoEntry
    BY <1>1, <1>4, Fired
  <2>2. PendingPast'
    BY <1>1, <1>4, <2>1, PendingKept DEF connState
  <2>3. HandlersCurrent' /\ LoopPlace'
    BY <1>1, <1>4, <2>1 DEF HandlersCurrent, PostedIsCurrent, LoopPlace
  <2> QED BY <1>1, <1>2, <1>4, <2>1, <2>2, <2>3, LoopKept
<1>5. ASSUME UNCHANGED <<queues, run>>, phase' = "batch",
             Pending' \subseteq Pending, batch' \in SUBSET BatchEntry, half' \in BatchEntry \cup {NoEntry}
      PROVE  LoopInv'
  <2>1. PendingPast'
    BY <1>1, <1>3, <1>5, PendingKept DEF connState
  <2>2. LoopPlace'
    BY <1>1, <1>5 DEF LoopPlace
  <2> QED BY <1>1, <1>2, <1>3, <1>5, <2>1, <2>2, LoopKept
<1>6. CASE BatchStale
  <2>1. /\ UNCHANGED <<queues, run>> /\ phase' = "batch" /\ batch' \subseteq batch /\ half' = half
    BY <1>1, <1>6 DEF BatchStale, handlerVars
  <2>2. Pending' \subseteq Pending /\ batch' \in SUBSET BatchEntry
    BY <1>2, <2>1 DEF Pending
  <2> QED BY <1>2, <1>5, <2>1, <2>2
<1>7. CASE BatchRead
  <2>1. PICK e \in batch :
          /\ ~Stale(e) /\ batch' = batch \ {e} /\ half' = e
          /\ Fire(e, "r") \/ UNCHANGED <<queues, run>>
    BY <1>7 DEF BatchRead
  <2>2. phase' = "batch" /\ e \in Pending /\ e \in BatchEntry
    BY <1>1, <1>7, HalfPending DEF BatchRead
  <2>3. Pending' \subseteq Pending /\ batch' \in SUBSET BatchEntry /\ half' \in BatchEntry \cup {NoEntry}
    BY <1>2, <2>1, <2>2 DEF Pending
  <2> QED BY <1>4, <1>5, <2>1, <2>2, <2>3
<1>8. CASE BatchWrite
  <2>1. /\ half # NoEntry /\ half' = NoEntry /\ batch' = batch /\ phase' = "batch"
        /\ (~Stale(half) /\ Fire(half, "w")) \/ UNCHANGED <<queues, run>>
    BY <1>1, <1>8 DEF BatchWrite
  <2>2. half \in Pending
    BY <2>1 DEF Pending
  <2>3. Pending' \subseteq Pending /\ batch' \in SUBSET BatchEntry /\ half' \in BatchEntry \cup {NoEntry}
    BY <1>2, <2>1 DEF Pending
  <2> QED BY <1>4, <1>5, <2>1, <2>2, <2>3
<1>9. CASE BatchDone
  <2>1. /\ phase' = "accepts" /\ batch' = batch /\ half' = half /\ half = NoEntry /\ batch = {}
        /\ UNCHANGED <<queues, run>>
    BY <1>9 DEF BatchDone, handlerVars
  <2>2. Pending' = {}
    BY <2>1 DEF Pending
  <2>3. PendingPast' /\ LoopPlace'
    BY <1>1, <2>1, <2>2 DEF PendingPast, LoopPlace
  <2> QED BY <1>1, <1>2, <1>3, <2>1, <2>3, LoopKept
<1> QED BY <1>6, <1>7, <1>8, <1>9

\* The handler of a posted event runs for the socket that the event was about.
LEMMA PostedStep == LoopInv /\ RunPosted => LoopInv'
<1> SUFFICES ASSUME LoopInv, RunPosted PROVE LoopInv'
  OBVIOUS
<1> USE DEF LoopInv
<1>1. /\ run = NoEntry /\ phase \in {"accepts", "posted"} /\ phase' = phase /\ posting' = posting
      /\ batch' = batch /\ half' = half /\ drained' = drained /\ UNCHANGED connState
  BY DEF RunPosted
<1>2. /\ acceptq \in Seq(PostedEntry) /\ eventq \in Seq(PostedEntry)
      /\ posting \in BOOLEAN /\ drained \in 0..(DrainMax + 1)
      /\ batch \in SUBSET BatchEntry /\ half \in BatchEntry \cup {NoEntry}
  BY DEF LoopTypes, LoopTypeOK
<1>3. ASSUME NEW q \in Seq(PostedEntry), QueueCurrent(q), q # <<>>, NEW dir \in {"r", "w"},
             NEW h, h = Running(Head(q).c, dir, Head(q).was)
      PROVE  /\ Tail(q) \in Seq(PostedEntry) /\ QueueCurrent(Tail(q)) /\ Head(q).dir \in {"r", "w"}
             /\ h \in Handler /\ h.was = h.is
  <2>1. /\ Tail(q) \in Seq(PostedEntry) /\ NoTwice(Tail(q))
        /\ \A j \in DOMAIN Tail(q) : \E k \in DOMAIN q : Tail(q)[j] = q[k]
        /\ 1 \in DOMAIN q /\ Head(q) = q[1] /\ Head(q) \in PostedEntry
    BY <1>3, TakenEvents DEF QueueCurrent
  <2>2. QueueCurrent(Tail(q))
    BY <1>3, <2>1 DEF QueueCurrent
  <2>3. Head(q).c \in Conns /\ Head(q).was \in Nat /\ Head(q).dir \in {"r", "w"}
    BY <2>1 DEF PostedEntry
  <2>4. Head(q).was = reuse[Head(q).c]
    BY <1>3, <2>1 DEF QueueCurrent
  <2>5. h = [c |-> Head(q).c, dir |-> dir, was |-> Head(q).was, is |-> reuse[Head(q).c]]
    BY <1>3 DEF Running
  <2>6. h \in Handler /\ h.was = h.is
    BY <2>3, <2>4, <2>5 DEF Handler
  <2> QED BY <2>1, <2>2, <2>3, <2>6
<1>4. /\ acceptq' \in Seq(PostedEntry) /\ QueueCurrent(acceptq')
      /\ eventq' \in Seq(PostedEntry) /\ QueueCurrent(eventq')
      /\ run' \in Handler /\ run'.was = run'.is
  <2>1. CASE /\ acceptq # <<>>
             /\ run' = Running(Head(acceptq).c, "r", Head(acceptq).was)
             /\ acceptq' = Tail(acceptq) /\ UNCHANGED eventq
    BY <1>2, <1>3, <2>1
  <2>2. CASE /\ eventq # <<>>
             /\ run' = Running(Head(eventq).c, Head(eventq).dir, Head(eventq).was)
             /\ eventq' = Tail(eventq) /\ UNCHANGED acceptq
    <3>1. Head(eventq).dir \in {"r", "w"}
      BY <1>2, <2>2, TakenEvents DEF QueueCurrent, PostedEntry
    <3> QED BY <1>2, <1>3, <2>2, <3>1
  <2> QED BY <2>1, <2>2 DEF RunPosted
<1>5. QueueCurrent(acceptq)' /\ QueueCurrent(eventq)'
  BY <1>1, <1>4 DEF QueueCurrent, NoTwice, connState
<1>6. PendingPast'
  <2>1. Pending' = Pending
    BY <1>1 DEF Pending
  <2> QED BY <1>1, <2>1, PendingKept DEF connState
<1>7. LoopPlace' /\ HandlersCurrent'
  BY <1>1, <1>4 DEF LoopPlace, HandlersCurrent, PostedIsCurrent, StaleNeedsTwoReuses
<1> QED BY <1>1, <1>2, <1>4, <1>5, <1>6, <1>7, LoopKept

\* The loop goes on to its next part, a handler ends or starts to drain.
LEMMA TurnStep ==
  LoopInv /\ (AcceptsDone \/ TimersDone \/ PostedDone \/ HandlerReturns \/ HandlerDrains) => LoopInv'
<1> SUFFICES ASSUME LoopInv, AcceptsDone \/ TimersDone \/ PostedDone \/ HandlerReturns \/ HandlerDrains
             PROVE LoopInv'
  OBVIOUS
<1> USE DEF LoopInv
<1>1. /\ posting' = posting /\ batch' = batch /\ half' = half /\ UNCHANGED <<connState, queues>>
      /\ phase' = phase \/ (phase # "batch" /\ phase' \in {"timers", "posted", "wait"} /\ run = NoEntry)
      /\ run' = run \/ run' = NoEntry
  BY DEF AcceptsDone, TimersDone, PostedDone, HandlerReturns, HandlerDrains, handlerVars, InHandler
<1>2. /\ acceptq \in Seq(PostedEntry) /\ eventq \in Seq(PostedEntry)
      /\ posting \in BOOLEAN /\ drained \in 0..(DrainMax + 1) /\ DrainMax \in Nat
      /\ phase \in {"wait", "batch", "accepts", "timers", "posted"}
      /\ batch \in SUBSET BatchEntry /\ half \in BatchEntry \cup {NoEntry} /\ run \in Handler \cup {NoEntry}
  BY LoopBoundsAssumption DEF LoopTypes, LoopTypeOK
<1>3. QueueCurrent(acceptq)' /\ QueueCurrent(eventq)'
  BY <1>1 DEF QueueCurrent, NoTwice, connState, queues
<1>4. PendingPast'
  BY <1>1 DEF PendingPast, Pending, connState
<1>5. HandlersCurrent'
  BY <1>1 DEF HandlersCurrent, PostedIsCurrent, StaleNeedsTwoReuses
<1>6. drained' \in 0..(DrainMax + 1) /\ LoopPlace'
  <2>1. CASE HandlerDrains
    BY <1>1, <1>2, <2>1 DEF LoopPlace, HandlerDrains, InHandler
  <2>2. CASE HandlerReturns
    BY <1>1, <1>2, <2>2 DEF LoopPlace, HandlerReturns, InHandler
  <2>3. CASE AcceptsDone \/ TimersDone \/ PostedDone
    BY <1>1, <1>2, <2>3 DEF LoopPlace, AcceptsDone, TimersDone, PostedDone, handlerVars
  <2> QED BY <2>1, <2>2, <2>3
<1>7. /\ acceptq' \in Seq(PostedEntry) /\ eventq' \in Seq(PostedEntry)
      /\ phase' \in {"wait", "batch", "accepts", "timers", "posted"} /\ posting' \in BOOLEAN
      /\ batch' \in SUBSET BatchEntry /\ half' \in BatchEntry \cup {NoEntry}
      /\ run' \in Handler \cup {NoEntry}
  BY <1>1, <1>2 DEF queues
<1> QED BY <1>1, <1>3, <1>4, <1>5, <1>6, <1>7, LoopKept

-----------------------------------------------------------------------------
(* The steps of handlers *)

\* What a step of a handler has to respect: it moves no entry of the batch and no other handler.
LEMMA HandlerKept ==
  ASSUME LoopInv, UNCHANGED <<phase, posting, batch, half, run>>, LoopTypeOK', PoolExact',
         QueueCurrent(acceptq)', QueueCurrent(eventq)', run # NoEntry,
         \A c \in Conns : reuse[c] <= reuse'[c]
  PROVE  LoopInv'
<1> USE DEF LoopInv
<1>1. LoopTypes' /\ LoopPlace' /\ HandlersCurrent'
  BY DEF LoopTypes, LoopPlace, HandlersCurrent, PostedIsCurrent, StaleNeedsTwoReuses
<1>2. ~(posting /\ phase = "batch")
  BY DEF PendingPast
<1>3. ASSUME NEW e \in Pending' PROVE e.was <= reuse'[e.c] /\ e.inst = (e.was + 1) % 2
  <2>1. e \in Pending /\ e \in BatchEntry
    BY DEF Pending, LoopTypes
  <2>2. e.c \in Conns /\ e.was \in Nat /\ reuse[e.c] \in Nat /\ reuse'[e.c] \in Nat
    BY <2>1 DEF BatchEntry, LoopTypes, LoopTypeOK
  <2>3. e.was <= reuse[e.c] /\ e.inst = (e.was + 1) % 2 /\ reuse[e.c] <= reuse'[e.c]
    BY <2>1, <2>2 DEF PendingPast
  <2> QED BY <2>2, <2>3
<1>4. PendingPast'
  BY <1>2, <1>3 DEF PendingPast
<1> QED BY <1>1, <1>4

\* The order of the numbers of reuses of a connection that were not changed.
LEMMA SameReuse == LoopInv => \A c \in Conns : reuse[c] \in Nat /\ reuse[c] <= reuse[c]
BY DEF LoopInv, LoopTypes, LoopTypeOK

\* A handler run from the timer tree keeps the invariant.
LEMMA TimerStep == LoopInv /\ RunTimer => LoopInv'
<1> SUFFICES ASSUME LoopInv, RunTimer PROVE LoopInv'
  OBVIOUS
<1> USE DEF LoopInv
<1>1. PICK c \in Conns : timer' = [timer EXCEPT ![c] = FALSE] /\ run' = Running(c, "r", reuse[c])
  BY DEF RunTimer
<1>2. /\ phase = "timers" /\ run = NoEntry /\ drained' = drained /\ drained = 0
      /\ UNCHANGED <<freeList, open, reuse, instance, watched, idleq, phase, posting, batch, half, queues>>
  BY DEF RunTimer, LoopPlace, LoopTypes, LoopTypeOK
<1>3. run' \in Handler /\ run'.was = run'.is
  <2>1. run' = [c |-> c, dir |-> "r", was |-> reuse[c], is |-> reuse[c]] /\ reuse[c] \in Nat
    BY <1>1 DEF Running, LoopTypes, LoopTypeOK
  <2> QED BY <2>1 DEF Handler
<1>4. timer \in [Conns -> BOOLEAN] /\ timer' \in [Conns -> BOOLEAN] /\ \A d \in Conns : timer'[d] => timer[d]
  BY <1>1 DEF LoopTypes, LoopTypeOK
<1>5. LoopTypes'
  BY <1>2, <1>3, <1>4 DEF LoopTypes, LoopTypeOK, queues
<1>6. PoolExact'
  BY <1>2, <1>4 DEF PoolExact, FreeListExact
<1>7. QueueCurrent(acceptq)' /\ QueueCurrent(eventq)'
  BY <1>2 DEF QueueCurrent, NoTwice, queues
<1>8. PendingPast' /\ LoopPlace' /\ HandlersCurrent'
  BY <1>2, <1>3 DEF PendingPast, Pending, LoopPlace, HandlersCurrent, PostedIsCurrent, StaleNeedsTwoReuses
<1> QED BY <1>5, <1>6, <1>7, <1>8

\* A connection from the free list: it was closed, so that no event refers to it.
LEMMA TakeStep ==
  ASSUME LoopInv, run # NoEntry, freeList # <<>>, TakeFree(Head(freeList)), drained' \in 0..(DrainMax + 1)
  PROVE  LoopInv'
<1> USE DEF LoopInv
<1> DEFINE c == Head(freeList) r == Tail(freeList)
<1>1. /\ freeList' = r /\ reuse' = [reuse EXCEPT ![c] = @ + 1]
      /\ instance' = [instance EXCEPT ![c] = 1 - @] /\ open' = [open EXCEPT ![c] = TRUE]
      /\ watched' = [watched EXCEPT ![c] = Registered]
      /\ UNCHANGED <<timer, idleq, phase, posting, batch, half, queues, run>>
  BY DEF TakeFree
<1>2. /\ c \in Conns /\ ~open[c]
      /\ r \in Seq(Conns) /\ \A i, j \in DOMAIN r : r[i] = r[j] => i = j
      /\ \A d \in Conns : Contains(r, d) <=> ~open[d] /\ d # c
  <2>1. LoopTypeOK /\ FreeListExact
    BY DEF LoopTypes, PoolExact
  <2> QED BY <2>1, FreeListTaken
<1> HIDE DEF c, r
<1>3. /\ open \in [Conns -> BOOLEAN] /\ timer \in [Conns -> BOOLEAN]
      /\ reuse \in [Conns -> Nat] /\ instance \in [Conns -> {0, 1}]
      /\ watched \in [Conns -> SUBSET {"r", "w"}]
      /\ acceptq \in Seq(PostedEntry) /\ eventq \in Seq(PostedEntry)
      /\ idleq \in Seq(Conns)
  BY DEF LoopTypes, LoopTypeOK
<1>4. Registered \in SUBSET {"r", "w"}
  BY DEF Registered
<1>5. /\ open' \in [Conns -> BOOLEAN] /\ reuse' \in [Conns -> Nat] /\ instance' \in [Conns -> {0, 1}]
      /\ watched' \in [Conns -> SUBSET {"r", "w"}]
  <2>1. open' \in [Conns -> BOOLEAN] /\ watched' \in [Conns -> SUBSET {"r", "w"}]
    BY <1>1, <1>2, <1>3, <1>4
  <2>2. reuse[c] + 1 \in Nat /\ 1 - instance[c] \in {0, 1}
    <3>1. reuse[c] \in Nat /\ (instance[c] = 0 \/ instance[c] = 1)
      BY <1>2, <1>3
    <3>2. CASE instance[c] = 0
      BY <3>1, <3>2
    <3>3. CASE instance[c] = 1
      BY <3>1, <3>3
    <3> QED BY <3>1, <3>2, <3>3
  <2>3. reuse' \in [Conns -> Nat] /\ instance' \in [Conns -> {0, 1}]
    BY <1>1, <1>2, <1>3, <2>2
  <2> QED BY <2>1, <2>3
<1>6. LoopTypeOK'
  BY <1>1, <1>2, <1>3, <1>5 DEF LoopTypes, LoopTypeOK, queues
<1>7. \A d \in Conns : open'[d] <=> open[d] \/ d = c
  BY <1>1, <1>2, <1>3
<1>8. FreeListExact'
  BY <1>1, <1>2, <1>7 DEF FreeListExact
<1>9. \A d \in Conns : instance'[d] = (reuse'[d] + 1) % 2
  <2>1. ASSUME NEW d \in Conns, d # c PROVE instance'[d] = (reuse'[d] + 1) % 2
    BY <1>1, <1>3, <2>1 DEF PoolExact
  <2>2. instance'[c] = 1 - instance[c] /\ reuse'[c] = reuse[c] + 1
    BY <1>1, <1>2, <1>3
  <2>3. instance[c] = (reuse[c] + 1) % 2 /\ reuse[c] \in Nat
    BY <1>2, <1>3 DEF PoolExact
  <2>4. instance'[c] = (reuse'[c] + 1) % 2
    BY <2>2, <2>3
  <2> QED BY <2>1, <2>4
<1>10. PoolExact'
  <2>1. \A i \in DOMAIN idleq : idleq[i] \in Conns
    BY <1>3, ElementOfSeq, LenProperties
  <2> QED BY <1>1, <1>7, <1>8, <1>9, <2>1, ConnsAssumption DEF PoolExact
<1>11. ASSUME NEW q \in Seq(PostedEntry), QueueCurrent(q)
       PROVE  NoTwice(q) /\ \A i \in DOMAIN q : open'[q[i].c] /\ q[i].was = reuse'[q[i].c]
  <2>1. ASSUME NEW i \in DOMAIN q PROVE open'[q[i].c] /\ q[i].was = reuse'[q[i].c]
    <3>1. q[i] \in PostedEntry
      BY ElementOfSeq, LenProperties
    <3>2. q[i].c \in Conns /\ open[q[i].c] /\ q[i].was = reuse[q[i].c]
      BY <1>11, <3>1 DEF QueueCurrent, PostedEntry
    <3> QED BY <1>1, <1>2, <1>3, <1>7, <3>2
  <2> QED BY <1>11, <2>1 DEF QueueCurrent
<1>12. QueueCurrent(acceptq)' /\ QueueCurrent(eventq)'
  <2>1. acceptq' = acceptq /\ eventq' = eventq /\ QueueCurrent(acceptq) /\ QueueCurrent(eventq)
    BY <1>1 DEF queues
  <2>2. /\ NoTwice(acceptq) /\ \A i \in DOMAIN acceptq : open'[acceptq[i].c] /\ acceptq[i].was = reuse'[acceptq[i].c]
        /\ NoTwice(eventq) /\ \A i \in DOMAIN eventq : open'[eventq[i].c] /\ eventq[i].was = reuse'[eventq[i].c]
    BY <1>3, <1>11, <2>1
  <2> QED BY <2>1, <2>2 DEF QueueCurrent, NoTwice
<1>13. \A d \in Conns : reuse[d] <= reuse'[d]
  BY <1>1, <1>2, <1>3
<1> QED BY <1>1, <1>6, <1>10, <1>12, <1>13, HandlerKept

\* ngx_close_connection: nothing refers to the closed connection any more.
LEMMA CloseStep ==
  ASSUME LoopInv, run # NoEntry, NEW c \in Conns, c # Listening, open[c], CloseConn(c),
         UNCHANGED <<reuse, instance, phase, posting, batch, half, run>>, drained' \in 0..(DrainMax + 1)
  PROVE  LoopInv'
<1> USE DEF LoopInv
<1>1. /\ timer' = [timer EXCEPT ![c] = FALSE] /\ watched' = [watched EXCEPT ![c] = {}]
      /\ acceptq' = Purged(acceptq, c) /\ eventq' = Purged(eventq, c) /\ idleq' = NotReusable(c)
      /\ freeList' = <<c>> \o freeList /\ open' = [open EXCEPT ![c] = FALSE]
  BY DEF CloseConn, TimerDeleted
<1>2. /\ open \in [Conns -> BOOLEAN] /\ timer \in [Conns -> BOOLEAN]
      /\ reuse \in [Conns -> Nat] /\ instance \in [Conns -> {0, 1}]
      /\ watched \in [Conns -> SUBSET {"r", "w"}]
      /\ acceptq \in Seq(PostedEntry) /\ eventq \in Seq(PostedEntry)
      /\ idleq \in Seq(Conns) /\ LoopTypeOK /\ FreeListExact
      /\ \A i, j \in DOMAIN idleq : idleq[i] = idleq[j] => i = j
  BY DEF LoopTypes, LoopTypeOK, PoolExact
<1>3. LET r == <<c>> \o freeList IN
      /\ r \in Seq(Conns) /\ \A i, j \in DOMAIN r : r[i] = r[j] => i = j
      /\ \A d \in Conns : Contains(r, d) <=> ~open[d] \/ d = c
  BY <1>2, FreeListGiven
<1>4. LET r == NotReusable(c) IN
      /\ r \in Seq(Conns) /\ \A i, j \in DOMAIN r : r[i] = r[j] => i = j
      /\ \A j \in DOMAIN r : r[j] # c /\ \E k \in DOMAIN idleq : r[j] = idleq[k]
  BY <1>2, NotReusableAnyMore
<1>5. \A d \in Conns : open'[d] <=> open[d] /\ d # c
  BY <1>1, <1>2
<1>6. FreeListExact'
  BY <1>1, <1>3, <1>5 DEF FreeListExact
<1>7. ASSUME NEW q \in Seq(PostedEntry), QueueCurrent(q)
      PROVE  /\ Purged(q, c) \in Seq(PostedEntry) /\ NoTwice(Purged(q, c))
             /\ \A j \in DOMAIN Purged(q, c) :
                  open'[Purged(q, c)[j].c] /\ Purged(q, c)[j].was = reuse'[Purged(q, c)[j].c]
  <2> DEFINE r == Purged(q, c)
  <2>1. /\ r \in Seq(PostedEntry) /\ NoTwice(r)
        /\ \A j \in DOMAIN r : \E k \in DOMAIN q : r[j] = q[k] /\ q[k].c # c
    BY <1>7, PurgedEvents DEF QueueCurrent
  <2> HIDE DEF r
  <2>2. ASSUME NEW j \in DOMAIN r PROVE open'[r[j].c] /\ r[j].was = reuse'[r[j].c]
    <3>1. PICK k \in DOMAIN q : r[j] = q[k] /\ q[k].c # c
      BY <2>1
    <3>2. q[k] \in PostedEntry
      BY ElementOfSeq, LenProperties
    <3>3. q[k].c \in Conns /\ open[q[k].c] /\ q[k].was = reuse[q[k].c]
      BY <1>7, <3>2 DEF QueueCurrent, PostedEntry
    <3> QED BY <1>5, <3>1, <3>3
  <2> QED BY <2>1, <2>2 DEF r
<1>8. QueueCurrent(acceptq)' /\ acceptq' \in Seq(PostedEntry)
  BY <1>1, <1>2, <1>7 DEF QueueCurrent, NoTwice
<1>9. QueueCurrent(eventq)' /\ eventq' \in Seq(PostedEntry)
  BY <1>1, <1>2, <1>7 DEF QueueCurrent, NoTwice
<1>10. /\ open' \in [Conns -> BOOLEAN] /\ timer' \in [Conns -> BOOLEAN]
       /\ watched' \in [Conns -> SUBSET {"r", "w"}]
  BY <1>1, <1>2
<1>11. freeList' \in Seq(Conns) /\ idleq' \in Seq(Conns)
  BY <1>1, <1>3, <1>4
<1>12. LoopTypeOK'
  BY <1>2, <1>8, <1>9, <1>10, <1>11 DEF LoopTypeOK
<1>13. /\ \A i, j \in DOMAIN idleq' : idleq'[i] = idleq'[j] => i = j
       /\ \A i \in DOMAIN idleq' : open'[idleq'[i]] /\ idleq'[i] # Listening
  <2>1. \A k \in DOMAIN idleq : idleq[k] \in Conns /\ open[idleq[k]] /\ idleq[k] # Listening
    BY <1>2, ElementOfSeq, LenProperties DEF PoolExact
  <2> QED BY <1>1, <1>4, <1>5, <2>1
<1>14. open'[Listening] /\ \A d \in Conns : timer'[d] => open'[d]
  BY <1>1, <1>2, <1>5, ConnsAssumption DEF PoolExact
<1>15. PoolExact'
  BY <1>6, <1>13, <1>14 DEF PoolExact
<1> QED BY <1>8, <1>9, <1>12, <1>15, SameReuse, HandlerKept

\* A connection becomes idle, is used again, or waits for an event.
LEMMA IdleStep == LoopInv /\ (HandlerIdles \/ HandlerResumes \/ HandlerWaits) => LoopInv'
<1> SUFFICES ASSUME LoopInv, HandlerIdles \/ HandlerResumes \/ HandlerWaits PROVE LoopInv'
  OBVIOUS
<1> USE DEF LoopInv
<1>1. /\ run # NoEntry /\ drained' = drained
      /\ UNCHANGED <<freeList, open, reuse, instance, phase, posting, batch, half, acceptq, run>>
  BY DEF HandlerIdles, HandlerResumes, HandlerWaits, InHandler, handlerVars, queues
<1>2. /\ open \in [Conns -> BOOLEAN] /\ timer \in [Conns -> BOOLEAN] /\ reuse \in [Conns -> Nat]
      /\ watched \in [Conns -> SUBSET {"r", "w"}]
      /\ acceptq \in Seq(PostedEntry) /\ eventq \in Seq(PostedEntry) /\ idleq \in Seq(Conns) /\ LoopTypeOK
      /\ \A i, j \in DOMAIN idleq : idleq[i] = idleq[j] => i = j
      /\ \A i \in DOMAIN idleq : open[idleq[i]] /\ idleq[i] # Listening
      /\ \A c \in Conns : timer[c] => open[c]
  BY DEF LoopTypes, LoopTypeOK, PoolExact
<1>3. QueueCurrent(acceptq)'
  BY <1>1 DEF QueueCurrent, NoTwice
<1>4. ASSUME eventq' = eventq PROVE eventq' \in Seq(PostedEntry) /\ QueueCurrent(eventq)'
  BY <1>1, <1>2, <1>4 DEF QueueCurrent, NoTwice
<1>5. ASSUME NEW c \in Conns, open[c], timer' = [timer EXCEPT ![c] = TRUE]
      PROVE  timer' \in [Conns -> BOOLEAN] /\ \A d \in Conns : timer'[d] => open'[d]
  BY <1>1, <1>2, <1>5
<1>6. ASSUME eventq' \in Seq(PostedEntry), QueueCurrent(eventq)', watched' \in [Conns -> SUBSET {"r", "w"}],
             timer' \in [Conns -> BOOLEAN], \A d \in Conns : timer'[d] => open'[d],
             idleq' \in Seq(Conns), \A i, j \in DOMAIN idleq' : idleq'[i] = idleq'[j] => i = j,
             \A i \in DOMAIN idleq' : open'[idleq'[i]] /\ idleq'[i] # Listening
      PROVE  LoopInv'
  <2>1. LoopTypeOK'
    BY <1>1, <1>2, <1>6 DEF LoopTypeOK
  <2>2. PoolExact'
    BY <1>1, <1>6 DEF PoolExact, FreeListExact
  <2> QED BY <1>1, <1>3, <1>6, <2>1, <2>2, SameReuse, HandlerKept
<1>7. CASE HandlerIdles
  <2>1. PICK c \in Conns \ {Listening} :
          /\ open[c] /\ ~Contains(idleq, c) /\ idleq' = <<c>> \o idleq
          /\ eventq' = Post(eventq, c, "r", reuse[c]) \/ eventq' = eventq
          /\ timer' = [timer EXCEPT ![c] = TRUE]
    BY <1>7 DEF HandlerIdles
  <2>2. watched' = watched
    BY <1>7 DEF HandlerIdles
  <2>3. eventq' \in Seq(PostedEntry) /\ QueueCurrent(eventq)'
    <3>1. CASE eventq' = eventq
      BY <1>4, <3>1
    <3>2. CASE eventq' = Post(eventq, c, "r", reuse[c])
      <4>1. LET p == Post(eventq, c, "r", reuse[c]) IN
            /\ p \in Seq(PostedEntry) /\ NoTwice(p)
            /\ \A j \in DOMAIN p : \/ p[j].c = c /\ p[j].was = reuse[c]
                                   \/ \E k \in DOMAIN eventq : p[j] = eventq[k]
        <5>1. NoTwice(eventq) /\ eventq \in Seq(PostedEntry) /\ c \in Conns
          BY <1>2 DEF QueueCurrent
        <5> DEFINE q == eventq was == reuse[c]
        <5>2. was \in Nat
          BY <1>2
        <5> HIDE DEF was
        <5>3. LET p == Post(q, c, "r", was) IN
              /\ p \in Seq(PostedEntry) /\ NoTwice(p)
              /\ \A j \in DOMAIN p : \/ p[j].c = c /\ p[j].was = was
                                     \/ \E k \in DOMAIN q : p[j] = q[k]
          BY <5>1, <5>2, PostedEvents
        <5> QED BY <5>3 DEF was
      <4>2. eventq' \in Seq(PostedEntry) /\ NoTwice(eventq')
        BY <3>2, <4>1
      <4>3. \A j \in DOMAIN eventq' : open[eventq'[j].c] /\ eventq'[j].was = reuse[eventq'[j].c]
        BY <2>1, <3>2, <4>1 DEF QueueCurrent
      <4> QED BY <1>1, <4>2, <4>3 DEF QueueCurrent, NoTwice
    <3> QED BY <2>1, <3>1, <3>2
  <2>4. idleq' \in Seq(Conns) /\ idleq'[1] = c /\ IsWithout(idleq', 1, idleq)
    BY <1>2, <2>1, HeadPlace
  <2>5. ASSUME NEW i \in DOMAIN idleq', i # 1 PROVE \E k \in DOMAIN idleq : idleq'[i] = idleq[k]
    BY <2>4, <2>5 DEF IsWithout
  <2>6. \A k \in DOMAIN idleq : idleq[k] # c
    BY <1>2, <2>1, LenProperties DEF Contains
  <2>7. ASSUME NEW i \in DOMAIN idleq', NEW j \in DOMAIN idleq', idleq'[i] = idleq'[j] PROVE i = j
    <3>1. CASE i = 1 \/ j = 1
      BY <2>4, <2>5, <2>6, <2>7, <3>1
    <3>2. CASE i # 1 /\ j # 1
      <4>1. PICK f \in [DOMAIN idleq -> DOMAIN idleq'] :
              /\ \A k \in DOMAIN idleq : idleq[k] = idleq'[f[k]]
              /\ \A n \in DOMAIN idleq' : n # 1 => \E k \in DOMAIN idleq : f[k] = n
        BY <2>4 DEF IsWithout
      <4> QED BY <1>2, <2>7, <3>2, <4>1
    <3> QED BY <3>1, <3>2
  <2>8. \A i \in DOMAIN idleq' : open'[idleq'[i]] /\ idleq'[i] # Listening
    BY <1>1, <1>2, <2>1, <2>4, <2>5
  <2> QED BY <1>2, <1>5, <1>6, <2>1, <2>2, <2>3, <2>4, <2>7, <2>8
<1>8. CASE HandlerResumes
  <2>1. idleq' = NotReusable(run.c) /\ timer' = timer /\ watched' = watched /\ eventq' = eventq
    BY <1>8 DEF HandlerResumes, queues
  <2>2. run.c \in Conns
    BY <1>1 DEF LoopTypes, Handler
  <2>3. LET r == NotReusable(run.c) IN
        /\ r \in Seq(Conns) /\ \A i, j \in DOMAIN r : r[i] = r[j] => i = j
        /\ \A j \in DOMAIN r : r[j] # run.c /\ \E k \in DOMAIN idleq : r[j] = idleq[k]
    BY <1>2, <2>2, NotReusableAnyMore
  <2>4. /\ idleq' \in Seq(Conns) /\ \A i, j \in DOMAIN idleq' : idleq'[i] = idleq'[j] => i = j
        /\ \A i \in DOMAIN idleq' : open'[idleq'[i]] /\ idleq'[i] # Listening
    BY <1>1, <1>2, <2>1, <2>3
  <2> QED BY <1>1, <1>2, <1>4, <1>6, <2>1, <2>4
<1>9. CASE HandlerWaits
  <2>1. PICK c \in Conns \ {Listening} :
          /\ open[c] /\ watched' = [watched EXCEPT ![c] = @ \cup {"w"}]
          /\ timer' = [timer EXCEPT ![c] = TRUE]
    BY <1>9 DEF HandlerWaits
  <2>2. idleq' = idleq /\ eventq' = eventq
    BY <1>9 DEF HandlerWaits, queues
  <2>3. watched' \in [Conns -> SUBSET {"r", "w"}]
    BY <1>2, <2>1
  <2> QED BY <1>1, <1>2, <1>4, <1>5, <1>6, <2>1, <2>2, <2>3
<1> QED BY <1>7, <1>8, <1>9

\* Handlers that open and close connections, and the draining of idle ones, keep the invariant.
LEMMA CloseOrTakeStep == LoopInv /\ (HandlerOpens \/ DrainOne \/ DrainEnds \/ HandlerCloses) => LoopInv'
<1> SUFFICES ASSUME LoopInv, HandlerOpens \/ DrainOne \/ DrainEnds \/ HandlerCloses PROVE LoopInv'
  OBVIOUS
<1> USE DEF LoopInv
<1>1. DrainMax \in Nat /\ drained \in 0..(DrainMax + 1) /\ (drained > 0 => run # NoEntry) /\ idleq \in Seq(Conns)
  BY LoopBoundsAssumption DEF LoopTypes, LoopTypeOK, LoopPlace
<1>2. CASE HandlerOpens
  <2>1. /\ run # NoEntry /\ freeList # <<>> /\ TakeFree(Head(freeList)) /\ drained' = drained
    BY <1>2 DEF HandlerOpens, InHandler
  <2> QED BY <1>1, <2>1, TakeStep
<1>3. CASE DrainOne
  <2> DEFINE c == idleq[Len(idleq)]
  <2>1. /\ drained \in 1..DrainMax /\ idleq # <<>> /\ CloseConn(c) /\ drained' = drained + 1
        /\ UNCHANGED <<reuse, instance, phase, posting, batch, half, run>>
    BY <1>3 DEF DrainOne
  <2>2. Len(idleq) \in DOMAIN idleq
    BY <1>1, <2>1, LenProperties, EmptySeq
  <2>3. c \in Conns /\ c # Listening /\ open[c]
    BY <1>1, <2>2, ElementOfSeq, LenProperties DEF PoolExact
  <2>4. drained' \in 0..(DrainMax + 1) /\ run # NoEntry
    BY <1>1, <2>1
  <2> HIDE DEF c
  <2> QED BY <2>1, <2>3, <2>4, CloseStep
<1>4. CASE DrainEnds
  <2>1. drained > 0 /\ drained' = 0 /\ run # NoEntry /\ drained' \in 0..(DrainMax + 1)
    BY <1>1, <1>4 DEF DrainEnds
  <2>2. CASE freeList # <<>>
    <3>1. TakeFree(Head(freeList))
      BY <1>4, <2>2 DEF DrainEnds
    <3> QED BY <2>1, <2>2, <3>1, TakeStep
  <2>3. CASE freeList = <<>>
    <3>1. UNCHANGED <<connState, phase, posting, batch, half, queues, run>>
      BY <1>4, <2>3 DEF DrainEnds
    <3>2. LoopTypeOK' /\ PoolExact' /\ QueueCurrent(acceptq)' /\ QueueCurrent(eventq)'
      BY <2>1, <3>1 DEF LoopTypes, LoopTypeOK, PoolExact, FreeListExact, QueueCurrent, NoTwice, connState, queues
    <3> QED BY <2>1, <3>1, <3>2, SameReuse, HandlerKept DEF connState
  <2> QED BY <2>2, <2>3
<1>5. CASE HandlerCloses
  <2>1. PICK c \in Conns \ {Listening} : MayClose(c) /\ CloseConn(c)
    BY <1>5 DEF HandlerCloses
  <2>2. /\ run # NoEntry /\ drained' = drained
        /\ UNCHANGED <<reuse, instance, phase, posting, batch, half, run>>
    BY <1>5 DEF HandlerCloses, InHandler, handlerVars
  <2> QED BY <1>1, <2>1, <2>2, CloseStep DEF MayClose
<1> QED BY <1>2, <1>3, <1>4, <1>5

-----------------------------------------------------------------------------
(* The theorem *)

\* Every step of the loop keeps the invariant.
LEMMA LoopStep == LoopInv /\ [LoopNext]_loopVars => LoopInv'
<1> SUFFICES ASSUME LoopInv, [LoopNext]_loopVars PROVE LoopInv'
  OBVIOUS
<1>1. CASE UNCHANGED loopVars
  BY <1>1 DEF loopVars, connState, queues, handlerVars, LoopInv, LoopTypes, LoopTypeOK, PoolExact,
     FreeListExact, QueueCurrent, NoTwice, PendingPast, Pending, LoopPlace, HandlersCurrent,
     PostedIsCurrent, StaleNeedsTwoReuses
<1>2. CASE LoopNext
  BY <1>2, PollStep, BatchStep, PostedStep, TimerStep, TurnStep, CloseOrTakeStep, IdleStep DEF LoopNext
<1> QED BY <1>1, <1>2

\* What the invariant says of a state is what the run checks of it.
LEMMA LoopInvCurrent == LoopInv => ConnectionsCurrent
<1> SUFFICES ASSUME LoopInv PROVE ConnectionsCurrent
  OBVIOUS
<1> USE DEF LoopInv
<1>1. ASSUME NEW c \in Conns, ~open[c]
      PROVE  /\ ~timer[c] /\ ~Contains(idleq, c)
             /\ \A dir \in {"r", "w"} : ~Queued(eventq, c, dir) /\ ~Queued(acceptq, c, dir)
  <2>1. ~timer[c]
    BY <1>1 DEF PoolExact
  <2>2. ~Contains(idleq, c)
    <3>1. DOMAIN idleq = 1..Len(idleq)
      BY LenProperties DEF LoopTypes, LoopTypeOK
    <3> QED BY <1>1, <3>1 DEF PoolExact, Contains
  <2>3. \A dir \in {"r", "w"} : ~Queued(eventq, c, dir) /\ ~Queued(acceptq, c, dir)
    BY <1>1 DEF QueueCurrent, Queued
  <2> QED BY <2>1, <2>2, <2>3
<1>2. ClosedIsForgotten
  BY <1>1 DEF ClosedIsForgotten
<1> QED BY <1>2 DEF ConnectionsCurrent, ConnectionsExact, LoopTypes, PoolExact

\* However often handlers close connections and take them again in the middle of a batch, or
\* drain idle ones, every closed connection is on the free list once, nothing refers to it
\* (ngx_close_connection), and a handler runs for the socket that its event was about - except
\* for an entry of the batch whose connection was reused at least twice, an even number of times,
\* since epoll_wait() returned.
THEOREM ConnectionsKept == LoopSpec => []ConnectionsCurrent
<1>1. LoopSpec => []LoopInv
  BY LoopStart, LoopStep, PTL DEF LoopSpec
<1> QED BY <1>1, LoopInvCurrent, PTL

-----------------------------------------------------------------------------
(* Timers: the inductive invariant *)

Words == 0 .. (Modulus - 1)

\* what is left of a timer's key
Rem(e) == Diff(key[e], msec)

\* The types; the time left of every timer that is set is in reach of the signed comparison and as
\* close to the time asked for as the laziness allows; none is due before the sleep, which ends
\* with the first of them.
TimersInv ==
  /\ TimersTypeOK
  /\ \A e \in Events : timerSet[e] =>
       /\ Rem(e) \in (-MaxLag) .. MaxTime
       /\ Rem(e) - left[e] < Lazy /\ left[e] - Rem(e) < Lazy
       /\ tphase \in {"unchanged", "posted", "sleep"} => Rem(e) > 0
       /\ tphase = "sleep" => wait >= 0 /\ wait <= Rem(e)
  /\ wait \in (-1) .. MaxTime

-----------------------------------------------------------------------------
(* Words that wrap around *)

\* The signed difference of two words is their difference, up to one turn of the words.
LEMMA DiffTurn ==
  ASSUME NEW a \in Words, NEW b \in Words
  PROVE  /\ Diff(a, b) \in Int /\ 2 * Diff(a, b) < Modulus /\ -Modulus <= 2 * Diff(a, b)
         /\ \E k \in {-1, 0, 1} : Diff(a, b) = a - b + k * Modulus
<1> DEFINE M == Modulus x == a - b d == x % M
<1>1. M \in Nat /\ M > 0 /\ x \in Int /\ -M < x /\ x < M
  BY RangeAssumption DEF Words
<1> HIDE DEF M, x
<1>2. d = IF x >= 0 THEN x ELSE x + M
  <2>1. CASE x >= 0
    BY <1>1, <2>1
  <2>2. CASE x < 0
    BY <1>1, <2>2
  <2> QED BY <1>1, <2>1, <2>2
<1> HIDE DEF d
<1>3. Diff(a, b) = IF 2 * d >= M THEN d - M ELSE d
  BY DEF Diff, d, x, M
<1>4. d \in Int /\ 0 <= d /\ d < M
  BY <1>1, <1>2
<1>5. \E k \in {-1, 0, 1} : Diff(a, b) = x + k * M
  <2>1. Diff(a, b) \in {x - M, x, x + M}
    BY <1>1, <1>2, <1>3, <1>4
  <2>2. x - M = x + (-1) * M /\ x = x + 0 * M /\ x + M = x + 1 * M
    BY <1>1
  <2> QED BY <2>1, <2>2
<1>6. Diff(a, b) \in Int /\ 2 * Diff(a, b) < M /\ -M <= 2 * Diff(a, b)
  BY <1>1, <1>3, <1>4
<1> QED BY <1>5, <1>6 DEF M, x

\* Differences add up as long as their sum is in reach of the comparison.
LEMMA DiffAdds ==
  ASSUME NEW a \in Words, NEW b \in Words, NEW c \in Words,
         2 * (Diff(a, b) + Diff(b, c)) < Modulus, -Modulus <= 2 * (Diff(a, b) + Diff(b, c))
  PROVE  Diff(a, c) = Diff(a, b) + Diff(b, c)
<1> DEFINE M == Modulus x == Diff(a, b) y == Diff(b, c) z == Diff(a, c)
<1>1. /\ M \in Nat /\ M > 0 /\ a \in Int /\ b \in Int /\ c \in Int
      /\ x \in Int /\ y \in Int /\ z \in Int /\ 2 * z < M /\ -M <= 2 * z
      /\ 2 * (x + y) < M /\ -M <= 2 * (x + y)
  BY RangeAssumption, DiffTurn DEF Words
<1>2. \E k \in {-1, 0, 1} : x = a - b + k * M
  BY DiffTurn
<1>3. \E k \in {-1, 0, 1} : y = b - c + k * M
  BY DiffTurn
<1>4. \E k \in {-1, 0, 1} : z = a - c + k * M
  BY DiffTurn
<1> HIDE DEF M, x, y, z
<1>5. /\ x \in {a - b - M, a - b, a - b + M}
      /\ y \in {b - c - M, b - c, b - c + M}
      /\ z \in {a - c - M, a - c, a - c + M}
  <2>1. x \in {a - b - M, a - b, a - b + M}
    BY <1>1, <1>2
  <2>2. y \in {b - c - M, b - c, b - c + M}
    BY <1>1, <1>3
  <2>3. z \in {a - c - M, a - c, a - c + M}
    BY <1>1, <1>4
  <2> QED BY <2>1, <2>2, <2>3
<1>6. z = x + y
  BY <1>1, <1>5
<1> QED BY <1>6 DEF x, y, z

\* A word that is moved on by d is d ahead.
LEMMA AheadBySum ==
  ASSUME msec \in Words, NEW d \in Nat, 2 * d < Modulus
  PROVE  /\ Advanced(d) \in Words /\ Diff(Advanced(d), msec) = d /\ Diff(msec, Advanced(d)) = -d
<1> DEFINE M == Modulus n == Advanced(d)
<1>1. M \in Nat /\ M > 0 /\ msec \in Int /\ 0 <= msec /\ msec < M /\ d < M
  BY RangeAssumption DEF Words
<1>2. n = IF msec + d < M THEN msec + d ELSE msec + d - M
  <2> DEFINE x == msec + d
  <2>1. x \in Nat /\ x < 2 * M
    BY <1>1
  <2>2. n = x % M
    BY DEF Advanced
  <2> HIDE DEF x
  <2>3. CASE x < M
    BY <1>1, <2>1, <2>2, <2>3 DEF x
  <2>4. CASE x >= M
    <3>1. x % M = x - M
      BY <1>1, <2>1, <2>4
    <3> QED BY <1>1, <2>2, <2>4, <3>1 DEF x
  <2> QED BY <1>1, <2>1, <2>3, <2>4
<1> HIDE DEF n
<1>3. n \in Words
  BY <1>1, <1>2 DEF Words
<1>4. \E k \in {-1, 0, 1} : Diff(n, msec) = n - msec + k * M
  BY <1>3, DiffTurn
<1>5. \E k \in {-1, 0, 1} : Diff(msec, n) = msec - n + k * M
  BY <1>3, DiffTurn
<1>6. /\ Diff(n, msec) \in Int /\ 2 * Diff(n, msec) < M /\ -M <= 2 * Diff(n, msec)
      /\ Diff(msec, n) \in Int /\ 2 * Diff(msec, n) < M /\ -M <= 2 * Diff(msec, n)
  BY <1>3, DiffTurn
<1>7. Diff(n, msec) = d
  BY <1>1, <1>2, <1>4, <1>6
<1>8. Diff(msec, n) = -d
  BY <1>1, <1>2, <1>5, <1>6
<1> QED BY <1>3, <1>7, <1>8 DEF n

\* The opposite of a difference that is less than half of the words.
LEMMA DiffOpposite ==
  ASSUME NEW a \in Words, NEW b \in Words, 2 * Diff(b, a) > -Modulus
  PROVE  Diff(a, b) = -Diff(b, a)
<1> DEFINE M == Modulus x == Diff(a, b) y == Diff(b, a)
<1>1. /\ M \in Nat /\ M > 0 /\ a \in Int /\ b \in Int /\ x \in Int /\ y \in Int
      /\ 2 * x < M /\ -M <= 2 * x /\ 2 * y < M /\ -M < 2 * y
  BY RangeAssumption, DiffTurn DEF Words
<1>2. \E k \in {-1, 0, 1} : x = a - b + k * M
  BY DiffTurn
<1>3. \E k \in {-1, 0, 1} : y = b - a + k * M
  BY DiffTurn
<1> HIDE DEF M, x, y
<1>4. x \in {a - b - M, a - b, a - b + M} /\ y \in {b - a - M, b - a, b - a + M}
  BY <1>1, <1>2, <1>3
<1>5. x = -y
  BY <1>1, <1>4
<1> QED BY <1>5 DEF x, y

-----------------------------------------------------------------------------
(* The search for the next timer *)

\* A set of natural numbers has a least one.
LEMMA LeastNatural ==
  ASSUME NEW T \in SUBSET Nat, T # {}
  PROVE  \E x \in T : \A y \in T : x <= y
<1>1. PICK x \in T : \A y \in T : ~(<<y, x>> \in OpToRel(<, Nat))
  BY NatLessThanWellFounded, WFMin
<1>2. ASSUME NEW y \in T PROVE x <= y
  <2>1. ~(y < x)
    BY <1>1 DEF OpToRel
  <2> QED BY <2>1
<1> QED BY <1>2

\* ngx_rbtree_min finds a timer if one is set, and none has less left than the one it finds.
LEMMA LeastIsFirst ==
  ASSUME TimersInv
  PROVE  /\ (\E e \in Events : timerSet[e]) => Least # {}
         /\ \A e \in Least : timerSet[e] /\ \A f \in Events : timerSet[f] => Rem(e) <= Rem(f)
<1> DEFINE On == {e \in Events : timerSet[e]}
<1>1. \A e \in On : key[e] \in Words /\ msec \in Words /\ Rem(e) \in (-MaxLag) .. MaxTime
  BY DEF TimersInv, TimersTypeOK, Words
<1>2. ASSUME NEW e \in On, NEW f \in On
      PROVE  Diff(key[e], key[f]) = Rem(e) - Rem(f)
  <2>1. /\ Rem(e) \in Int /\ Rem(f) \in Int /\ -MaxLag <= Rem(e) /\ Rem(e) <= MaxTime
        /\ -MaxLag <= Rem(f) /\ Rem(f) <= MaxTime
    BY <1>1, RangeAssumption
  <2>2. Diff(msec, key[f]) = -Rem(f)
    <3>1. 2 * Diff(key[f], msec) > -Modulus
      BY <2>1, RangeAssumption DEF Rem
    <3> QED BY <1>1, <3>1, DiffOpposite DEF Rem
  <2>3. 2 * (Rem(e) + -Rem(f)) < Modulus /\ -Modulus <= 2 * (Rem(e) + -Rem(f))
    BY <2>1, RangeAssumption
  <2>4. Diff(key[e], key[f]) = Rem(e) + -Rem(f)
    BY <1>1, <2>2, <2>3, DiffAdds DEF Rem
  <2> QED BY <2>1, <2>4
<1>3. ASSUME NEW e \in Least, NEW f \in Events, timerSet[f] PROVE Rem(e) <= Rem(f)
  <2>1. e \in On /\ f \in On /\ Diff(key[e], key[f]) <= 0
    BY <1>3 DEF Least
  <2> QED BY <1>1, <1>2, <2>1, RangeAssumption
<1>4. ASSUME NEW o \in On PROVE Least # {}
  <2> DEFINE T == {Rem(e) + MaxLag : e \in On}
  <2>1. T \in SUBSET Nat /\ T # {}
    BY <1>1, RangeAssumption
  <2>2. PICK x \in T : \A y \in T : x <= y
    BY <2>1, LeastNatural
  <2>3. PICK e \in On : x = Rem(e) + MaxLag
    OBVIOUS
  <2>4. ASSUME NEW f \in On PROVE Diff(key[e], key[f]) <= 0
    <3>1. Rem(e) + MaxLag <= Rem(f) + MaxLag
      BY <2>2, <2>3
    <3> QED BY <1>1, <1>2, <3>1, RangeAssumption
  <2> QED BY <2>4 DEF Least
<1> QED BY <1>3, <1>4 DEF Least

-----------------------------------------------------------------------------
(* The steps *)

\* The tree starts empty.
LEMMA TimersInitInv == TimersInit => TimersInv
<1> SUFFICES ASSUME TimersInit PROVE TimersInv
  OBVIOUS
<1>1. msec \in Words /\ 0 \in Words /\ 0 \in (-1) .. MaxTime
  BY RangeAssumption DEF TimersInit, Words
<1> QED BY <1>1 DEF TimersInit, TimersInv, TimersTypeOK, Words

\* A timer armed anew gets the time asked for, or keeps a key less than the laziness away from it.
LEMMA AddStep == ASSUME TimersInv, AddTimer PROVE TimersInv'
<1> PICK e \in Events, t \in 1 .. MaxTime :
      LET new == Advanced(t) IN
      /\ key' = IF timerSet[e] /\ KeepsOld(Diff(new, key[e])) THEN key
                ELSE [key EXCEPT ![e] = new]
      /\ timerSet' = [timerSet EXCEPT ![e] = TRUE]
      /\ left' = [left EXCEPT ![e] = t]
  BY DEF AddTimer
<1> DEFINE new == Advanced(t)
<1>1. /\ msec' = msec /\ tphase' = tphase /\ wait' = wait /\ tphase # "sleep"
      /\ t \in Nat /\ t >= 1 /\ t <= MaxTime /\ 2 * t < Modulus
  BY RangeAssumption DEF AddTimer
<1>2. /\ msec \in Words /\ key \in [Events -> Words] /\ left \in [Events -> Int]
      /\ timerSet \in [Events -> BOOLEAN]
  BY DEF TimersInv, TimersTypeOK, Words
<1>3. new \in Words /\ Diff(new, msec) = t
  BY <1>1, <1>2, AheadBySum
<1> HIDE DEF new
<1>4. key' \in [Events -> Words] /\ timerSet' \in [Events -> BOOLEAN] /\ left' \in [Events -> Int]
  BY <1>1, <1>2, <1>3 DEF new
<1>5. TimersTypeOK'
  BY <1>1, <1>4 DEF TimersInv, TimersTypeOK, Words
<1>6. ASSUME NEW f \in Events, timerSet'[f]
      PROVE  /\ Rem(f)' \in (-MaxLag) .. MaxTime
             /\ Rem(f)' - left'[f] < Lazy /\ left'[f] - Rem(f)' < Lazy
             /\ tphase \in {"unchanged", "posted"} => Rem(f)' > 0
  <2>1. CASE f # e
    <3>1. timerSet[f] /\ Rem(f)' = Rem(f) /\ left'[f] = left[f]
      BY <1>1, <1>2, <1>6, <2>1 DEF Rem
    <3> QED BY <3>1 DEF TimersInv
  <2>2. CASE f = e /\ timerSet[e] /\ KeepsOld(Diff(new, key[e]))
    <3>1. Rem(f)' = Rem(e) /\ left'[f] = t
      BY <1>1, <1>2, <2>2 DEF Rem, new
    <3>2. /\ Rem(e) \in (-MaxLag) .. MaxTime
          /\ tphase \in {"unchanged", "posted"} => Rem(e) > 0
      BY <2>2 DEF TimersInv
    <3>3. Rem(e) \in Int /\ -MaxLag <= Rem(e) /\ Rem(e) <= MaxTime
      BY <3>2, RangeAssumption
    <3>4. Diff(msec, key[e]) = -Rem(e)
      <4>1. 2 * Diff(key[e], msec) > -Modulus
        BY <3>3, RangeAssumption DEF Rem
      <4> QED BY <1>2, <4>1, DiffOpposite DEF Rem
    <3>5. 2 * (t + -Rem(e)) < Modulus /\ -Modulus <= 2 * (t + -Rem(e))
      BY <1>1, <3>3, RangeAssumption
    <3>6. Diff(new, key[e]) = t + -Rem(e)
      BY <1>2, <1>3, <3>4, <3>5, DiffAdds
    <3>7. t + -Rem(e) < Lazy /\ -(t + -Rem(e)) < Lazy
      BY <2>2, <3>6 DEF KeepsOld
    <3>8. Rem(e) - t < Lazy /\ t - Rem(e) < Lazy
      BY <1>1, <3>3, <3>7, RangeAssumption
    <3> QED BY <3>1, <3>2, <3>8
  <2>3. CASE f = e /\ ~(timerSet[e] /\ KeepsOld(Diff(new, key[e])))
    <3>1. Rem(f)' = t /\ left'[f] = t
      BY <1>1, <1>2, <1>3, <2>3 DEF Rem, new
    <3>2. t \in (-MaxLag) .. MaxTime /\ t - t < Lazy /\ t > 0
      BY <1>1, RangeAssumption
    <3> QED BY <3>1, <3>2
  <2> QED BY <2>1, <2>2, <2>3
<1> QED BY <1>1, <1>5, <1>6 DEF TimersInv

\* A timer that is deleted, by a handler or because it fires.
LEMMA DropStep ==
  ASSUME TimersInv, DelTimer \/ Expire
  PROVE  TimersInv'
<1>1. PICK e \in Events : /\ timerSet' = [timerSet EXCEPT ![e] = FALSE]
                          /\ key' = [key EXCEPT ![e] = 0] /\ left' = [left EXCEPT ![e] = 0]
                          /\ msec' = msec /\ tphase' = tphase /\ wait' = wait
  BY DEF DelTimer, Expire
<1>2. 0 \in Words
  BY RangeAssumption DEF Words
<1>3. TimersTypeOK'
  BY <1>1, <1>2 DEF TimersInv, TimersTypeOK, Words
<1>4. ASSUME NEW f \in Events, timerSet'[f]
      PROVE  timerSet[f] /\ Rem(f)' = Rem(f) /\ left'[f] = left[f]
  BY <1>1, <1>4 DEF TimersInv, TimersTypeOK, Rem
<1> QED BY <1>1, <1>3, <1>4 DEF TimersInv

\* The sleep ends with the first timer.
LEMMA SleepStep == ASSUME TimersInv, Sleep PROVE TimersInv'
<1>1. /\ tphase = "posted" /\ tphase' = "sleep" /\ wait' = FindTimer
      /\ UNCHANGED <<msec, key, timerSet, left>>
  BY DEF Sleep
<1>2. FindTimer \in (-1) .. MaxTime
      /\ \A e \in Events : timerSet[e] => FindTimer >= 0 /\ FindTimer <= Rem(e)
  <2>1. CASE Least = {}
    <3>1. FindTimer = -1 /\ ~\E e \in Events : timerSet[e]
      BY <2>1, LeastIsFirst DEF FindTimer
    <3> QED BY <3>1, RangeAssumption
  <2>2. CASE Least # {}
    <3> DEFINE c == CHOOSE e \in Least : TRUE
    <3>1. c \in Least
      BY <2>2
    <3> HIDE DEF c
    <3>2. c \in Events /\ timerSet[c] /\ \A f \in Events : timerSet[f] => Rem(c) <= Rem(f)
      BY <3>1, LeastIsFirst DEF Least
    <3>3. Rem(c) \in (-MaxLag) .. MaxTime /\ Rem(c) > 0
      BY <1>1, <3>2 DEF TimersInv
    <3>4. FindTimer = Rem(c)
      BY <2>2, <3>3 DEF FindTimer, Rem, c
    <3>5. Rem(c) \in (-1) .. MaxTime /\ Rem(c) >= 0
      BY <3>3, RangeAssumption
    <3> QED BY <3>2, <3>4, <3>5
  <2> QED BY <2>1, <2>2
<1>3. TimersTypeOK'
  BY <1>1, <1>2, RangeAssumption DEF TimersInv, TimersTypeOK
<1>4. ASSUME NEW f \in Events, timerSet'[f]
      PROVE  timerSet[f] /\ Rem(f)' = Rem(f) /\ left'[f] = left[f]
  BY <1>1, <1>4 DEF Rem
<1>5. \A f \in Events : timerSet[f] => Rem(f) > 0
  BY <1>1 DEF TimersInv
<1> QED BY <1>1, <1>2, <1>3, <1>4, <1>5 DEF TimersInv

\* The clock moves on by what was slept, late by MaxLag at most.
LEMMA WakeStep == ASSUME TimersInv, Wake PROVE TimersInv'
<1> PICK d \in 0 .. ((IF wait = -1 THEN MaxTime ELSE wait) + MaxLag) :
       /\ msec' = Advanced(d)
       /\ left' = [e \in Events |-> IF timerSet[e] THEN left[e] - d ELSE 0]
       /\ tphase' = IF d = 0 THEN "unchanged" ELSE "events"
  BY DEF Wake
<1>1. /\ tphase = "sleep" /\ key' = key /\ timerSet' = timerSet /\ wait' = wait
      /\ wait \in (-1) .. MaxTime
  BY DEF Wake, TimersInv
<1>2. /\ d \in Nat /\ d <= MaxTime + MaxLag /\ 2 * d < Modulus
      /\ wait # -1 => d <= wait + MaxLag
  BY <1>1, RangeAssumption
<1>3. /\ msec \in Words /\ key \in [Events -> Words] /\ left \in [Events -> Int]
      /\ timerSet \in [Events -> BOOLEAN]
  BY DEF TimersInv, TimersTypeOK, Words
<1>4. msec' \in Words /\ Diff(msec, msec') = -d
  BY <1>2, <1>3, AheadBySum
<1>5. left' \in [Events -> Int]
  BY <1>2, <1>3
<1>6. TimersTypeOK'
  BY <1>1, <1>3, <1>4, <1>5 DEF TimersInv, TimersTypeOK, Words
<1>7. ASSUME NEW f \in Events, timerSet[f]
      PROVE  /\ Rem(f)' = Rem(f) - d /\ left'[f] = left[f] - d
             /\ Rem(f) \in Int /\ Rem(f) > 0 /\ Rem(f) <= MaxTime /\ d <= Rem(f) + MaxLag
             /\ Rem(f) - left[f] < Lazy /\ left[f] - Rem(f) < Lazy /\ left[f] \in Int
  <2>1. /\ Rem(f) \in (-MaxLag) .. MaxTime /\ Rem(f) > 0 /\ wait >= 0 /\ wait <= Rem(f)
        /\ Rem(f) - left[f] < Lazy /\ left[f] - Rem(f) < Lazy
    BY <1>1, <1>7 DEF TimersInv
  <2>2. Rem(f) \in Int /\ Rem(f) <= MaxTime /\ d <= Rem(f) + MaxLag
    BY <1>1, <1>2, <2>1, RangeAssumption
  <2>3. 2 * (Rem(f) + -d) < Modulus /\ -Modulus <= 2 * (Rem(f) + -d)
    BY <1>2, <2>1, <2>2, RangeAssumption
  <2>4. Diff(key[f], msec') = Rem(f) + -d
    BY <1>3, <1>4, <2>3, DiffAdds DEF Rem
  <2>5. Rem(f)' = Rem(f) - d
    BY <1>1, <1>2, <2>2, <2>4 DEF Rem
  <2>6. left'[f] = left[f] - d
    BY <1>7
  <2> QED BY <1>3, <2>1, <2>2, <2>5, <2>6
<1>8. ASSUME NEW f \in Events, timerSet[f]
      PROVE  /\ Rem(f)' \in (-MaxLag) .. MaxTime
             /\ Rem(f)' - left'[f] < Lazy /\ left'[f] - Rem(f)' < Lazy
             /\ d = 0 => Rem(f)' > 0
  BY <1>2, <1>7, <1>8, RangeAssumption
<1>9. tphase' = "events" \/ (tphase' = "unchanged" /\ d = 0)
  OBVIOUS
<1> QED BY <1>1, <1>6, <1>8, <1>9 DEF TimersInv

\* After the expiry no timer is due.
LEMMA PhaseStep ==
  ASSUME TimersInv, BatchHandled \/ ExpireDone
  PROVE  TimersInv'
<1>1. UNCHANGED <<msec, key, timerSet, left, wait>>
  BY DEF BatchHandled, ExpireDone
<1>2. ASSUME NEW f \in Events
      PROVE  Rem(f)' = Rem(f) /\ left'[f] = left[f] /\ timerSet'[f] = timerSet[f]
  BY <1>1 DEF Rem
<1>3. \/ tphase = "events" /\ tphase' = "expire"
      \/ tphase = "unchanged" /\ tphase' = "posted"
      \/ tphase = "expire" /\ tphase' = "posted" /\ ExpireDone
  BY DEF BatchHandled, ExpireDone
<1>4. ASSUME ExpireDone, NEW f \in Events, timerSet[f] PROVE Rem(f) > 0
  <2>1. PICK e \in Least : TRUE
    BY <1>4, LeastIsFirst
  <2>2. e \in Events /\ timerSet[e] /\ Rem(e) <= Rem(f)
    BY <1>4, <2>1, LeastIsFirst DEF Least
  <2>3. ~(Rem(e) <= 0)
    BY <1>4, <2>1, <2>2 DEF ExpireDone, Due, Rem
  <2>4. Rem(e) \in Int /\ Rem(f) \in Int
    BY <1>4, <2>2, RangeAssumption DEF TimersInv
  <2> QED BY <2>2, <2>3, <2>4
<1>5. TimersTypeOK'
  BY <1>1, <1>3 DEF TimersInv, TimersTypeOK
<1>6. \A f \in Events : timerSet'[f] => (tphase' \in {"unchanged", "posted", "sleep"} => Rem(f) > 0)
  BY <1>2, <1>3, <1>4 DEF TimersInv
<1>7. tphase' # "sleep" /\ wait' = wait
  BY <1>1, <1>3
<1> QED BY <1>2, <1>5, <1>6, <1>7 DEF TimersInv

\* The invariant bounds what the laziness and the late return of epoll_wait() can do.
LEMMA InTime == TimersInv => TimersTypeOK /\ LazinessBounded /\ NeverForgotten
<1> SUFFICES ASSUME TimersInv PROVE TimersTypeOK /\ LazinessBounded /\ NeverForgotten
  OBVIOUS
<1>1. ASSUME NEW e \in Events, timerSet[e]
      PROVE  /\ Diff(key[e], msec) - left[e] < Lazy /\ -(Diff(key[e], msec) - left[e]) < Lazy
             /\ left[e] > -(Lazy + MaxLag)
  <2>1. /\ Rem(e) \in (-MaxLag) .. MaxTime /\ left[e] \in Int
        /\ Rem(e) - left[e] < Lazy /\ left[e] - Rem(e) < Lazy
    BY <1>1 DEF TimersInv, TimersTypeOK
  <2>2. Rem(e) \in Int /\ -MaxLag <= Rem(e)
    BY <2>1, RangeAssumption
  <2> QED BY <2>1, <2>2, RangeAssumption DEF Rem
<1> QED BY <1>1 DEF TimersInv, LazinessBounded, NeverForgotten

\* ngx_event_expire_timers fires a timer that is due, and in order, up to the laziness.
LEMMA InOrder == ASSUME TimersInv PROVE FiresInOrder
<1> SUFFICES ASSUME Expire, NEW e \in Events, timerSet[e], ~timerSet'[e]
             PROVE  /\ left[e] < Lazy
                    /\ \A f \in Events : timerSet[f] => left[f] > left[e] - 2 * Lazy
  BY DEF FiresInOrder
<1>1. e \in Least /\ Rem(e) <= 0
  BY DEF Expire, TimersInv, TimersTypeOK, Due, Rem
<1>2. \A f \in Events : timerSet[f] =>
        /\ Rem(f) \in Int /\ left[f] \in Int /\ Rem(f) - left[f] < Lazy /\ left[f] - Rem(f) < Lazy
  BY RangeAssumption DEF TimersInv, TimersTypeOK
<1>3. \A f \in Events : timerSet[f] => Rem(e) <= Rem(f)
  BY <1>1, LeastIsFirst
<1> QED BY <1>1, <1>2, <1>3, RangeAssumption

\* For any events, words, laziness, timer lengths and delays that fit in half of the words: no
\* timer is forgotten, none fires early by more than the laziness, and they fire in order up to it
\* (ngx_event_add_timer, ngx_event_find_timer and ngx_event_expire_timers).
THEOREM TimersKept == TimersSpec => TimersInTime
<1>1. TimersInv /\ [TimersNext]_timerVars =>
        TimersInv' /\ [TimersTypeOK' /\ LazinessBounded' /\ NeverForgotten' /\ FiresInOrder]_timerVars
  <2> SUFFICES ASSUME TimersInv, [TimersNext]_timerVars
               PROVE  /\ TimersInv'
                      /\ [TimersTypeOK' /\ LazinessBounded' /\ NeverForgotten' /\ FiresInOrder]_timerVars
    OBVIOUS
  <2>1. TimersInv'
    <3>1. CASE UNCHANGED timerVars
      BY <3>1 DEF timerVars, TimersInv, TimersTypeOK, Rem, Diff
    <3>2. CASE TimersNext
      BY <3>2, AddStep, DropStep, SleepStep, WakeStep, PhaseStep DEF TimersNext
    <3> QED BY <3>1, <3>2
  <2>2. (TimersTypeOK /\ LazinessBounded /\ NeverForgotten)'
    BY <2>1, InTime, PTL
  <2> QED BY <2>1, <2>2, InOrder
<1> QED BY TimersInitInv, <1>1, PTL DEF TimersSpec, TimersInTime

-----------------------------------------------------------------------------
(* Requests passed to upstream servers *)

Phases == {"idle", "connect", "declined", "send", "read", "open"}

\* the fields of a request
IsProxied(u) == DOMAIN u = DOMAIN NoProxied /\ u = [f \in DOMAIN NoProxied |-> u[f]]

\* A request waits with a timer; once the whole of it is with the server only for the response,
\* and a response that came later than that is in the hands of the handlers of its body.
Conversing(u) ==
  /\ u.phase \in Phases
  /\ u.phase = "open" => u.wtimer \/ u.rtimer
  /\ u.phase = "read" => u.rtimer
  /\ u.phase \in {"read", "open"} /\ u.whole => ~u.wtimer
  /\ u.phase = "send" => ~u.whole
  /\ u.headed /\ ~u.early => u.phase = "open" /\ u.rh = "body" /\ u.whole

ConversationInv ==
  /\ proxied = [r \in Proxied |-> proxied[r]]
  /\ \A r \in Proxied : IsProxied(proxied[r]) /\ Conversing(proxied[r])

\* A step that changes one request, and leaves it as the invariant says, keeps the invariant.
LEMMA NowKept ==
  ASSUME ConversationInv, NEW r \in Proxied, NEW u, IsProxied(u), Conversing(u), Now(r, u)
  PROVE  ConversationInv'
BY DEF ConversationInv, Now

\* No request is in the upstream module at first.
LEMMA NoProxiedKept == IsProxied(NoProxied) /\ Conversing(NoProxied)
BY DEF NoProxied, IsProxied, Conversing, Phases

\* The choice of a server is no matter of the conversation.
LEMMA SearchKept ==
  ASSUME NEW u, IsProxied(u)
  PROVE  LET v == GetRoundRobinPeer(u).u IN
           /\ IsProxied(v)
           /\ \A f \in {"phase", "whole", "headed", "rh", "wh", "wtimer", "rtimer", "early"} : v[f] = u[f]
<1>1. ASSUME NEW g, NEW e, NEW h, NEW s, NEW p
      PROVE  LET v == Outcome(u, g, e, h, s, p).u IN
               /\ IsProxied(v)
               /\ \A f \in {"phase", "whole", "headed", "rh", "wh", "wtimer", "rtimer", "early"} : v[f] = u[f]
  BY ZenonT(40) DEF Outcome, IsProxied, NoProxied
<1> QED BY <1>1 DEF GetRoundRobinPeer, Searched, WithBackup

\* What is forgotten of the failures of the servers is no matter of the conversation either.
LEMMA AmnestyKept ==
  ASSUME ConversationInv, NEW x, \A r \in Proxied : x[r] \in {proxied[r], NoProxied}, proxied' = Amnesty(x)
  PROVE  ConversationInv'
<1> SUFFICES ASSUME NEW r \in Proxied PROVE IsProxied(proxied'[r]) /\ Conversing(proxied'[r])
  BY DEF ConversationInv, Amnesty
<1>1. IsProxied(x[r]) /\ Conversing(x[r])
  BY NoProxiedKept DEF ConversationInv
<1>2. proxied'[r] \in {x[r], [x[r] EXCEPT !.amnesty = TRUE]}
  BY DEF Amnesty
<1>3. IsProxied([x[r] EXCEPT !.amnesty = TRUE]) /\ Conversing([x[r] EXCEPT !.amnesty = TRUE])
  BY <1>1 DEF IsProxied, Conversing, NoProxied
<1> QED BY <1>1, <1>2, <1>3

\* ngx_http_upstream_next: the next server is asked without timers, or the request is over.
LEMMA NextServerKept ==
  ASSUME ConversationInv, NEW r \in Proxied, NEW type, NextServer(r, type),
         ~(proxied[r].headed /\ ~proxied[r].early)
  PROVE  ConversationInv'
<1> DEFINE u == [FreePeer(proxied[r]) EXCEPT !.missed = @ \/ type = "http_404"]
           v == [u EXCEPT !.phase = "connect", !.wtimer = FALSE, !.rtimer = FALSE]
<1>1. IsProxied(proxied[r])
  BY DEF ConversationInv
<1>2. IsProxied(u) /\ u.headed = proxied[r].headed /\ u.early = proxied[r].early
  <2> DEFINE w == FreePeer(proxied[r])
  <2>1. IsProxied(w) /\ w.headed = proxied[r].headed /\ w.early = proxied[r].early
    BY ZenonT(40), <1>1 DEF FreePeer, IsProxied, NoProxied
  <2>2. ASSUME NEW b
        PROVE  /\ IsProxied([w EXCEPT !.missed = b])
               /\ [w EXCEPT !.missed = b].headed = w.headed /\ [w EXCEPT !.missed = b].early = w.early
    <3> HIDE DEF w
    <3> QED BY <2>1 DEF IsProxied, NoProxied
  <2> HIDE DEF w
  <2> QED BY ZenonT(40), <2>1, <2>2 DEF w
<1>3. IsProxied(v) /\ Conversing(v)
  <2> HIDE DEF u
  <2> QED BY <1>2 DEF IsProxied, Conversing, NoProxied, Phases
<1>4. Now(r, v) \/ Now(r, NoProxied)
  BY DEF NextServer
<1> QED BY <1>3, <1>4, NoProxiedKept, NowKept

\* ngx_http_upstream_connect: with a new server the conversation begins anew.
LEMMA ConnectKept ==
  ASSUME ConversationInv, NEW r \in Proxied, NEW rc, Connect(r, rc)
  PROVE  ConversationInv'
<1>1. PICK o \in {GetRoundRobinPeer(proxied[r])} :
        LET u == Noted(o.u, o.u.group, o.u.current)
            v == [u EXCEPT !.whole = FALSE, !.rh = "header", !.wh = "send", !.rtimer = FALSE]
        IN  \/ proxied' = Amnesty([proxied EXCEPT ![r] = NoProxied])
            \/ Now(r, NoProxied)
            \/ Now(r, [u EXCEPT !.phase = "declined"])
            \/ Now(r, Waits([v EXCEPT !.wtimer = TRUE]))
            \/ Now(r, [v EXCEPT !.phase = "send", !.wtimer = FALSE])
  BY DEF Connect
<1> DEFINE u == Noted(o.u, o.u.group, o.u.current)
           v == [u EXCEPT !.whole = FALSE, !.rh = "header", !.wh = "send", !.rtimer = FALSE]
<1>2. IsProxied(proxied[r]) /\ ~(proxied[r].headed /\ ~proxied[r].early)
  BY DEF ConversationInv, Connect, Conversing
<1>3. /\ IsProxied(o.u)
      /\ o.u.headed = proxied[r].headed /\ o.u.early = proxied[r].early
  BY <1>2, SearchKept
<1>4. IsProxied(u) /\ ~(u.headed /\ ~u.early)
  BY <1>2, <1>3 DEF Noted, IsProxied, NoProxied
<1>5. CASE proxied' = Amnesty([proxied EXCEPT ![r] = NoProxied])
  <2> DEFINE x == [proxied EXCEPT ![r] = NoProxied]
  <2>1. \A s \in Proxied : x[s] \in {proxied[s], NoProxied}
    BY DEF ConversationInv
  <2>2. proxied' = Amnesty(x)
    BY <1>5
  <2> HIDE DEF x
  <2> QED BY <2>1, <2>2, AmnestyKept
<1>6. IsProxied([u EXCEPT !.phase = "declined"]) /\ Conversing([u EXCEPT !.phase = "declined"])
  <2> HIDE DEF u
  <2> QED BY <1>4 DEF IsProxied, Conversing, NoProxied, Phases
<1>7. IsProxied(v) /\ ~(v.headed /\ ~v.early) /\ ~v.whole
  <2> HIDE DEF u
  <2> QED BY <1>4 DEF IsProxied, NoProxied
<1>8. /\ IsProxied([v EXCEPT !.phase = "send", !.wtimer = FALSE])
      /\ Conversing([v EXCEPT !.phase = "send", !.wtimer = FALSE])
  <2> HIDE DEF v
  <2> QED BY <1>7 DEF IsProxied, Conversing, NoProxied, Phases
<1>9. IsProxied(Waits([v EXCEPT !.wtimer = TRUE])) /\ Conversing(Waits([v EXCEPT !.wtimer = TRUE]))
  <2> HIDE DEF v
  <2> QED BY <1>7 DEF IsProxied, Conversing, NoProxied, Phases, Waits
<1> QED BY <1>1, <1>5, <1>6, <1>8, <1>9, NoProxiedKept, NowKept

\* ngx_http_upstream_send_request: once the request is sent only the response is waited for.
LEMMA SendKept ==
  ASSUME ConversationInv, NEW r \in Proxied, NEW rc, SendRequest(r, rc)
  PROVE  ConversationInv'
<1>1. /\ IsProxied(proxied[r]) /\ Conversing(proxied[r])
      /\ ~(proxied[r].headed /\ ~proxied[r].early)
  BY DEF ConversationInv, SendRequest, Conversing, Runs
<1>2. CASE NextServer(r, "error")
  BY <1>1, <1>2, NextServerKept
<1>3. CASE ~proxied[r].whole /\ Now(r, Waits([proxied[r] EXCEPT !.wtimer = TRUE]))
  <2>1. /\ IsProxied(Waits([proxied[r] EXCEPT !.wtimer = TRUE]))
        /\ Conversing(Waits([proxied[r] EXCEPT !.wtimer = TRUE]))
    BY <1>1, <1>3 DEF IsProxied, Conversing, NoProxied, Phases, Waits
  <2> QED BY <1>3, <2>1, NowKept
<1>4. CASE \/ Now(r, [AwaitsResponse(proxied[r]) EXCEPT !.phase = "read"])
           \/ Now(r, Waits([AwaitsResponse(proxied[r]) EXCEPT !.wh = "dummy"]))
  <2>1. /\ IsProxied([AwaitsResponse(proxied[r]) EXCEPT !.phase = "read"])
        /\ Conversing([AwaitsResponse(proxied[r]) EXCEPT !.phase = "read"])
        /\ IsProxied(Waits([AwaitsResponse(proxied[r]) EXCEPT !.wh = "dummy"]))
        /\ Conversing(Waits([AwaitsResponse(proxied[r]) EXCEPT !.wh = "dummy"]))
    BY ZenonT(40), <1>1 DEF IsProxied, Conversing, NoProxied, Phases, Waits, AwaitsResponse
  <2> QED BY <1>4, <2>1, NowKept
<1> QED BY <1>2, <1>3, <1>4 DEF SendRequest

\* ngx_http_upstream_process_header: a response is passed on once, by the handlers of the body.
LEMMA HeaderKept ==
  ASSUME ConversationInv, NEW r \in Proxied, NEW rc, ProcessHeader(r, rc)
  PROVE  ConversationInv'
<1>1. /\ IsProxied(proxied[r]) /\ Conversing(proxied[r])
      /\ ~(proxied[r].headed /\ ~proxied[r].early)
      /\ proxied[r].phase \in {"read", "open"}
  BY DEF ConversationInv, ProcessHeader, Conversing, Runs
<1>2. CASE \E type : NextServer(r, type)
  BY <1>1, <1>2, NextServerKept
<1>3. CASE Now(r, Waits(proxied[r]))
  <2>1. IsProxied(Waits(proxied[r])) /\ Conversing(Waits(proxied[r]))
    BY <1>1 DEF IsProxied, Conversing, NoProxied, Phases, Waits
  <2> QED BY <1>3, <2>1, NowKept
<1>4. CASE Now(r, Response(proxied[r]))
  <2>1. IsProxied(Response(proxied[r])) /\ Conversing(Response(proxied[r]))
    BY ZenonT(40), <1>1 DEF IsProxied, Conversing, NoProxied, Phases, Waits, Response
  <2> QED BY <1>4, <2>1, NowKept
<1>5. CASE Finalize(r)
  BY <1>5, NoProxiedKept, NowKept DEF Finalize
<1> QED BY <1>2, <1>3, <1>4, <1>5 DEF ProcessHeader

\* The timers, the handlers of the body and the client: each ends the conversation, or asks the
\* next server as long as no response was passed on.
LEMMA OtherKept ==
  ASSUME ConversationInv, NEW r \in Proxied,
         \/ Start(r) \/ Declined(r) \/ WriteTimedOut(r) \/ WriteNoMore(r)
         \/ ReadTimedOut(r) \/ BodyEnds(r) \/ ClientGone(r)
  PROVE  ConversationInv'
<1>1. IsProxied(proxied[r]) /\ Conversing(proxied[r])
  BY DEF ConversationInv
<1>2. CASE Start(r)
  <2> DEFINE u == [NoProxied EXCEPT !.phase = "connect", !.tries = Number(1)]
  <2>1. IsProxied(u) /\ Conversing(u)
    BY DEF IsProxied, Conversing, NoProxied, Phases
  <2> QED BY <1>2, <2>1, NowKept DEF Start
<1>3. CASE Declined(r) \/ WriteTimedOut(r) \/ ReadTimedOut(r)
  BY <1>1, <1>3, NextServerKept DEF Declined, WriteTimedOut, ReadTimedOut, Conversing
<1>4. CASE WriteNoMore(r)
  <2>1. /\ IsProxied([proxied[r] EXCEPT !.wh = "dummy"])
        /\ Conversing([proxied[r] EXCEPT !.wh = "dummy"])
    BY <1>1 DEF IsProxied, Conversing, NoProxied
  <2> QED BY <1>4, <2>1, NowKept DEF WriteNoMore
<1>5. CASE Finalize(r)
  BY <1>5, NoProxiedKept, NowKept DEF Finalize
<1>6. CASE Now(r, [proxied[r] EXCEPT !.gone = TRUE])
  <2>1. IsProxied([proxied[r] EXCEPT !.gone = TRUE]) /\ Conversing([proxied[r] EXCEPT !.gone = TRUE])
    BY <1>1 DEF IsProxied, Conversing, NoProxied
  <2> QED BY <1>6, <2>1, NowKept
<1> QED BY <1>2, <1>3, <1>4, <1>5, <1>6 DEF BodyEnds, ClientGone

\* For any servers, any number of requests and any proxy_next_upstream: a request that waits for a
\* server has a timer, and no other server is asked once a response to the whole request was passed
\* to the client (ngx_http_upstream_connect, ngx_http_upstream_send_request,
\* ngx_http_upstream_process_header, ngx_http_upstream_next).
THEOREM OneConversation == UpstreamSpec => []ConversationKept
<1>1. UpstreamInit => ConversationInv
  BY NoProxiedKept DEF UpstreamInit, ConversationInv
<1>2. ConversationInv /\ [UpstreamNext]_upstreamVars => ConversationInv'
  <2> SUFFICES ASSUME ConversationInv, [UpstreamNext]_upstreamVars PROVE ConversationInv'
    OBVIOUS
  <2>1. CASE UNCHANGED upstreamVars
    BY <2>1 DEF upstreamVars, ConversationInv
  <2>2. ASSUME NEW g, NEW i, TimePasses(g, i) PROVE ConversationInv'
    BY <2>2, AmnestyKept DEF TimePasses
  <2> QED BY <2>1, <2>2, ConnectKept, SendKept, HeaderKept, OtherKept DEF UpstreamNext
<1>3. ConversationInv => ConversationKept
  BY DEF ConversationInv, Conversing, ConversationKept, OneResponse, AlwaysTimed
<1> QED BY <1>1, <1>2, <1>3, PTL DEF UpstreamSpec

-----------------------------------------------------------------------------
(* The resolver: the inductive invariant *)

RNode == [has : {"none", "query", "addr", "cname"}, valid : BOOLEAN, alias : Questions \cup {NoQuestion},
          id : Nat, waiting : Seq(Contexts), queue : {"none", "resend", "unsent", "expire"}]
RCtx == [name : Questions \cup {NoQuestion, FreedName}, from : Questions \cup {NoQuestion},
         timer : BOOLEAN, recursion : 0..MaxRecursion]

\* A context is on one list and once; a node that contexts wait on was asked for, and is in the queue
\* that frees nodes never.
NodesOK(n) ==
  /\ n \in [Questions -> RNode]
  /\ \A q \in Questions :
       /\ n[q].has = "cname" => n[q].alias \in Questions
       /\ n[q].waiting # <<>> => n[q].queue # "expire" /\ n[q].has # "none"
  /\ \A q \in Questions : IsInjective(n[q].waiting)
  /\ \A p, q \in Questions : p # q => ToSet(n[p].waiting) \cap ToSet(n[q].waiting) = {}

CtxsOK(x) ==
  /\ x \in [Contexts -> RCtx]
  /\ \A c \in Contexts : x[c].name = NoQuestion => x[c].from = NoQuestion

\* c waits on the node of its name, as long as that is known
Listed(n, x, c) == \E q \in Questions : c \in ToSet(n[q].waiting) /\ x[c].name \in {q, FreedName}

\* the contexts but those of `out' are not lost
AllListed(n, x, out) == \A c \in Contexts \ out : x[c].name # NoQuestion => Listed(n, x, c)

\* no list holds a freed context, but for those of `but'
NoneFreed(n, x, but) ==
  \A q \in Questions : \A c \in Contexts \ but : c \in ToSet(n[q].waiting) => x[c].name # NoQuestion

InQueues(n) == \A q \in Questions : n[q].has = "none" <=> n[q].queue = "none"

\* the books, given which contexts went astray or were left, but for the contexts of `out'
Books(n, x, m, out) ==
  /\ NodesOK(n) /\ CtxsOK(x) /\ InQueues(n)
  /\ AllListed(n, x, m.astray \cup out)
  /\ NoneFreed(n, x, m.astray \cup m.left)

Mishap == [astray : SUBSET Contexts, left : SUBSET Contexts]

ResolverInv ==
  /\ Books(rnode, rctx, mishap, {})
  /\ mishap \in Mishap
  /\ asked \in Nat /\ \A a \in answers : a.of \in Questions

-----------------------------------------------------------------------------
(* What is freed and called *)

\* The program is followed as long as no list holds a freed context.
LEMMA DefinedMeans == ASSUME NodesOK(rnode) PROVE Defined <=> NoneFreed(rnode, rctx, {})
BY DEF Defined, InUse, Used, NoneFreed, ToSet, NodesOK, RNode

\* Nodes that nobody waits on are freed, and no book is wrong after it.
LEMMA FreedKept ==
  ASSUME NEW n, NEW x, NodesOK(n), CtxsOK(x), NEW D \in SUBSET Questions,
         \A q \in D : n[q].waiting = <<>>
  PROVE  LET m == NodesFreed(n, D)  y == NameFreed(x, D) IN
         /\ NodesOK(m) /\ CtxsOK(y)
         /\ InQueues(n) => InQueues(m)
         /\ \A out : AllListed(n, x, out) => AllListed(m, y, out)
         /\ \A but : NoneFreed(n, x, but) => NoneFreed(m, y, but)
<1> DEFINE m == NodesFreed(n, D)  y == NameFreed(x, D)
<1>1. NoRNode \in RNode
  BY DEF NoRNode, RNode
<1>2. \A q \in Questions : m[q] = IF q \in D THEN NoRNode ELSE n[q]
  BY DEF NodesFreed
<1>3. \A q \in Questions : m[q].waiting = n[q].waiting
  BY <1>2 DEF NoRNode
<1>4. NodesOK(m)
  <2>1. m \in [Questions -> RNode]
    BY <1>1 DEF NodesFreed, NodesOK
  <2>2. ASSUME NEW q \in Questions
        PROVE  /\ m[q].has = "cname" => m[q].alias \in Questions
               /\ m[q].waiting # <<>> => m[q].queue # "expire" /\ m[q].has # "none"
    BY <1>2 DEF NodesOK, NoRNode
  <2> QED BY <1>3, <2>1, <2>2 DEF NodesOK
<1>5. \A c \in Contexts : /\ y[c] \in RCtx /\ y[c].from = x[c].from
                          /\ y[c].name = IF x[c].from \in D THEN FreedName ELSE x[c].name
  BY DEF NameFreed, CtxsOK, RCtx
<1>6. \A c \in Contexts : y[c].name = NoQuestion <=> x[c].name = NoQuestion
  BY <1>5, ResolverAssumption DEF CtxsOK, FreedName
<1>7. CtxsOK(y)
  BY <1>5, <1>6 DEF CtxsOK, NameFreed
<1>8. InQueues(n) => InQueues(m)
  BY <1>2 DEF InQueues, NoRNode
<1>9. ASSUME NEW out, AllListed(n, x, out) PROVE AllListed(m, y, out)
  BY <1>3, <1>5, <1>6, <1>9 DEF AllListed, Listed
<1>10. ASSUME NEW but, NoneFreed(n, x, but) PROVE NoneFreed(m, y, but)
  BY <1>3, <1>6, <1>10 DEF NoneFreed
<1> HIDE DEF m, y
<1> QED BY <1>4, <1>7, <1>8, <1>9, <1>10 DEF m, y

\* ngx_resolver_expire frees nodes of the queue that nobody waits on.
LEMMA ExpireKept ==
  ASSUME NEW n, NEW x, NEW m, Books(n, x, m, {}), NEW D \in SUBSET {q \in Questions : n[q].queue = "expire"}
  PROVE  Books(NodesFreed(n, D), NameFreed(x, D), m, {})
<1>1. NodesOK(n) /\ CtxsOK(x) /\ D \in SUBSET Questions /\ \A q \in D : n[q].waiting = <<>>
  BY DEF Books, NodesOK
<1> QED BY <1>1, FreedKept DEF Books

\* Contexts that are on no list, or went astray or were left, are called and finished.
LEMMA CalledSomeKept ==
  ASSUME NEW n, NEW x, NEW m, NEW cs, NEW out, Books(n, x, m, cs \cup out),
         \A q \in Questions : ToSet(n[q].waiting) \cap cs \subseteq m.astray \cup m.left
  PROVE  Books(n, Called(x, cs), m, out)
<1> DEFINE y == Called(x, cs)
<1>1. NoCtx \in RCtx /\ NoCtx.name = NoQuestion /\ NoCtx.from = NoQuestion
  BY ResolverAssumption DEF NoCtx, RCtx
<1>2. \A c \in Contexts : y[c] = IF c \in cs THEN NoCtx ELSE x[c]
  BY DEF Called
<1>3. CtxsOK(y)
  BY <1>1 DEF CtxsOK, Called, Books
<1> HIDE DEF y
<1>4. AllListed(n, y, m.astray \cup out)
  BY <1>1, <1>2 DEF AllListed, Listed, Books
<1>5. NoneFreed(n, y, m.astray \cup m.left)
  <2> SUFFICES ASSUME NEW q \in Questions, NEW c \in Contexts \ (m.astray \cup m.left), c \in ToSet(n[q].waiting)
               PROVE  y[c].name # NoQuestion
    BY DEF NoneFreed
  <2>1. c \notin cs
    OBVIOUS
  <2> QED BY <1>2, <2>1 DEF NoneFreed, Books
<1> QED BY <1>3, <1>4, <1>5 DEF Books, y

\* Contexts that are on no list are called and finished.
LEMMA CalledKept ==
  ASSUME NEW n, NEW x, NEW m, NEW cs, Books(n, x, m, cs),
         \A q \in Questions : ToSet(n[q].waiting) \cap cs = {}
  PROVE  Books(n, Called(x, cs), m, {})
<1>1. Books(n, x, m, cs \cup {})
  OBVIOUS
<1> QED BY <1>1, CalledSomeKept

-----------------------------------------------------------------------------
(* Lists that change *)

\* A node gets a list of contexts that are on no other.
LEMMA NodeKept ==
  ASSUME NEW n, NodesOK(n), NEW t \in Questions, NEW rn \in RNode,
         rn.has = "cname" => rn.alias \in Questions,
         rn.waiting # <<>> => rn.queue # "expire" /\ rn.has # "none",
         IsInjective(rn.waiting), \A q \in Questions \ {t} : ToSet(n[q].waiting) \cap ToSet(rn.waiting) = {}
  PROVE  LET o == [n EXCEPT ![t] = rn] IN
         /\ NodesOK(o) /\ o[t] = rn /\ \A q \in Questions \ {t} : o[q] = n[q]
         /\ InQueues(n) /\ (rn.has = "none" <=> rn.queue = "none") => InQueues(o)
<1> DEFINE o == [n EXCEPT ![t] = rn]
<1>1. o \in [Questions -> RNode] /\ \A q \in Questions : o[q] = IF q = t THEN rn ELSE n[q]
  BY DEF NodesOK
<1>2. \A p, q \in Questions : p # q => ToSet(o[p].waiting) \cap ToSet(o[q].waiting) = {}
  <2> SUFFICES ASSUME NEW p \in Questions, NEW q \in Questions, p # q
               PROVE  ToSet(o[p].waiting) \cap ToSet(o[q].waiting) = {}
    OBVIOUS
  <2>1. CASE p = t
    BY <1>1, <2>1
  <2>2. CASE q = t
    BY <1>1, <2>2
  <2>3. CASE p # t /\ q # t
    BY <1>1, <2>3 DEF NodesOK
  <2> QED BY <2>1, <2>2, <2>3
<1>3. NodesOK(o)
  BY <1>1, <1>2 DEF NodesOK
<1>4. InQueues(n) /\ (rn.has = "none" <=> rn.queue = "none") => InQueues(o)
  BY <1>1 DEF InQueues
<1> QED BY <1>1, <1>3, <1>4

\* An answer empties a list: its contexts are on no list then, and the others where they were.
LEMMA EmptiedKept ==
  ASSUME NEW n, NEW x, NEW m, Books(n, x, m, {}), NEW a \in Questions, NEW rn \in RNode,
         rn.has = "cname" => rn.alias \in Questions,
         rn.waiting = <<>>, rn.has = "none" <=> rn.queue = "none"
  PROVE  LET o == [n EXCEPT ![a] = rn]  w == n[a].waiting IN
         /\ Books(o, x, m, ToSet(w)) /\ o[a] = rn
         /\ \A q \in Questions : ToSet(o[q].waiting) \cap ToSet(w) = {}
<1> DEFINE o == [n EXCEPT ![a] = rn]  w == n[a].waiting
<1>1. ToSet(<<>>) = {} /\ IsInjective(<<>>)
  BY DEF ToSet, IsInjective
<1>2. NodesOK(n)
  BY DEF Books
<1>3. /\ NodesOK(o) /\ o[a] = rn /\ \A q \in Questions \ {a} : o[q] = n[q]
      /\ InQueues(n) => InQueues(o)
  BY <1>1, <1>2, NodeKept
<1>4. \A q \in Questions : ToSet(o[q].waiting) \cap ToSet(w) = {}
  BY <1>1, <1>2, <1>3 DEF NodesOK
<1>5. AllListed(o, x, m.astray \cup ToSet(w))
  <2> SUFFICES ASSUME NEW c \in Contexts \ (m.astray \cup ToSet(w)), x[c].name # NoQuestion
               PROVE  Listed(o, x, c)
    BY DEF AllListed
  <2>1. PICK q \in Questions : c \in ToSet(n[q].waiting) /\ x[c].name \in {q, FreedName}
    BY DEF AllListed, Listed, Books
  <2> QED BY <1>3, <2>1 DEF Listed
<1>6. NoneFreed(o, x, m.astray \cup m.left)
  BY <1>1, <1>3 DEF NoneFreed, Books
<1> HIDE DEF o
<1>7. Books(o, x, m, ToSet(w))
  BY <1>3, <1>5, <1>6 DEF Books
<1> QED BY <1>3, <1>4, <1>7 DEF o

-----------------------------------------------------------------------------
(* Where a name leads *)

\* the name one CNAME further
Next1(n, q) == IF IsAlias(n, q) THEN n[q].alias ELSE q

\* f follows i CNAMEs from q
Follows(n, q, f, k) == f \in [0..k -> Questions] /\ f[0] = q /\ \A i \in 1..k : f[i] = Next1(n, f[i - 1])

\* CNAMEs can be followed any number of times.
LEMMA FollowsExists ==
  ASSUME NEW n, NodesOK(n), NEW q \in Questions, NEW k \in Nat
  PROVE  \E f : Follows(n, q, f, k)
<1> DEFINE T == {j \in Nat : ~\E f : Follows(n, q, f, j)}
<1> SUFFICES ASSUME T # {} PROVE FALSE
  OBVIOUS
<1>1. PICK j \in T : \A i \in T : j <= i
  BY LeastNatural
<1>2. j # 0
  <2>1. Follows(n, q, [i \in 0..0 |-> q], 0)
    BY DEF Follows
  <2> QED BY <2>1
<1>3. j - 1 \in Nat /\ j - 1 \notin T
  BY <1>1, <1>2
<1>4. PICK f : Follows(n, q, f, j - 1)
  BY <1>3
<1> DEFINE g == [i \in 0..j |-> IF i = j THEN Next1(n, f[j - 1]) ELSE f[i]]
<1>5. f[j - 1] \in Questions
  BY <1>3, <1>4 DEF Follows
<1>6. Next1(n, f[j - 1]) \in Questions
  BY <1>5 DEF Next1, NodesOK, IsAlias
<1>7. g \in [0..j -> Questions]
  BY <1>3, <1>4, <1>6 DEF Follows
<1>8. g[0] = q
  BY <1>2, <1>4 DEF Follows
<1>9. ASSUME NEW i \in 1..j PROVE g[i] = Next1(n, g[i - 1])
  <2>1. CASE i = j
    BY <1>3, <2>1
  <2>2. CASE i # j
    <3>1. i \in 1..(j - 1) /\ i - 1 \in 0..j /\ i - 1 # j /\ i \in 0..j
      BY <1>1, <2>2
    <3>2. g[i] = f[i] /\ g[i - 1] = f[i - 1]
      BY <2>2, <3>1
    <3> HIDE DEF g
    <3> QED BY <1>4, <3>1, <3>2 DEF Follows
  <2> QED BY <2>1, <2>2
<1> HIDE DEF g
<1>10. Follows(n, q, g, j)
  BY <1>7, <1>8, <1>9 DEF Follows
<1> QED BY <1>1, <1>10

\* Each of the names that cached CNAMEs lead to is a question.
LEMMA LeadFollows ==
  ASSUME NEW n, NodesOK(n), NEW q \in Questions
  PROVE  \A i \in 0..MaxRecursion : Lead(n, q)[i] \in Questions
<1> DEFINE F(f) == [i \in 0..MaxRecursion |->
                      IF i = 0 THEN q ELSE IF IsAlias(n, f[i - 1]) THEN n[f[i - 1]].alias ELSE f[i - 1]]
<1>1. MaxRecursion \in Nat
  BY ResolverAssumption
<1>2. PICK g : Follows(n, q, g, MaxRecursion)
  BY <1>1, FollowsExists
<1>3. g = F(g)
  BY <1>1, <1>2 DEF Follows, Next1
<1> DEFINE f == Lead(n, q)
<1>4. f = F(f)
  BY <1>3 DEF Lead
<1> HIDE DEF f
<1> DEFINE T == {i \in 0..MaxRecursion : f[i] \notin Questions}
<1>5. ASSUME T # {} PROVE FALSE
  <2>1. PICK j \in T : \A i \in T : j <= i
    <3>1. T \in SUBSET Nat
      BY <1>1
    <3> QED BY <1>5, <3>1, LeastNatural
  <2>2. j # 0
    BY <1>4, <2>1
  <2>3. j - 1 \in 0..MaxRecursion /\ j - 1 \notin T
    BY <1>1, <2>1, <2>2
  <2>4. f[j] = IF IsAlias(n, f[j - 1]) THEN n[f[j - 1]].alias ELSE f[j - 1]
    BY <1>4, <2>1, <2>2
  <2> QED BY <2>1, <2>3, <2>4 DEF IsAlias, NodesOK
<1> QED BY <1>5 DEF f

\* A context takes no more steps than it may.
LEMMA StepsBounded ==
  ASSUME NEW n, NEW q, NEW most \in Nat
  PROVE  StepsFrom(n, q, most) \in 0..most
<1> DEFINE T == {most} \cup {i \in 0..most : ~IsAlias(n, Lead(n, q)[i])}
<1>1. T \in SUBSET Nat /\ T # {} /\ T \in SUBSET (0..most)
  OBVIOUS
<1>2. PICK j \in T : \A i \in T : j <= i
  BY <1>1, LeastNatural
<1>3. StepsFrom(n, q, most) = CHOOSE i \in T : \A k \in T : i <= k
  BY DEF StepsFrom, Min
<1> HIDE DEF T
<1>4. (CHOOSE i \in T : \A k \in T : i <= k) \in T
  BY <1>2
<1> QED BY <1>1, <1>3, <1>4

\* the context c, after it followed k CNAMEs
Moved(n, x, c, q, k) ==
  [x[c] EXCEPT !.name = Lead(n, q)[k], !.from = IF k = 0 THEN x[c].from ELSE Lead(n, q)[k - 1],
               !.recursion = @ + k]

\* A context that is on no list may move: its name is a question then.
LEMMA MovedKept ==
  ASSUME NEW n, NEW x, NEW m, NEW c \in Contexts, NEW q \in Questions, NEW out, Books(n, x, m, out), c \in out,
         NEW k \in 0..(MaxRecursion - x[c].recursion)
  PROVE  Books(n, [x EXCEPT ![c] = Moved(n, x, c, q, k)], m, out) /\ Lead(n, q)[k] \in Questions
<1> DEFINE y == [x EXCEPT ![c] = Moved(n, x, c, q, k)]  t == Lead(n, q)[k]
<1>1. x \in [Contexts -> RCtx] /\ x[c] \in RCtx /\ x[c].recursion \in 0..MaxRecursion /\ MaxRecursion \in Nat
  BY ResolverAssumption DEF Books, CtxsOK, RCtx
<1>2. k \in 0..MaxRecursion /\ (k # 0 => k - 1 \in 0..MaxRecursion) /\ x[c].recursion + k \in 0..MaxRecursion
  BY <1>1
<1>3. t \in Questions /\ (k # 0 => Lead(n, q)[k - 1] \in Questions)
  BY <1>2, LeadFollows DEF Books
<1>4. /\ Moved(n, x, c, q, k) \in RCtx /\ Moved(n, x, c, q, k).name = t
      /\ Moved(n, x, c, q, k).from = IF k = 0 THEN x[c].from ELSE Lead(n, q)[k - 1]
  BY <1>1, <1>2, <1>3 DEF Moved, RCtx
<1>5. y \in [Contexts -> RCtx] /\ \A d \in Contexts : y[d] = IF d = c THEN Moved(n, x, c, q, k) ELSE x[d]
  BY <1>1, <1>4
<1> HIDE DEF y, t
<1>6. CtxsOK(y)
  BY <1>3, <1>4, <1>5, ResolverAssumption DEF CtxsOK, Books
<1>7. AllListed(n, y, m.astray \cup out)
  BY <1>5 DEF AllListed, Listed, Books
<1>8. NoneFreed(n, y, m.astray \cup m.left)
  BY <1>3, <1>4, <1>5, ResolverAssumption DEF NoneFreed, Books
<1> QED BY <1>3, <1>6, <1>7, <1>8 DEF Books, y, t

\* the timer of a context is no matter of the books
LEMMA TimedKept ==
  ASSUME NEW n, NEW x, NEW m, NEW c \in Contexts, NEW out, Books(n, x, m, out)
  PROVE  LET y == [x EXCEPT ![c].timer = TRUE] IN
         Books(n, y, m, out) /\ \A d \in Contexts : y[d].name = x[d].name
<1> DEFINE y == [x EXCEPT ![c].timer = TRUE]
<1>1. CtxsOK(x)
  BY DEF Books
<1>2. y \in [Contexts -> RCtx] /\ \A d \in Contexts : y[d].name = x[d].name /\ y[d].from = x[d].from
  BY <1>1 DEF CtxsOK, RCtx
<1> HIDE DEF y
<1>3. CtxsOK(y)
  BY <1>1, <1>2 DEF CtxsOK
<1>4. AllListed(n, y, m.astray \cup out) /\ NoneFreed(n, y, m.astray \cup m.left)
  BY <1>2 DEF AllListed, Listed, NoneFreed, Books
<1> QED BY <1>2, <1>3, <1>4 DEF Books, y

\* A context that was located is called, or on the list of the node of its name, unless no query
\* could be sent; the contexts chained behind it, which go astray, are on that list too, or on none.
LEMMA LocatedKept ==
  ASSUME NEW n, NEW x, NEW m, NEW c \in Contexts, NEW q \in Questions, NEW tail \in Seq(Contexts), NEW ok,
         IsInjective(tail), c \notin ToSet(tail), x[c].name # NoQuestion, asked \in Nat,
         Books(n, x, m, {c}), ToSet(tail) \subseteq m.astray, \A d \in ToSet(tail) : x[d].name # NoQuestion,
         \A p \in Questions : ToSet(n[p].waiting) \cap ({c} \cup ToSet(tail)) = {}
  PROVE  LET o == Located(n, x, c, q, tail, ok) IN
         /\ Books(o.n, o.x, m, IF o.failed THEN {c} ELSE {})
         /\ o.to \in Questions
         /\ o.failed => \A p \in Questions : ToSet(o.n[p].waiting) \cap ({c} \cup ToSet(tail)) = {}
<1> DEFINE T == ToSet(tail)
           k == StepsFrom(n, q, MaxRecursion - x[c].recursion)
           t == Lead(n, q)[k]
           nx == [x EXCEPT ![c] = Moved(n, x, c, q, k)]
           timed == [nx EXCEPT ![c].timer = TRUE]
           joined == [n EXCEPT ![t].waiting = <<c>> \o n[t].waiting]
           new == [NoRNode EXCEPT !.has = "query", !.id = asked + 1, !.waiting = <<c>> \o tail, !.queue = "resend"]
           o == Located(n, x, c, q, tail, ok)
<1> SUFFICES /\ Books(o.n, o.x, m, IF o.failed THEN {c} ELSE {})
             /\ o.to \in Questions
             /\ o.failed => \A p \in Questions : ToSet(o.n[p].waiting) \cap ({c} \cup T) = {}
  OBVIOUS
<1>1. CtxsOK(x) /\ NodesOK(n) /\ MaxRecursion - x[c].recursion \in Nat
  BY ResolverAssumption DEF Books, CtxsOK, RCtx
<1>2. k \in 0..(MaxRecursion - x[c].recursion)
  BY <1>1, StepsBounded
<1>3. o = IF n[t].has # "none" /\ n[t].valid
          THEN [n |-> n, x |-> Called(nx, {c}), asks |-> FALSE, to |-> t, failed |-> FALSE]
          ELSE IF Joins(n, t)
          THEN [n |-> joined, x |-> nx, asks |-> FALSE, to |-> t, failed |-> FALSE]
          ELSE IF ok
          THEN [n |-> [n EXCEPT ![t] = new], x |-> NameFreed(timed, {t}), asks |-> TRUE, to |-> t, failed |-> FALSE]
          ELSE [n |-> NodesFreed(n, {t}), x |-> NameFreed(nx, {t}), asks |-> FALSE, to |-> t, failed |-> TRUE]
  BY DEF Located, Moved
<1>4. o.to = t
  <2> HIDE DEF o, k, t, nx, timed, joined, new
  <2> QED BY <1>3
<1>5. Books(n, nx, m, {c}) /\ t \in Questions
  <2> DEFINE out == {c}
  <2>1. Books(n, x, m, out) /\ c \in out
    OBVIOUS
  <2> HIDE DEF out, k
  <2>2. Books(n, nx, m, out) /\ t \in Questions
    BY <1>2, <2>1, MovedKept
  <2> QED BY <2>2 DEF out
<1>6. nx[c].name = t /\ nx[c].name # NoQuestion /\ \A d \in Contexts \ {c} : nx[d] = x[d]
  <2>1. x \in [Contexts -> RCtx] /\ x[c] \in RCtx
    BY <1>1 DEF CtxsOK
  <2> QED BY <1>5, <2>1, ResolverAssumption DEF Moved, RCtx
<1> HIDE DEF o, nx, t, k
<1>7. CASE n[t].has # "none" /\ n[t].valid
  <2>1. Books(n, Called(nx, {c}), m, {})
    <3>1. \A p \in Questions : ToSet(n[p].waiting) \cap {c} = {}
      OBVIOUS
    <3> QED BY <1>5, <3>1, CalledKept
  <2>2. o.n = n /\ o.x = Called(nx, {c}) /\ ~o.failed
    BY <1>3, <1>7
  <2> QED BY <1>4, <1>5, <2>1, <2>2
<1>8. CASE ~(n[t].has # "none" /\ n[t].valid) /\ Joins(n, t)
  <2> DEFINE rn == [n[t] EXCEPT !.waiting = <<c>> \o n[t].waiting]
  <2>2. /\ n[t] \in RNode /\ n[t].waiting \in Seq(Contexts) /\ IsInjective(n[t].waiting) /\ n[t].waiting # <<>>
        /\ c \notin ToSet(n[t].waiting)
    BY <1>1, <1>5, <1>8 DEF NodesOK, RNode, Joins
  <2>3. /\ <<c>> \o n[t].waiting \in Seq(Contexts) /\ IsInjective(<<c>> \o n[t].waiting)
        /\ ToSet(<<c>> \o n[t].waiting) = ToSet(n[t].waiting) \cup {c}
    BY <2>2, ListHead
  <2>4. /\ rn \in RNode /\ rn.waiting = <<c>> \o n[t].waiting
        /\ rn.has = n[t].has /\ rn.queue = n[t].queue /\ rn.alias = n[t].alias
    BY <2>2, <2>3 DEF RNode
  <2>5. /\ rn.has = "cname" => rn.alias \in Questions
        /\ rn.queue # "expire" /\ rn.has # "none"
        /\ rn.queue # "none"
    BY <1>1, <1>5, <2>2, <2>4 DEF NodesOK, InQueues, Books
  <2>6. \A p \in Questions \ {t} : ToSet(n[p].waiting) \cap ToSet(rn.waiting) = {}
    BY <1>1, <1>5, <2>3, <2>4 DEF NodesOK
  <2> HIDE DEF rn
  <2> DEFINE r == [n EXCEPT ![t] = rn]
  <2>7. NodesOK(r) /\ r[t] = rn /\ (\A p \in Questions \ {t} : r[p] = n[p]) /\ InQueues(r)
    <3>1. IsInjective(rn.waiting)
      BY <2>3, <2>4
    <3>2. /\ NodesOK(r) /\ r[t] = rn /\ \A p \in Questions \ {t} : r[p] = n[p]
          /\ InQueues(n) /\ (rn.has = "none" <=> rn.queue = "none") => InQueues(r)
      BY <1>1, <1>5, <2>4, <2>5, <2>6, <3>1, NodeKept
    <3> QED BY <1>5, <2>5, <3>2 DEF Books
  <2>8. o.n = r /\ o.x = nx /\ ~o.failed
    <3>1. joined = r
      BY <1>1, <1>5 DEF NodesOK, rn
    <3> QED BY <1>3, <1>8, <3>1
  <2> HIDE DEF r
  <2>9. \A p \in Questions : ToSet(r[p].waiting) = IF p = t THEN ToSet(n[p].waiting) \cup {c} ELSE ToSet(n[p].waiting)
    BY <2>3, <2>4, <2>7
  <2>10. AllListed(r, nx, m.astray)
    BY <1>5, <1>6, <2>9 DEF AllListed, Listed, Books
  <2>11. NoneFreed(r, nx, m.astray \cup m.left)
    <3> SUFFICES ASSUME NEW p \in Questions, NEW d \in Contexts \ (m.astray \cup m.left), d \in ToSet(r[p].waiting)
                 PROVE  nx[d].name # NoQuestion
      BY DEF NoneFreed
    <3>1. d = c \/ d \in ToSet(n[p].waiting)
      BY <2>9
    <3> QED BY <1>5, <1>6, <3>1 DEF NoneFreed, Books
  <2>12. Books(r, nx, m, {})
    BY <1>5, <2>7, <2>10, <2>11 DEF Books
  <2> QED BY <1>4, <1>5, <2>8, <2>12
<1>9. CASE ~(n[t].has # "none" /\ n[t].valid) /\ ~Joins(n, t) /\ ok
  <2> DEFINE y == NameFreed(timed, {t})  r == [n EXCEPT ![t] = new]
  <2>1. Books(n, timed, m, {c}) /\ \A d \in Contexts : timed[d].name = nx[d].name
    BY <1>5, TimedKept
  <2> HIDE DEF timed
  <2>2. n[t].waiting = <<>> /\ {t} \in SUBSET Questions /\ NodesOK(n) /\ CtxsOK(timed)
    BY <1>5, <1>9, <2>1 DEF Joins, Books
  <2>3. /\ CtxsOK(y)
        /\ \A out : AllListed(n, timed, out) => AllListed(NodesFreed(n, {t}), y, out)
        /\ \A but : NoneFreed(n, timed, but) => NoneFreed(NodesFreed(n, {t}), y, but)
    BY <2>2, FreedKept
  <2>4. /\ \A p \in Questions \ {t} : NodesFreed(n, {t})[p] = n[p]
        /\ NodesFreed(n, {t})[t].waiting = <<>>
    BY <1>5 DEF NodesFreed, NoRNode
  <2>5. ToSet(<<>>) = {}
    BY DEF ToSet
  <2>6. /\ <<c>> \o tail \in Seq(Contexts) /\ IsInjective(<<c>> \o tail)
        /\ ToSet(<<c>> \o tail) = T \cup {c}
    BY ListHead
  <2>7. /\ new \in RNode /\ new.waiting = <<c>> \o tail
        /\ new.has = "query" /\ new.queue = "resend"
    <3> DEFINE w == <<c>> \o tail  a == asked + 1
    <3>1. w \in Seq(Contexts) /\ a \in Nat
      BY <2>6
    <3> HIDE DEF w, a
    <3>2. LET rn == [NoRNode EXCEPT !.has = "query", !.id = a, !.waiting = w, !.queue = "resend"]
          IN  rn \in RNode /\ rn.waiting = w /\ rn.has = "query" /\ rn.queue = "resend"
      BY <3>1 DEF RNode, NoRNode
    <3> QED BY <3>2 DEF w, a
  <2>8. \A p \in Questions \ {t} : ToSet(n[p].waiting) \cap ToSet(new.waiting) = {}
    BY <2>6, <2>7
  <2> HIDE DEF new
  <2>9. NodesOK(r) /\ r[t] = new /\ (\A p \in Questions \ {t} : r[p] = n[p]) /\ InQueues(r)
    <3>1. IsInjective(new.waiting) /\ new.has # "cname" /\ new.has # "none" /\ new.queue # "none" /\ new.queue # "expire"
      BY <2>6, <2>7
    <3>2. /\ NodesOK(r) /\ r[t] = new /\ \A p \in Questions \ {t} : r[p] = n[p]
          /\ InQueues(n) /\ (new.has = "none" <=> new.queue = "none") => InQueues(r)
      BY <1>5, <2>2, <2>7, <2>8, <3>1, NodeKept
    <3> QED BY <1>5, <2>7, <3>1, <3>2 DEF Books
  <2> HIDE DEF r
  <2>10. \A p \in Questions : ToSet(r[p].waiting) = IF p = t THEN T \cup {c} ELSE ToSet(n[p].waiting)
    BY <2>6, <2>7, <2>9
  <2>11. \A d \in Contexts : y[d].name \in {timed[d].name, FreedName} /\ (timed[d].name # NoQuestion => y[d].name # NoQuestion)
    BY <2>2, ResolverAssumption DEF NameFreed, CtxsOK, RCtx, FreedName
  <2> HIDE DEF y
  <2>12. AllListed(r, y, m.astray)
    <3> SUFFICES ASSUME NEW d \in Contexts \ m.astray, y[d].name # NoQuestion
                 PROVE  Listed(r, y, d)
      BY DEF AllListed
    <3>1. CASE d = c
      BY <1>5, <1>6, <2>1, <2>10, <2>11, <3>1 DEF Listed
    <3>2. CASE d # c
      <4>1. AllListed(NodesFreed(n, {t}), y, m.astray \cup {c})
        BY <2>1, <2>3 DEF Books
      <4>2. Listed(NodesFreed(n, {t}), y, d)
        BY <3>2, <4>1 DEF AllListed
      <4>3. PICK p \in Questions : d \in ToSet(NodesFreed(n, {t})[p].waiting) /\ y[d].name \in {p, FreedName}
        BY <4>2 DEF Listed
      <4>4. p # t
        BY <2>4, <2>5, <4>3
      <4> QED BY <2>4, <2>9, <4>3, <4>4 DEF Listed
    <3> QED BY <3>1, <3>2
  <2>13. NoneFreed(r, y, m.astray \cup m.left)
    <3> SUFFICES ASSUME NEW p \in Questions, NEW d \in Contexts \ (m.astray \cup m.left), d \in ToSet(r[p].waiting)
                 PROVE  y[d].name # NoQuestion
      BY DEF NoneFreed
    <3>1. d = c \/ d \in ToSet(n[p].waiting)
      BY <2>10
    <3> QED BY <1>6, <2>1, <2>11, <3>1 DEF NoneFreed, Books
  <2>14. Books(r, y, m, {})
    BY <2>3, <2>9, <2>12, <2>13 DEF Books
  <2>15. o.n = r /\ o.x = y /\ ~o.failed
    BY <1>3, <1>9 DEF r, y, timed, new
  <2> QED BY <1>4, <1>5, <2>14, <2>15
<1>10. CASE ~(n[t].has # "none" /\ n[t].valid) /\ ~Joins(n, t) /\ ~ok
  <2>1. n[t].waiting = <<>> /\ {t} \in SUBSET Questions /\ NodesOK(n) /\ CtxsOK(nx)
    BY <1>5, <1>10 DEF Joins, Books
  <2>2. Books(NodesFreed(n, {t}), NameFreed(nx, {t}), m, {c})
    BY <1>5, <2>1, FreedKept DEF Books
  <2>3. \A p \in Questions : ToSet(NodesFreed(n, {t})[p].waiting) \cap ({c} \cup T) = {}
    BY DEF NodesFreed, NoRNode, ToSet
  <2>4. o.n = NodesFreed(n, {t}) /\ o.x = NameFreed(nx, {t}) /\ o.failed
    BY <1>3, <1>10
  <2> QED BY <1>4, <1>5, <2>2, <2>3, <2>4
<1> QED BY <1>7, <1>8, <1>9, <1>10

-----------------------------------------------------------------------------
(* The steps *)

\* The end of a step: some nodes expire.
LEMMA ExpireStep ==
  ASSUME NEW n, NEW x, NEW k, Books(n, x, k, {}), NEW D \in SUBSET {q \in Questions : n[q].queue = "expire"},
         rnode' = NodesFreed(n, D), rctx' = NameFreed(x, D), mishap' = k,
         k \in Mishap,
         asked' \in Nat /\ \A a \in answers' : a.of \in Questions
  PROVE  ResolverInv'
<1>1. Books(NodesFreed(n, D), NameFreed(x, D), k, {})
  BY ExpireKept
<1> DEFINE m == NodesFreed(n, D)  y == NameFreed(x, D)
<1> HIDE DEF m, y
<1>2. Books(m, y, k, {})
  BY <1>1 DEF m, y
<1>3. rnode' = m /\ rctx' = y
  BY DEF m, y
<1>4. Books(rnode', rctx', mishap', {})
  BY <1>2, <1>3
<1> QED BY <1>4 DEF ResolverInv

\* ngx_resolve_name and ngx_resolve_addr
LEMMA ResolveStep ==
  ASSUME ResolverInv, NEW c \in Contexts, NEW q \in Questions, NEW ok \in BOOLEAN, Resolve(c, q, ok)
  PROVE  ResolverInv'
<1> DEFINE x == [rctx EXCEPT ![c] = [NoCtx EXCEPT !.name = q]]
           o == Located(rnode, x, c, q, <<>>, ok)
           y == IF o.failed THEN Called(o.x, {c}) ELSE o.x
<1>1. /\ NodesOK(rnode) /\ CtxsOK(rctx) /\ Defined /\ rctx[c].name = NoQuestion
      /\ Books(rnode, rctx, mishap, {}) /\ asked \in Nat
  BY DEF ResolverInv, Books, Resolve, InUse, Used
<1>2. ToSet(<<>>) = {} /\ IsInjective(<<>>) /\ <<>> \in Seq(Contexts)
  BY DEF ToSet, IsInjective
<1>3. NoneFreed(rnode, rctx, {})
  BY <1>1, DefinedMeans
<1>4. \A p \in Questions : c \notin ToSet(rnode[p].waiting)
  BY <1>1, <1>3 DEF NoneFreed
<1>5. /\ x \in [Contexts -> RCtx] /\ x[c].name = q /\ x[c].from = NoQuestion
      /\ \A d \in Contexts \ {c} : x[d] = rctx[d]
  <2>1. 0 \in 0..MaxRecursion
    BY ResolverAssumption
  <2> QED BY <1>1, <2>1 DEF CtxsOK, RCtx, NoCtx
<1> HIDE DEF x
<1>6. CtxsOK(x) /\ x[c].name # NoQuestion
  BY <1>1, <1>5, ResolverAssumption DEF CtxsOK
<1> DEFINE k == [astray |-> mishap.astray \ {c}, left |-> mishap.left \ {c}]
<1>7. AllListed(rnode, x, k.astray \cup {c})
  BY <1>1, <1>5 DEF AllListed, Listed, Books
<1>8. NoneFreed(rnode, x, k.astray \cup k.left)
  BY <1>3, <1>5, <1>6 DEF NoneFreed
<1>9. k \in Mishap
  BY DEF Mishap, ResolverInv
<1> HIDE DEF k
<1>10. Books(rnode, x, k, {c})
  BY <1>1, <1>6, <1>7, <1>8 DEF Books
<1>15. /\ Books(o.n, o.x, k, IF o.failed THEN {c} ELSE {}) /\ o.to \in Questions
       /\ o.failed => \A p \in Questions : ToSet(o.n[p].waiting) \cap {c} = {}
  <2>1. {c} \cup ToSet(<<>>) = {c}
    BY <1>2
  <2>2. \A p \in Questions : ToSet(rnode[p].waiting) \cap ({c} \cup ToSet(<<>>)) = {}
    BY <1>2, <1>4
  <2>3. c \notin ToSet(<<>>)
    BY <1>2
  <2>4. ToSet(<<>>) \subseteq k.astray /\ \A d \in ToSet(<<>>) : x[d].name # NoQuestion
    BY <1>2
  <2>5. /\ Books(o.n, o.x, k, IF o.failed THEN {c} ELSE {}) /\ o.to \in Questions
        /\ o.failed => \A p \in Questions : ToSet(o.n[p].waiting) \cap ({c} \cup ToSet(<<>>)) = {}
    BY <1>1, <1>2, <1>6, <1>10, <2>2, <2>3, <2>4, LocatedKept
  <2> HIDE DEF o
  <2> QED BY <2>1, <2>5
<1>16. Books(o.n, y, k, {})
  <2> DEFINE n == o.n  z == o.x
  <2> HIDE DEF n, z
  <2>1. CASE o.failed
    <3>1. Books(n, z, k, {c} \cup {}) /\ \A p \in Questions : ToSet(n[p].waiting) \cap {c} = {}
      BY <1>15, <2>1 DEF n, z
    <3>2. Books(n, Called(z, {c}), k, {})
      BY <3>1, CalledKept
    <3> QED BY <2>1, <3>2 DEF n, z
  <2>2. CASE ~o.failed
    BY <1>15, <2>2
  <2> QED BY <2>1, <2>2
<1>17. ExpireSome(o.n, y, IF o.failed THEN {} ELSE {c} \ Used(y), {o.to}) /\ Sent(o) /\ mishap' = k
  BY DEF Resolve, x, k
<1>18. asked' \in Nat /\ \A a \in answers' : a.of \in Questions
  <2> HIDE DEF o
  <2> QED BY <1>1, <1>15, <1>17 DEF Sent, ResolverInv
<1> DEFINE n == o.n  done == IF o.failed THEN {} ELSE {c} \ Used(y)
<1> HIDE DEF n, y, done
<1>19. PICK D \in SUBSET {p \in Questions \ {o.to} : n[p].queue = "expire"} :
         rnode' = NodesFreed(n, D) /\ rctx' = NameFreed(y, D)
  BY <1>17 DEF ExpireSome, n, done
<1>20. Books(n, y, k, {})
  BY <1>16 DEF n
<1> QED BY <1>9, <1>17, <1>18, <1>19, <1>20, ExpireStep

\* ngx_resolve_name_done: the context leaves the list of the node of its name.
LEMMA DoneStep ==
  ASSUME ResolverInv, NEW c \in Contexts, Done(c)
  PROVE  ResolverInv'
<1> DEFINE p == rctx[c].name  w == rnode[p].waiting
           rn == [rnode[p] EXCEPT !.waiting = WithoutWaiter(w, c)]
           n == Unlisted(c)
           k == [mishap EXCEPT !.left = IF p = FreedName THEN @ \cup {c} ELSE @]
<1>1. /\ NodesOK(rnode) /\ CtxsOK(rctx) /\ Defined /\ rctx[c] \in RCtx /\ p # NoQuestion
      /\ Books(rnode, rctx, mishap, {})
  BY DEF ResolverInv, Books, Done, InUse, Used, CtxsOK
<1>2. NoneFreed(rnode, rctx, {})
  BY <1>1, DefinedMeans
<1>3. /\ NodesOK(n)
      /\ InQueues(rnode) => InQueues(n)
      /\ \A q \in Questions : ToSet(n[q].waiting) = ToSet(rnode[q].waiting) \ (IF q = p THEN {c} ELSE {})
  <2>1. CASE p \notin Questions
    <3>1. n = rnode
      BY <1>1, <2>1 DEF Unlisted, NodesOK
    <3> QED BY <1>1, <2>1, <3>1
  <2>2. CASE p \in Questions /\ c \notin ToSet(w)
    <3>1. n = rnode
      <4>1. \A q \in Questions : n[q] = rnode[q]
        BY <1>1, <2>2 DEF Unlisted, NodesOK, WithoutWaiter, RNode
      <4> QED BY <1>1, <4>1 DEF Unlisted, NodesOK
    <3> QED BY <1>1, <2>2, <3>1
  <2>3. CASE p \in Questions /\ c \in ToSet(w)
    <3>1. rnode[p] \in RNode /\ w \in Seq(Contexts) /\ IsInjective(w)
      BY <1>1, <2>3 DEF NodesOK, RNode
    <3>2. /\ WithoutWaiter(w, c) \in Seq(Contexts) /\ IsInjective(WithoutWaiter(w, c))
          /\ ToSet(WithoutWaiter(w, c)) = ToSet(w) \ {c}
      BY <2>3, <3>1, ListPlace DEF WithoutWaiter
    <3>3. /\ rn \in RNode /\ rn.waiting = WithoutWaiter(w, c) /\ rn.has = rnode[p].has
          /\ rn.queue = rnode[p].queue /\ rn.alias = rnode[p].alias
      BY <3>1, <3>2 DEF RNode
    <3>4. w # <<>>
      BY <2>3 DEF ToSet
    <3>5. /\ rn.has = "cname" => rn.alias \in Questions
          /\ rn.waiting # <<>> => rn.queue # "expire" /\ rn.has # "none"
          /\ InQueues(rnode) => (rn.has = "none" <=> rn.queue = "none")
      BY <1>1, <2>3, <3>3, <3>4 DEF NodesOK, InQueues
    <3>6. \A q \in Questions \ {p} : ToSet(rnode[q].waiting) \cap ToSet(rn.waiting) = {}
      BY <1>1, <2>3, <3>2, <3>3 DEF NodesOK
    <3>7. n = [rnode EXCEPT ![p] = rn]
      BY <1>1, <2>3 DEF Unlisted, NodesOK
    <3> DEFINE r == [rnode EXCEPT ![p] = rn]
    <3>8. IsInjective(rn.waiting)
      BY <3>2, <3>3
    <3> HIDE DEF rn
    <3>9. /\ NodesOK(r) /\ r[p] = rn /\ \A q \in Questions \ {p} : r[q] = rnode[q]
          /\ InQueues(rnode) /\ (rn.has = "none" <=> rn.queue = "none") => InQueues(r)
      <4> HIDE DEF p
      <4> QED BY <1>1, <2>3, <3>3, <3>5, <3>6, <3>8, NodeKept
    <3> HIDE DEF r, n, p
    <3>10. n = r
      BY <3>7 DEF r
    <3> QED BY <3>2, <3>3, <3>5, <3>9, <3>10
  <2> QED BY <2>1, <2>2, <2>3
<1> HIDE DEF n
<1>4. AllListed(n, rctx, mishap.astray \cup {c})
  BY <1>1, <1>3 DEF AllListed, Listed, Books
<1>5. NoneFreed(n, rctx, k.astray \cup k.left)
  BY <1>2, <1>3 DEF NoneFreed
<1>6. k \in Mishap /\ k.astray = mishap.astray /\ (p = FreedName => c \in k.left)
  BY DEF Mishap, ResolverInv
<1>7. Books(n, Called(rctx, {c}), k, {})
  <2>1. Books(n, rctx, k, {c} \cup {})
    <3> HIDE DEF k, p
    <3> QED BY <1>1, <1>3, <1>4, <1>5, <1>6 DEF Books
  <2>2. ASSUME NEW r \in Questions, c \in ToSet(n[r].waiting) PROVE c \in k.astray \cup k.left
    <3> SUFFICES ASSUME c \notin mishap.astray PROVE p = FreedName
      BY <1>6
    <3>1. PICK q \in Questions : c \in ToSet(rnode[q].waiting) /\ p \in {q, FreedName}
      BY <1>1 DEF AllListed, Listed, Books
    <3>2. r = q
      <4>1. c \in ToSet(rnode[r].waiting)
        BY <1>3, <2>2
      <4> QED BY <1>1, <3>1, <4>1 DEF NodesOK
    <3>3. r # p
      BY <1>3, <2>2
    <3> QED BY <3>1, <3>2, <3>3
  <2>3. \A r \in Questions : ToSet(n[r].waiting) \cap {c} \subseteq k.astray \cup k.left
    BY <2>2
  <2> HIDE DEF k
  <2> QED BY <2>1, <2>3, CalledSomeKept
<1> DEFINE y == Called(rctx, {c})
<1>8. ExpireSome(n, y, {c}, {}) /\ mishap' = k /\ asked' = asked /\ answers' = answers
  BY DEF Done, n
<1> HIDE DEF y, k
<1>9. PICK D \in SUBSET {q \in Questions : n[q].queue = "expire"} :
        rnode' = NodesFreed(n, D) /\ rctx' = NameFreed(y, D)
  BY <1>8 DEF ExpireSome
<1>10. Books(n, y, k, {})
  BY <1>7 DEF y
<1> QED BY <1>6, <1>8, <1>9, <1>10, ExpireStep DEF ResolverInv

\* What an answer does but for a CNAME: the node gets rid of its list, and the contexts of the list are called.
LEMMA AnsweredStep ==
  ASSUME ResolverInv, Defined, NEW a \in Questions, NEW rn \in RNode, NEW x, NEW done, NEW new,
         rn.has # "cname", rn.waiting = <<>>, rn.has = "none" <=> rn.queue = "none",
         Books(rnode, x, mishap, {}),
         ExpireSome([rnode EXCEPT ![a] = rn], Called(x, ToSet(rnode[a].waiting)), done, new),
         UNCHANGED <<answers, asked, mishap>>
  PROVE  ResolverInv'
<1> DEFINE n == [rnode EXCEPT ![a] = rn]  w == ToSet(rnode[a].waiting)
<1>1. Books(n, x, mishap, w) /\ \A q \in Questions : ToSet(n[q].waiting) \cap w = {}
  BY EmptiedKept
<1>2. ExpireSome(n, Called(x, w), done, new)
  OBVIOUS
<1> HIDE DEF n, w
<1>3. Books(n, Called(x, w), mishap, {})
  BY <1>1, CalledKept
<1> DEFINE y == Called(x, w)
<1> HIDE DEF y
<1>4. PICK D \in SUBSET {q \in Questions \ new : n[q].queue = "expire"} :
        rnode' = NodesFreed(n, D) /\ rctx' = NameFreed(y, D)
  BY <1>2 DEF ExpireSome, y
<1>5. Books(n, y, mishap, {})
  BY <1>3 DEF y
<1> QED BY <1>4, <1>5, ExpireStep DEF ResolverInv

\* ngx_resolver_process_a: addresses come.
LEMMA AnswerOkStep ==
  ASSUME ResolverInv, NEW a \in answers, AnswerOk(a)
  PROVE  ResolverInv'
<1> DEFINE q == a.of
           rn == [rnode[q] EXCEPT !.has = "addr", !.valid = TRUE, !.waiting = <<>>, !.queue = "expire"]
<1>1. q \in Questions /\ Books(rnode, rctx, mishap, {}) /\ NodesOK(rnode) /\ Defined /\ rnode[q] \in RNode
  BY DEF ResolverInv, AnswerOk, Expected, Books, NodesOK
<1>2. rn \in RNode /\ rn.has = "addr" /\ rn.waiting = <<>> /\ rn.queue = "expire"
  <2> DEFINE e == <<>>  r == rnode[q]
  <2>1. e \in Seq(Contexts) /\ r \in RNode
    BY <1>1
  <2> HIDE DEF e, r
  <2>2. LET u == [r EXCEPT !.has = "addr", !.valid = TRUE, !.waiting = e, !.queue = "expire"]
        IN  u \in RNode /\ u.has = "addr" /\ u.waiting = e /\ u.queue = "expire"
    BY <2>1 DEF RNode
  <2> QED BY <2>2 DEF e, r
<1>3. /\ ExpireSome([rnode EXCEPT ![q] = rn], Called(rctx, ToSet(rnode[q].waiting)), ToSet(rnode[q].waiting), {q})
      /\ UNCHANGED <<answers, asked, mishap>>
  BY DEF AnswerOk
<1> HIDE DEF q, rn
<1> QED BY <1>1, <1>2, <1>3, AnsweredStep

\* ngx_resolver_process_response: an error comes, and the node goes.
LEMMA AnswerErrorStep ==
  ASSUME ResolverInv, NEW a \in answers, AnswerError(a)
  PROVE  ResolverInv'
<1> DEFINE q == a.of  w == ToSet(rnode[q].waiting)
           y == Called(NameFreed(rctx, {q}), w)
           n == NodesFreed(rnode, {q})
<1>1. q \in Questions /\ Books(rnode, rctx, mishap, {}) /\ NodesOK(rnode) /\ CtxsOK(rctx) /\ Defined
  BY DEF ResolverInv, AnswerError, Expected, Books
<1>2. NoRNode \in RNode /\ NoRNode.has = "none" /\ NoRNode.waiting = <<>> /\ NoRNode.queue = "none"
  BY DEF RNode, NoRNode
<1>3. n = [rnode EXCEPT ![q] = NoRNode]
  BY <1>1 DEF NodesFreed, NodesOK
<1> DEFINE r == [rnode EXCEPT ![q] = NoRNode]
<1>4. Books(r, rctx, mishap, w) /\ r[q] = NoRNode /\ \A p \in Questions : ToSet(r[p].waiting) \cap w = {}
  <2> HIDE DEF q
  <2> QED BY <1>1, <1>2, EmptiedKept
<1> HIDE DEF n, r
<1>5. Books(n, rctx, mishap, w) /\ n[q] = NoRNode /\ \A p \in Questions : ToSet(n[p].waiting) \cap w = {}
  BY <1>3, <1>4 DEF r
<1> DEFINE x == NameFreed(rctx, {q})
<1>6. Books(n, x, mishap, w)
  <2>1. NodesOK(n) /\ n[q].waiting = <<>> /\ {q} \in SUBSET Questions
    BY <1>1, <1>2, <1>5 DEF Books
  <2>2. /\ CtxsOK(x)
        /\ \A out : AllListed(n, rctx, out) => AllListed(NodesFreed(n, {q}), x, out)
        /\ \A but : NoneFreed(n, rctx, but) => NoneFreed(NodesFreed(n, {q}), x, but)
    <3> HIDE DEF q, w
    <3> QED BY <1>1, <2>1, FreedKept
  <2>3. NodesFreed(n, {q}) = n
    BY <1>5, <2>1 DEF NodesFreed, NodesOK
  <2> HIDE DEF x
  <2> QED BY <1>5, <2>2, <2>3 DEF Books
<1> HIDE DEF x
<1>7. Books(n, Called(x, w), mishap, {})
  BY <1>5, <1>6, CalledKept
<1>8. ExpireSome(n, Called(x, w), w, {}) /\ UNCHANGED <<answers, asked, mishap>>
  BY DEF AnswerError, n, x
<1> DEFINE z == Called(x, w)
<1> HIDE DEF z
<1>9. PICK D \in SUBSET {p \in Questions : n[p].queue = "expire"} :
        rnode' = NodesFreed(n, D) /\ rctx' = NameFreed(z, D)
  BY <1>8 DEF ExpireSome, z
<1>10. Books(n, z, mishap, {})
  BY <1>7 DEF z
<1> QED BY <1>8, <1>9, <1>10, ExpireStep DEF ResolverInv

\* ngx_resolver_process_a: a CNAME comes, and the first context goes on with it.
LEMMA AnswerAliasStep ==
  ASSUME ResolverInv, NEW a \in answers, NEW t \in Questions, NEW ok \in BOOLEAN, AnswerAlias(a, t, ok)
  PROVE  ResolverInv'
<1> DEFINE q == a.of  w == rnode[q].waiting
           rn == [rnode[q] EXCEPT !.has = "cname", !.alias = t, !.valid = TRUE, !.waiting = <<>>, !.queue = "expire"]
           n == [rnode EXCEPT ![q] = rn]
           x == [rctx EXCEPT ![w[1]].from = q]
           o == Located(n, x, w[1], t, Tail(w), ok)
           k == [mishap EXCEPT !.astray = IF o.failed THEN @ \cup ToSet(w) ELSE (@ \ {w[1]}) \cup ToSet(Tail(w))]
<1>1. /\ q \in Questions /\ Books(rnode, rctx, mishap, {}) /\ NodesOK(rnode) /\ CtxsOK(rctx) /\ Defined
      /\ rnode[q] \in RNode /\ w \in Seq(Contexts) /\ IsInjective(w)
  BY DEF ResolverInv, AnswerAlias, Expected, Books, NodesOK, RNode
<1>2. NoneFreed(rnode, rctx, {})
  BY <1>1, DefinedMeans
<1>3. rn \in RNode /\ rn.has = "cname" /\ rn.waiting = <<>> /\ rn.queue = "expire" /\ rn.alias = t
  <2> DEFINE e == <<>>  r == rnode[q]
  <2>1. e \in Seq(Contexts) /\ r \in RNode
    BY <1>1
  <2> HIDE DEF e, r
  <2>2. LET u == [r EXCEPT !.has = "cname", !.alias = t, !.valid = TRUE, !.waiting = e, !.queue = "expire"]
        IN  u \in RNode /\ u.has = "cname" /\ u.waiting = e /\ u.queue = "expire" /\ u.alias = t
    BY <2>1 DEF RNode
  <2> QED BY <2>2 DEF e, r
<1>4. Books(n, rctx, mishap, ToSet(w)) /\ \A p \in Questions : ToSet(n[p].waiting) \cap ToSet(w) = {}
  <2> HIDE DEF q, rn
  <2> QED BY <1>1, <1>3, EmptiedKept DEF w
<1>5. IF w = <<>>
      THEN rnode' = n /\ UNCHANGED <<rctx, answers, asked, mishap>>
      ELSE ExpireSome(o.n, o.x, {w[1]} \ Used(o.x), {q, o.to}) /\ Sent(o) /\ mishap' = k
  BY DEF AnswerAlias
<1>8. /\ n[q].waiting = <<>>
      /\ \A p \in Questions : p # q => n[p] = rnode[p]
  BY <1>1, <1>3 DEF NodesOK
<1> HIDE DEF n, rn
<1>6. CASE w = <<>>
  <2>1. ToSet(w) = {}
    BY <1>6 DEF ToSet
  <2>2. Books(n, rctx, mishap, {})
    BY <1>4, <2>1
  <2>3. Books(rnode', rctx', mishap', {})
    BY <1>5, <1>6, <2>2
  <2> QED BY <1>5, <1>6, <2>3 DEF ResolverInv
<1>7. CASE w # <<>>
  <2>1. /\ w[1] \in Contexts /\ Tail(w) \in Seq(Contexts) /\ IsInjective(Tail(w)) /\ w[1] \in ToSet(w)
        /\ ToSet(Tail(w)) = ToSet(w) \ {w[1]}
    <3> HIDE DEF w
    <3>1. /\ Tail(w) \in Seq(Contexts) /\ IsInjective(Tail(w)) /\ Head(w) \in Contexts
          /\ Head(w) \in ToSet(w) /\ ToSet(Tail(w)) = ToSet(w) \ {Head(w)}
      BY <1>1, <1>7, ListTail
    <3>2. Head(w) = w[1]
      BY <1>1, <1>7, TailPlace
    <3> QED BY <3>1, <3>2
  <2>2. /\ x \in [Contexts -> RCtx] /\ x[w[1]].from = q
        /\ \A d \in Contexts : x[d].name = rctx[d].name
        /\ \A d \in Contexts \ {w[1]} : x[d] = rctx[d]
    <3>1. rctx \in [Contexts -> RCtx] /\ w[1] \in Contexts /\ q \in Questions
      BY <1>1, <2>1 DEF CtxsOK
    <3> HIDE DEF w
    <3>2. [rctx[w[1]] EXCEPT !.from = q] \in RCtx
      BY <3>1 DEF RCtx
    <3> QED BY <3>1, <3>2 DEF RCtx
  <2>3. x[w[1]].name # NoQuestion
    BY <1>1, <1>2, <2>1, <2>2 DEF NoneFreed
  <2>4. CtxsOK(x)
    BY <1>1, <2>2, <2>3 DEF CtxsOK
  <2> HIDE DEF x
  <2>5. /\ k \in Mishap /\ k.left = mishap.left
        /\ k.astray = IF o.failed THEN mishap.astray \cup ToSet(w)
                      ELSE (mishap.astray \ {w[1]}) \cup ToSet(Tail(w))
    <3>1. ToSet(w) \subseteq Contexts /\ mishap \in Mishap
      BY <1>1 DEF ToSet, ResolverInv
    <3>2. ToSet(Tail(w)) \subseteq Contexts
      BY <2>1, <3>1
    <3> HIDE DEF o, w
    <3> QED BY <3>1, <3>2 DEF Mishap
  <2> HIDE DEF k
  <2>6. Books(n, x, k, {w[1]})
    <3>1. k.astray \cup {w[1]} = mishap.astray \cup ToSet(w)
      <4> HIDE DEF o, w
      <4> QED BY <2>1, <2>5
    <3>2. AllListed(n, x, k.astray \cup {w[1]})
      BY <1>4, <2>2, <3>1 DEF AllListed, Listed, Books
    <3>3. NoneFreed(n, x, k.astray \cup k.left)
      <4> SUFFICES ASSUME NEW p \in Questions, NEW d \in Contexts, d \in ToSet(n[p].waiting)
                   PROVE  x[d].name # NoQuestion
        BY DEF NoneFreed
      <4>1. d \in ToSet(rnode[p].waiting)
        <5>1. p # q
          BY <1>1, <1>8 DEF ToSet
        <5> QED BY <1>1, <1>8, <5>1
      <4> QED BY <1>2, <2>2, <4>1 DEF NoneFreed
    <3> QED BY <1>4, <2>4, <3>2, <3>3 DEF Books
  <2>7. {w[1]} \cup ToSet(Tail(w)) = ToSet(w) /\ w[1] \notin ToSet(Tail(w)) /\ ToSet(Tail(w)) \subseteq k.astray
    <3> HIDE DEF o, w
    <3> QED BY <2>1, <2>5
  <2>8. Books(o.n, o.x, k, IF o.failed THEN {w[1]} ELSE {}) /\ o.to \in Questions
    <3> DEFINE c == w[1]  tail == Tail(w)
    <3>1. \A d \in ToSet(tail) : x[d].name # NoQuestion
      <4>1. ToSet(w) \subseteq Contexts
        BY <1>1 DEF ToSet
      <4> QED BY <1>1, <1>2, <2>1, <2>2, <4>1 DEF NoneFreed
    <3>2. /\ Books(n, x, k, {c}) /\ asked \in Nat /\ x[c].name # NoQuestion
          /\ \A p \in Questions : ToSet(n[p].waiting) \cap ({c} \cup ToSet(tail)) = {}
          /\ c \in Contexts /\ tail \in Seq(Contexts) /\ IsInjective(tail) /\ c \notin ToSet(tail)
          /\ ToSet(tail) \subseteq k.astray
      BY <1>4, <2>1, <2>3, <2>6, <2>7 DEF ResolverInv
    <3> HIDE DEF c, tail
    <3>3. LET l == Located(n, x, c, t, tail, ok) IN
          Books(l.n, l.x, k, IF l.failed THEN {c} ELSE {}) /\ l.to \in Questions
      BY <3>1, <3>2, LocatedKept
    <3> QED BY <3>3 DEF c, tail
  <2> HIDE DEF o
  <2>9. Books(o.n, o.x, k, {})
    <3>1. CASE o.failed
      <4>1. k.astray \cup {w[1]} = k.astray \cup {}
        <5> HIDE DEF w
        <5> QED BY <2>1, <2>5, <3>1
      <4> QED BY <2>8, <3>1, <4>1 DEF Books
    <3>2. CASE ~o.failed
      BY <2>8, <3>2
    <3> QED BY <3>1, <3>2
  <2> DEFINE m == o.n  y == o.x
  <2>10. PICK D \in SUBSET {p \in Questions : m[p].queue = "expire"} : rnode' = NodesFreed(m, D) /\ rctx' = NameFreed(y, D)
    BY <1>5, <1>7 DEF ExpireSome
  <2>11. asked' \in Nat /\ \A b \in answers' : b.of \in Questions
    BY <1>5, <1>7, <2>8 DEF Sent, ResolverInv
  <2>12. mishap' = k /\ Books(m, y, k, {})
    BY <1>5, <1>7, <2>9
  <2> HIDE DEF m, y
  <2> QED BY <2>5, <2>10, <2>11, <2>12, ExpireStep
<1> QED BY <1>6, <1>7

\* ngx_resolver_resend: a query goes out again, or the node that nobody waits on goes.
LEMMA ResendStep ==
  ASSUME ResolverInv, NEW q \in Questions, NEW ok \in BOOLEAN, Resend(q, ok)
  PROVE  ResolverInv'
<1>1. Books(rnode, rctx, mishap, {}) /\ NodesOK(rnode) /\ CtxsOK(rctx) /\ rnode[q] \in RNode
  BY DEF ResolverInv, Books, NodesOK
<1>2. CASE AskAgain(q)
  <2> DEFINE rn == [rnode[q] EXCEPT !.queue = IF ok THEN "resend" ELSE "unsent"]
             n == [rnode EXCEPT ![q] = rn]
  <2>1. rnode' = n /\ mishap' = mishap /\ rctx' = rctx /\ asked' = asked /\ answers' = answers
    BY <1>1, <1>2 DEF Resend, NodesOK
  <2>2. /\ rn \in RNode /\ rn.has = rnode[q].has /\ rn.alias = rnode[q].alias /\ rn.waiting = rnode[q].waiting
        /\ rn.queue = IF ok THEN "resend" ELSE "unsent"
    BY <1>1 DEF RNode
  <2>3. rnode[q].has # "none"
    BY <1>1, <1>2 DEF NodesOK, AskAgain
  <2> HIDE DEF rn
  <2>4. /\ NodesOK(n) /\ n[q] = rn /\ \A p \in Questions \ {q} : n[p] = rnode[p]
        /\ InQueues(n)
    <3>1. /\ rn.has = "cname" => rn.alias \in Questions
          /\ rn.queue # "expire" /\ rn.has # "none" /\ IsInjective(rn.waiting)
          /\ \A p \in Questions \ {q} : ToSet(rnode[p].waiting) \cap ToSet(rn.waiting) = {}
      BY <1>1, <2>2, <2>3 DEF NodesOK
    <3>2. rn.queue # "none" /\ InQueues(rnode)
      BY <1>1, <2>2 DEF Books
    <3> QED BY <1>1, <2>2, <3>1, <3>2, NodeKept
  <2> HIDE DEF n
  <2>5. \A p \in Questions : n[p].waiting = rnode[p].waiting
    BY <2>2, <2>4
  <2>6. AllListed(n, rctx, mishap.astray \cup {}) /\ NoneFreed(n, rctx, mishap.astray \cup mishap.left)
    BY <1>1, <2>5 DEF AllListed, Listed, NoneFreed, Books
  <2>7. Books(n, rctx, mishap, {})
    BY <1>1, <2>4, <2>6 DEF Books
  <2>8. Books(rnode', rctx', mishap', {})
    BY <2>1, <2>7
  <2> QED BY <2>1, <2>8 DEF ResolverInv
<1>3. CASE ~AskAgain(q)
  <2>1. rnode[q].waiting = <<>> /\ {q} \in SUBSET Questions
    BY <1>3 DEF AskAgain
  <2>2. Books(NodesFreed(rnode, {q}), NameFreed(rctx, {q}), mishap, {})
    BY <1>1, <2>1, FreedKept DEF Books
  <2>3. rnode' = NodesFreed(rnode, {q}) /\ rctx' = NameFreed(rctx, {q}) /\ UNCHANGED <<answers, asked, mishap>>
    BY <1>3 DEF Resend
  <2>4. Books(rnode', rctx', mishap', {})
    BY <2>2, <2>3
  <2> QED BY <2>3, <2>4 DEF ResolverInv
<1> QED BY <1>2, <1>3

\* The time of an answer is over: only its node knows.
LEMMA OutdatedStep ==
  ASSUME ResolverInv, NEW q \in Questions, Outdated(q)
  PROVE  ResolverInv'
<1> DEFINE n == [rnode EXCEPT ![q].valid = FALSE]
<1>1. Books(rnode, rctx, mishap, {}) /\ NodesOK(rnode)
  BY DEF ResolverInv, Books
<1>2. /\ n \in [Questions -> RNode]
      /\ \A p \in Questions : /\ n[p].waiting = rnode[p].waiting /\ n[p].has = rnode[p].has
                              /\ n[p].alias = rnode[p].alias /\ n[p].queue = rnode[p].queue
  BY <1>1 DEF NodesOK, RNode
<1>3. rnode' = n /\ UNCHANGED <<rctx, answers, asked, mishap>>
  BY DEF Outdated
<1> HIDE DEF n
<1>4. NodesOK(n)
  BY <1>1, <1>2 DEF NodesOK
<1>5. /\ InQueues(n) /\ AllListed(n, rctx, mishap.astray \cup {})
      /\ NoneFreed(n, rctx, mishap.astray \cup mishap.left)
  BY <1>1, <1>2 DEF InQueues, AllListed, Listed, NoneFreed, Books
<1>6. Books(n, rctx, mishap, {})
  BY <1>1, <1>4, <1>5 DEF Books
<1>7. Books(rnode', rctx', mishap', {})
  BY <1>3, <1>6
<1> QED BY <1>3, <1>7 DEF ResolverInv

\* At first there are no nodes.
LEMMA ResolverInitInv == ResolverInit => ResolverInv
<1> HAVE ResolverInit
<1>1. NoRNode \in RNode /\ NoCtx \in RCtx
  BY ResolverAssumption DEF RNode, RCtx, NoRNode, NoCtx
<1>2. /\ rnode \in [Questions -> RNode] /\ \A q \in Questions : rnode[q] = NoRNode
      /\ rctx \in [Contexts -> RCtx] /\ \A c \in Contexts : rctx[c] = NoCtx
  BY <1>1 DEF ResolverInit
<1>3. ToSet(<<>>) = {} /\ IsInjective(<<>>)
  BY DEF ToSet, IsInjective
<1>4. NodesOK(rnode) /\ InQueues(rnode)
  BY <1>2, <1>3 DEF NodesOK, InQueues, NoRNode
<1>5. /\ CtxsOK(rctx) /\ AllListed(rnode, rctx, mishap.astray \cup {})
      /\ NoneFreed(rnode, rctx, mishap.astray \cup mishap.left)
  BY <1>2, <1>3, ResolverAssumption DEF CtxsOK, AllListed, NoneFreed, NoCtx, NoRNode, FreedName
<1>6. mishap \in Mishap
  BY DEF ResolverInit, Mishap
<1> QED BY <1>4, <1>5, <1>6 DEF ResolverInit, ResolverInv, Books

\* The invariant says what the books of the resolver are for.
LEMMA BooksAreExact == ResolverInv => WaitersExact
<1> HAVE ResolverInv
<1>1. Books(rnode, rctx, mishap, {}) /\ NodesOK(rnode) /\ CtxsOK(rctx)
  BY DEF ResolverInv, Books
<1>2. NoFreedWaiter
  <2> SUFFICES ASSUME NEW q \in Questions, NEW i \in DOMAIN rnode[q].waiting
               PROVE  LET c == rnode[q].waiting[i] IN InUse(c) \/ c \in mishap.left \cup mishap.astray
    BY DEF NoFreedWaiter
  <2> DEFINE c == rnode[q].waiting[i]
  <2>1. c \in Contexts /\ c \in ToSet(rnode[q].waiting)
    BY <1>1 DEF NodesOK, RNode, ToSet
  <2> HIDE DEF c
  <2>2. InUse(c) \/ c \in mishap.left \cup mishap.astray
    BY <1>1, <2>1 DEF NoneFreed, Books, InUse, Used
  <2> QED BY <2>2 DEF c
<1>3. NodesQueued
  BY <1>1 DEF NodesQueued, Books, InQueues, NodesOK, RNode
<1>4. WaitersListed
  <2> SUFFICES ASSUME NEW c \in Contexts, InUse(c), c \notin mishap.astray
               PROVE  IF rctx[c].name = FreedName THEN Cardinality(WaitingFor(c)) = 1
                      ELSE WaitingFor(c) = {rctx[c].name}
    BY DEF WaitersListed
  <2>1. Listed(rnode, rctx, c)
    BY <1>1 DEF Books, AllListed, InUse, Used
  <2>2. PICK q \in Questions : c \in ToSet(rnode[q].waiting) /\ rctx[c].name \in {q, FreedName}
    BY <2>1 DEF Listed
  <2>3. WaitingFor(c) = {q}
    BY <1>1, <2>2 DEF WaitingFor, NodesOK
  <2>4. Cardinality({q}) = 1
    BY FS_Singleton
  <2> QED BY <2>2, <2>3, <2>4
<1> QED BY <1>2, <1>3, <1>4 DEF WaitersExact

\* For any names, aliases, contexts and length of CNAME chains: each context waits on the node that its
\* answer looks at, no list of the resolver holds a freed context, and each node is in the queue that
\* resends or frees it - but for the contexts that a CNAME left behind another or for whose alias no
\* query could be sent, for those finished after their name was freed with the node that owned it,
\* be there one or several of them, and for nodes whose resend failed
\* (ngx_resolve_name_locked, ngx_resolve_name_done, ngx_resolver_process_response, ngx_resolver_resend).
THEOREM WaitersKept == ResolverSpec => []WaitersExact
<1>1. ResolverInv /\ [ResolverNext]_resolverVars => ResolverInv'
  <2> SUFFICES ASSUME ResolverInv, [ResolverNext]_resolverVars PROVE ResolverInv'
    OBVIOUS
  <2>1. CASE UNCHANGED resolverVars
    <3>1. Books(rnode', rctx', mishap', {})
      BY <2>1 DEF resolverVars, ResolverInv
    <3> QED BY <2>1, <3>1 DEF resolverVars, ResolverInv
  <2>2. CASE Undefined
    <3>1. UNCHANGED resolverVars
      BY <2>2 DEF Undefined
    <3> QED BY <2>1, <3>1
  <2> QED BY <2>1, <2>2, ResolveStep, DoneStep, AnswerOkStep, AnswerErrorStep, AnswerAliasStep, ResendStep,
             OutdatedStep DEF ResolverNext
<1> QED BY <1>1, ResolverInitInv, BooksAreExact, PTL DEF ResolverSpec

=============================================================================
