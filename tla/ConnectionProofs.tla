-------------------------- MODULE ConnectionProofs --------------------------
(***************************************************************************)
(* Proofs about three parts of the way of a connection: AcceptMutex, for   *)
(* any number of workers and listening sockets, any size of the connection *)
(* pool and any number of clients, faults and killed workers; Phases, for  *)
(* any configuration and any numbers of handlers of the phases; and        *)
(* RequestReader, for any stream of requests, any sizes and number of the  *)
(* buffers, and however the bytes arrive.                                  *)
(***************************************************************************)
EXTENDS AcceptMutex, Phases, RequestReader, SequenceLemmas, WellFoundedInduction

-----------------------------------------------------------------------------
(* The types of the workers *)

\* ngx_event_accept works on a socket.
CurOK == \A w \in Workers : pc[w] = "accept" => cur[w] \in Listens

\* The initial connection pool and the number of sockets are numbers.
LEMMA Sizes == Cardinality(Listens) \in Nat /\ FreshFree \in Nat
BY SizesAssumption, FS_CardinalityType DEF FreshFree

\* Draining closes some of the keepalive connections, and only when none is free.
LEMMA DrainedType ==
  ASSUME TypeOK, NEW w \in Workers
  PROVE  /\ Drained(w) \in Nat /\ Drained(w) <= idle[w]
         /\ Shed(w) \in Nat
BY SizesAssumption DEF TypeOK, Drained, Shed

\* A new set of workers has the right types.
LEMMA TypeInit == Init => TypeOK /\ CurOK
BY Sizes, NamesAssumption DEF Init, TypeOK, CurOK, Points

\* Every step of every worker, the master and the clients keeps the types.
LEMMA TypeNext == TypeOK /\ CurOK /\ [Next]_vars => TypeOK'
<1> SUFFICES ASSUME TypeOK, CurOK, [Next]_vars PROVE TypeOK'
  OBVIOUS
<1> USE Sizes, DrainedType, NamesAssumption DEF TypeOK, CurOK, Points, vars, shared, loop, pool, env, Goto, Set
<1>1. CASE UNCHANGED vars
  BY <1>1 DEF vars
<1>2. ASSUME NEW w \in Workers, SkipMutex(w) PROVE TypeOK'
  BY <1>2 DEF SkipMutex
<1>3. ASSUME NEW w \in Workers, TryLockOk(w) PROVE TypeOK'
  BY <1>3 DEF TryLockOk, Contends
<1>4. ASSUME NEW w \in Workers, TryLockFail(w) PROVE TypeOK'
  BY <1>4 DEF TryLockFail, Contends, Unregister
<1>5. ASSUME NEW w \in Workers, DisableFail(w) PROVE TypeOK'
  BY <1>5 DEF DisableFail, Contends
<1>6. ASSUME NEW w \in Workers, Enable(w) PROVE TypeOK'
  BY <1>6 DEF Enable
<1>7. ASSUME NEW w \in Workers, EnableFail(w) PROVE TypeOK'
  BY <1>7 DEF EnableFail, GiveUp, UnlockWord
<1>8. ASSUME NEW w \in Workers, ExitingIteration(w) PROVE TypeOK'
  BY <1>8 DEF ExitingIteration
<1>9. ASSUME NEW w \in Workers, Poll(w) PROVE TypeOK'
  BY <1>9 DEF Poll, Ready
<1>10. ASSUME NEW w \in Workers, PollOther(w) PROVE TypeOK'
  BY <1>10 DEF PollOther
<1>11. ASSUME NEW w \in Workers, NextAccept(w) PROVE TypeOK'
  BY <1>11 DEF NextAccept
<1>12. ASSUME NEW w \in Workers, EventsDone(w) PROVE TypeOK'
  BY <1>12 DEF EventsDone
<1>13. ASSUME NEW w \in Workers, AcceptAgain(w) PROVE TypeOK'
  BY <1>13 DEF AcceptAgain, Return
<1>14. ASSUME NEW w \in Workers, AcceptError(w) PROVE TypeOK'
  BY <1>14 DEF AcceptError, Return
<1>15. ASSUME NEW w \in Workers, AcceptAborted(w) PROVE TypeOK'
  BY <1>15 DEF AcceptAborted, Again, Take
<1>16. ASSUME NEW w \in Workers, AcceptNoConnection(w) PROVE TypeOK'
  BY <1>16 DEF AcceptNoConnection, Return, Take
<1>17. ASSUME NEW w \in Workers, AcceptOk(w) PROVE TypeOK'
  BY <1>17 DEF AcceptOk, Again, Take, GetConnection
<1>18. ASSUME NEW w \in Workers, AcceptFail(w) PROVE TypeOK'
  BY <1>18 DEF AcceptFail, Return, Take, CloseAccepted
<1>19. ASSUME NEW w \in Workers, Unlock(w) PROVE TypeOK'
  BY <1>19 DEF Unlock, Release, UnlockWord
<1>20. ASSUME NEW w \in Workers, OpenUpstream(w) PROVE TypeOK'
  BY <1>20 DEF OpenUpstream, GetConnection
<1>21. ASSUME NEW w \in Workers, CloseBusy(w) PROVE TypeOK'
  BY <1>21 DEF CloseBusy
<1>22. ASSUME NEW w \in Workers, Keepalive(w) PROVE TypeOK'
  BY <1>22 DEF Keepalive
<1>23. ASSUME NEW w \in Workers, Rearm(w) PROVE TypeOK'
  BY <1>23 DEF Rearm
<1>24. ASSUME NEW w \in Workers, RestDone(w) PROVE TypeOK'
  BY <1>24 DEF RestDone
<1>25. ASSUME NEW w \in Workers, Continue(w) PROVE TypeOK'
  BY <1>25 DEF Continue
<1>26. ASSUME NEW w \in Workers, Quit(w) PROVE TypeOK'
  BY <1>26 DEF Quit
<1>27. ASSUME NEW w \in Workers, Terminate(w) PROVE TypeOK'
  BY <1>27 DEF Terminate
<1>28. ASSUME NEW w \in Workers, Crash(w) PROVE TypeOK'
  BY <1>28 DEF Crash
<1>29. ASSUME NEW w \in Workers, Reap(w) PROVE TypeOK'
  BY <1>29 DEF Reap
<1>30. ASSUME NEW l \in Listens, Arrive(l) PROVE TypeOK'
  BY <1>30 DEF Arrive
<1> QED
  BY <1>1, <1>2, <1>3, <1>4, <1>5, <1>6, <1>7, <1>8, <1>9, <1>10, <1>11, <1>12, <1>13,
     <1>14, <1>15, <1>16, <1>17, <1>18, <1>19, <1>20, <1>21, <1>22, <1>23, <1>24,
     <1>25, <1>26, <1>27, <1>28, <1>29, <1>30
  DEF Next, Loop, Handlers, Mishap

\* ngx_event_accept runs with the socket that NextAccept took from the list.
LEMMA CurNext == TypeOK /\ CurOK /\ [Next]_vars => CurOK'
<1> SUFFICES ASSUME TypeOK, CurOK, [Next]_vars PROVE CurOK'
  OBVIOUS
<1> USE DEF TypeOK, CurOK, vars, shared, loop, pool, env, Goto, Set
<1>1. CASE UNCHANGED vars
  BY <1>1 DEF vars
<1>2. ASSUME NEW w \in Workers, SkipMutex(w) PROVE CurOK'
  BY <1>2 DEF SkipMutex
<1>3. ASSUME NEW w \in Workers, TryLockOk(w) PROVE CurOK'
  BY <1>3 DEF TryLockOk, Contends
<1>4. ASSUME NEW w \in Workers, TryLockFail(w) PROVE CurOK'
  BY <1>4 DEF TryLockFail, Contends, Unregister
<1>5. ASSUME NEW w \in Workers, DisableFail(w) PROVE CurOK'
  BY <1>5 DEF DisableFail, Contends
<1>6. ASSUME NEW w \in Workers, Enable(w) PROVE CurOK'
  BY <1>6 DEF Enable
<1>7. ASSUME NEW w \in Workers, EnableFail(w) PROVE CurOK'
  BY <1>7 DEF EnableFail, GiveUp, UnlockWord
<1>8. ASSUME NEW w \in Workers, ExitingIteration(w) PROVE CurOK'
  BY <1>8 DEF ExitingIteration
<1>9. ASSUME NEW w \in Workers, Poll(w) PROVE CurOK'
  BY <1>9 DEF Poll, Ready
<1>10. ASSUME NEW w \in Workers, PollOther(w) PROVE CurOK'
  BY <1>10 DEF PollOther
<1>11. ASSUME NEW w \in Workers, NextAccept(w) PROVE CurOK'
  BY <1>11 DEF NextAccept
<1>12. ASSUME NEW w \in Workers, EventsDone(w) PROVE CurOK'
  BY <1>12 DEF EventsDone
<1>13. ASSUME NEW w \in Workers, AcceptAgain(w) PROVE CurOK'
  BY <1>13 DEF AcceptAgain, Return
<1>14. ASSUME NEW w \in Workers, AcceptError(w) PROVE CurOK'
  BY <1>14 DEF AcceptError, Return
<1>15. ASSUME NEW w \in Workers, AcceptAborted(w) PROVE CurOK'
  BY <1>15 DEF AcceptAborted, Again, Take
<1>16. ASSUME NEW w \in Workers, AcceptNoConnection(w) PROVE CurOK'
  BY <1>16 DEF AcceptNoConnection, Return, Take
<1>17. ASSUME NEW w \in Workers, AcceptOk(w) PROVE CurOK'
  BY <1>17 DEF AcceptOk, Again, Take, GetConnection
<1>18. ASSUME NEW w \in Workers, AcceptFail(w) PROVE CurOK'
  BY <1>18 DEF AcceptFail, Return, Take, CloseAccepted
<1>19. ASSUME NEW w \in Workers, Unlock(w) PROVE CurOK'
  BY <1>19 DEF Unlock, Release, UnlockWord
<1>20. ASSUME NEW w \in Workers, OpenUpstream(w) PROVE CurOK'
  BY <1>20 DEF OpenUpstream, GetConnection
<1>21. ASSUME NEW w \in Workers, CloseBusy(w) PROVE CurOK'
  BY <1>21 DEF CloseBusy
<1>22. ASSUME NEW w \in Workers, Keepalive(w) PROVE CurOK'
  BY <1>22 DEF Keepalive
<1>23. ASSUME NEW w \in Workers, Rearm(w) PROVE CurOK'
  BY <1>23 DEF Rearm
<1>24. ASSUME NEW w \in Workers, RestDone(w) PROVE CurOK'
  BY <1>24 DEF RestDone
<1>25. ASSUME NEW w \in Workers, Continue(w) PROVE CurOK'
  BY <1>25 DEF Continue
<1>26. ASSUME NEW w \in Workers, Quit(w) PROVE CurOK'
  BY <1>26 DEF Quit
<1>27. ASSUME NEW w \in Workers, Terminate(w) PROVE CurOK'
  BY <1>27 DEF Terminate
<1>28. ASSUME NEW w \in Workers, Crash(w) PROVE CurOK'
  BY <1>28 DEF Crash
<1>29. ASSUME NEW w \in Workers, Reap(w) PROVE CurOK'
  BY <1>29 DEF Reap
<1>30. ASSUME NEW l \in Listens, Arrive(l) PROVE CurOK'
  BY <1>30 DEF Arrive
<1> QED
  BY <1>1, <1>2, <1>3, <1>4, <1>5, <1>6, <1>7, <1>8, <1>9, <1>10, <1>11, <1>12, <1>13,
     <1>14, <1>15, <1>16, <1>17, <1>18, <1>19, <1>20, <1>21, <1>22, <1>23, <1>24,
     <1>25, <1>26, <1>27, <1>28, <1>29, <1>30
  DEF Next, Loop, Handlers, Mishap

\* Type correctness of the event loops of all workers.
THEOREM TypeCorrect == Spec => [](TypeOK /\ CurOK)
BY TypeInit, TypeNext, CurNext, PTL DEF Spec

-----------------------------------------------------------------------------
(* The connection pool *)

\* Every step keeps the account of connections.
LEMMA ConnNext == TypeOK /\ ConnAccounting /\ [Next]_vars => ConnAccounting'
<1> SUFFICES ASSUME TypeOK, ConnAccounting, [Next]_vars PROVE ConnAccounting'
  OBVIOUS
<1> USE Sizes, DrainedType, SizesAssumption DEF TypeOK, ConnAccounting, FreshFree, vars, shared, loop, pool, env, Goto, Set
<1>1. CASE UNCHANGED vars
  BY <1>1 DEF vars
<1>2. ASSUME NEW w \in Workers, SkipMutex(w) PROVE ConnAccounting'
  BY <1>2 DEF SkipMutex
<1>3. ASSUME NEW w \in Workers, TryLockOk(w) PROVE ConnAccounting'
  BY <1>3 DEF TryLockOk, Contends
<1>4. ASSUME NEW w \in Workers, TryLockFail(w) PROVE ConnAccounting'
  BY <1>4 DEF TryLockFail, Contends, Unregister
<1>5. ASSUME NEW w \in Workers, DisableFail(w) PROVE ConnAccounting'
  BY <1>5 DEF DisableFail, Contends
<1>6. ASSUME NEW w \in Workers, Enable(w) PROVE ConnAccounting'
  BY <1>6 DEF Enable
<1>7. ASSUME NEW w \in Workers, EnableFail(w) PROVE ConnAccounting'
  BY <1>7 DEF EnableFail, GiveUp, UnlockWord
<1>8. ASSUME NEW w \in Workers, ExitingIteration(w) PROVE ConnAccounting'
  BY <1>8 DEF ExitingIteration
<1>9. ASSUME NEW w \in Workers, Poll(w) PROVE ConnAccounting'
  BY <1>9 DEF Poll, Ready
<1>10. ASSUME NEW w \in Workers, PollOther(w) PROVE ConnAccounting'
  BY <1>10 DEF PollOther
<1>11. ASSUME NEW w \in Workers, NextAccept(w) PROVE ConnAccounting'
  BY <1>11 DEF NextAccept
<1>12. ASSUME NEW w \in Workers, EventsDone(w) PROVE ConnAccounting'
  BY <1>12 DEF EventsDone
<1>13. ASSUME NEW w \in Workers, AcceptAgain(w) PROVE ConnAccounting'
  BY <1>13 DEF AcceptAgain, Return
<1>14. ASSUME NEW w \in Workers, AcceptError(w) PROVE ConnAccounting'
  BY <1>14 DEF AcceptError, Return
<1>15. ASSUME NEW w \in Workers, AcceptAborted(w) PROVE ConnAccounting'
  BY <1>15 DEF AcceptAborted, Again, Take
<1>16. ASSUME NEW w \in Workers, AcceptNoConnection(w) PROVE ConnAccounting'
  BY <1>16 DEF AcceptNoConnection, Return, Take
<1>17. ASSUME NEW w \in Workers, AcceptOk(w) PROVE ConnAccounting'
  BY <1>17 DEF AcceptOk, Again, Take, GetConnection
<1>18. ASSUME NEW w \in Workers, AcceptFail(w) PROVE ConnAccounting'
  BY <1>18 DEF AcceptFail, Return, Take, CloseAccepted
<1>19. ASSUME NEW w \in Workers, Unlock(w) PROVE ConnAccounting'
  BY <1>19 DEF Unlock, Release, UnlockWord
<1>20. ASSUME NEW w \in Workers, OpenUpstream(w) PROVE ConnAccounting'
  BY SMTT(30), <1>20 DEF OpenUpstream, GetConnection
<1>21. ASSUME NEW w \in Workers, CloseBusy(w) PROVE ConnAccounting'
  BY <1>21 DEF CloseBusy
<1>22. ASSUME NEW w \in Workers, Keepalive(w) PROVE ConnAccounting'
  BY <1>22 DEF Keepalive
<1>23. ASSUME NEW w \in Workers, Rearm(w) PROVE ConnAccounting'
  BY SMTT(30), <1>23 DEF Rearm
<1>24. ASSUME NEW w \in Workers, RestDone(w) PROVE ConnAccounting'
  BY <1>24 DEF RestDone
<1>25. ASSUME NEW w \in Workers, Continue(w) PROVE ConnAccounting'
  BY <1>25 DEF Continue
<1>26. ASSUME NEW w \in Workers, Quit(w) PROVE ConnAccounting'
  BY <1>26 DEF Quit
<1>27. ASSUME NEW w \in Workers, Terminate(w) PROVE ConnAccounting'
  BY <1>27 DEF Terminate
<1>28. ASSUME NEW w \in Workers, Crash(w) PROVE ConnAccounting'
  BY <1>28 DEF Crash
<1>29. ASSUME NEW w \in Workers, Reap(w) PROVE ConnAccounting'
  BY <1>29 DEF Reap
<1>30. ASSUME NEW l \in Listens, Arrive(l) PROVE ConnAccounting'
  BY <1>30 DEF Arrive
<1> QED
  BY <1>1, <1>2, <1>3, <1>4, <1>5, <1>6, <1>7, <1>8, <1>9, <1>10, <1>11, <1>12, <1>13,
     <1>14, <1>15, <1>16, <1>17, <1>18, <1>19, <1>20, <1>21, <1>22, <1>23, <1>24,
     <1>25, <1>26, <1>27, <1>28, <1>29, <1>30
  DEF Next, Loop, Handlers, Mishap

\* The free counter of every worker is exact, whatever its accepts and requests do.
THEOREM ConnSafe == Spec => []ConnAccounting
<1>1. Init => ConnAccounting
  BY Sizes, SizesAssumption DEF Init, ConnAccounting, FreshFree
<1> QED BY <1>1, TypeCorrect, ConnNext, PTL DEF Spec

-----------------------------------------------------------------------------
(* Which sockets are registered *)

(***************************************************************************)
(* The inductive invariant: events come only from registered sockets and   *)
(* are handled within the iteration; a worker that believes to hold the    *)
(* mutex, that sheds load or that sleeps without a timeout has registered  *)
(* sockets; without epoll_ctl() errors it is all of them or none.          *)
(***************************************************************************)
RegOK == \A w \in Workers :
  /\ posted[w] \subseteq active[w]
  /\ pc[w] = "accept" => cur[w] \in active[w]
  /\ pc[w] \notin {"events", "accept", "dead"} => posted[w] = {}
  /\ held[w] => active[w] # {}
  /\ disabled[w] > 0 /\ ~exiting[w] => active[w] # {}
  /\ pc[w] = "wait" /\ ~timed[w] /\ ~exiting[w] => active[w] # {}
  /\ faults = 0 => active[w] \in {{}, Listens}

\* RegOK is inductive.
LEMMA RegNext == TypeOK /\ RegOK /\ [Next]_vars => RegOK'
<1> SUFFICES ASSUME TypeOK, RegOK, [Next]_vars PROVE RegOK'
  OBVIOUS
<1> USE SizesAssumption, DrainedType DEF TypeOK, RegOK, vars, shared, loop, pool, env, Goto, Set
<1>1. CASE UNCHANGED vars
  BY <1>1 DEF vars
<1>2. ASSUME NEW w \in Workers, SkipMutex(w) PROVE RegOK'
  BY <1>2 DEF SkipMutex
<1>3. ASSUME NEW w \in Workers, TryLockOk(w) PROVE RegOK'
  BY <1>3 DEF TryLockOk, Contends
<1>4. ASSUME NEW w \in Workers, TryLockFail(w) PROVE RegOK'
  BY <1>4 DEF TryLockFail, Contends, Unregister
<1>5. ASSUME NEW w \in Workers, DisableFail(w) PROVE RegOK'
  <2>1. PICK kept \in SUBSET active[w] : kept # {} /\ active' = Set(active, w, kept)
    BY <1>5 DEF DisableFail
  <2>2. faults' # 0 /\ UNCHANGED <<posted, held, disabled, timed, exiting, cur>>
    BY <1>5 DEF DisableFail
  <2>3. pc[w] = "top" /\ pc' = Set(pc, w, "flags")
    BY <1>5 DEF DisableFail, Contends
  <2> QED BY <2>1, <2>2, <2>3
<1>6. ASSUME NEW w \in Workers, Enable(w) PROVE RegOK'
  BY <1>6 DEF Enable
<1>7. ASSUME NEW w \in Workers, EnableFail(w) PROVE RegOK'
  BY <1>7 DEF EnableFail, GiveUp, UnlockWord
<1>8. ASSUME NEW w \in Workers, ExitingIteration(w) PROVE RegOK'
  BY <1>8 DEF ExitingIteration
<1>9. ASSUME NEW w \in Workers, Poll(w) PROVE RegOK'
  BY <1>9 DEF Poll, Ready
<1>10. ASSUME NEW w \in Workers, PollOther(w) PROVE RegOK'
  BY <1>10 DEF PollOther
<1>11. ASSUME NEW w \in Workers, NextAccept(w) PROVE RegOK'
  BY <1>11 DEF NextAccept
<1>12. ASSUME NEW w \in Workers, EventsDone(w) PROVE RegOK'
  BY <1>12 DEF EventsDone
<1>13. ASSUME NEW w \in Workers, AcceptAgain(w) PROVE RegOK'
  BY <1>13 DEF AcceptAgain, Return
<1>14. ASSUME NEW w \in Workers, AcceptError(w) PROVE RegOK'
  BY <1>14 DEF AcceptError, Return
<1>15. ASSUME NEW w \in Workers, AcceptAborted(w) PROVE RegOK'
  BY <1>15 DEF AcceptAborted, Again, Take
<1>16. ASSUME NEW w \in Workers, AcceptNoConnection(w) PROVE RegOK'
  BY <1>16 DEF AcceptNoConnection, Return, Take
<1>17. ASSUME NEW w \in Workers, AcceptOk(w) PROVE RegOK'
  BY <1>17 DEF AcceptOk, Again, Take, GetConnection
<1>18. ASSUME NEW w \in Workers, AcceptFail(w) PROVE RegOK'
  BY <1>18 DEF AcceptFail, Return, Take, CloseAccepted
<1>19. ASSUME NEW w \in Workers, Unlock(w) PROVE RegOK'
  BY <1>19 DEF Unlock, Release, UnlockWord
<1>20. ASSUME NEW w \in Workers, OpenUpstream(w) PROVE RegOK'
  BY <1>20 DEF OpenUpstream, GetConnection
<1>21. ASSUME NEW w \in Workers, CloseBusy(w) PROVE RegOK'
  BY <1>21 DEF CloseBusy
<1>22. ASSUME NEW w \in Workers, Keepalive(w) PROVE RegOK'
  BY <1>22 DEF Keepalive
<1>23. ASSUME NEW w \in Workers, Rearm(w) PROVE RegOK'
  BY <1>23 DEF Rearm
<1>24. ASSUME NEW w \in Workers, RestDone(w) PROVE RegOK'
  BY <1>24 DEF RestDone
<1>25. ASSUME NEW w \in Workers, Continue(w) PROVE RegOK'
  BY <1>25 DEF Continue
<1>26. ASSUME NEW w \in Workers, Quit(w) PROVE RegOK'
  BY <1>26 DEF Quit
<1>27. ASSUME NEW w \in Workers, Terminate(w) PROVE RegOK'
  BY <1>27 DEF Terminate
<1>28. ASSUME NEW w \in Workers, Crash(w) PROVE RegOK'
  BY <1>28 DEF Crash
<1>29. ASSUME NEW w \in Workers, Reap(w) PROVE RegOK'
  BY <1>29 DEF Reap
<1>30. ASSUME NEW l \in Listens, Arrive(l) PROVE RegOK'
  BY <1>30 DEF Arrive
<1> QED
  BY <1>1, <1>2, <1>3, <1>4, <1>5, <1>6, <1>7, <1>8, <1>9, <1>10, <1>11, <1>12, <1>13,
     <1>14, <1>15, <1>16, <1>17, <1>18, <1>19, <1>20, <1>21, <1>22, <1>23, <1>24,
     <1>25, <1>26, <1>27, <1>28, <1>29, <1>30
  DEF Next, Loop, Handlers, Mishap

\* A worker never sleeps without a timeout and without its listening sockets.
THEOREM NoDeafWorker == Spec => [](NoDeafSleep /\ ShedderStaysRegistered)
<1>1. Init => RegOK
  BY SizesAssumption DEF Init, RegOK
<1>2. RegOK => NoDeafSleep /\ ShedderStaysRegistered
  BY DEF RegOK, NoDeafSleep, ShedderStaysRegistered
<1> QED BY <1>1, <1>2, TypeCorrect, RegNext, PTL DEF Spec

-----------------------------------------------------------------------------
(* The accept mutex *)

\* The bit is set while somebody owns it, and an owner past the registration of the
\* sockets believes that it holds the mutex, so that it will unlock.
OwnOK ==
  /\ word = None => owner = None
  /\ ReleasedEveryIteration
  /\ \A w \in Workers : owner = w /\ pc[w] \notin {"enable", "dead"} => held[w]

\* OwnOK is inductive.
LEMMA OwnNext == TypeOK /\ OwnOK /\ [Next]_vars => OwnOK'
<1> SUFFICES ASSUME TypeOK, OwnOK, [Next]_vars PROVE OwnOK'
  OBVIOUS
<1> USE NamesAssumption DEF TypeOK, OwnOK, ReleasedEveryIteration, vars, shared, loop, pool, env, Goto, Set
<1>1. CASE UNCHANGED vars
  BY <1>1 DEF vars
<1>2. ASSUME NEW w \in Workers, SkipMutex(w) PROVE OwnOK'
  BY <1>2 DEF SkipMutex
<1>3. ASSUME NEW w \in Workers, TryLockOk(w) PROVE OwnOK'
  BY <1>3 DEF TryLockOk, Contends
<1>4. ASSUME NEW w \in Workers, TryLockFail(w) PROVE OwnOK'
  BY <1>4 DEF TryLockFail, Contends, Unregister
<1>5. ASSUME NEW w \in Workers, DisableFail(w) PROVE OwnOK'
  BY <1>5 DEF DisableFail, Contends
<1>6. ASSUME NEW w \in Workers, Enable(w) PROVE OwnOK'
  BY <1>6 DEF Enable
<1>7. ASSUME NEW w \in Workers, EnableFail(w) PROVE OwnOK'
  BY <1>7 DEF EnableFail, GiveUp, UnlockWord
<1>8. ASSUME NEW w \in Workers, ExitingIteration(w) PROVE OwnOK'
  BY <1>8 DEF ExitingIteration
<1>9. ASSUME NEW w \in Workers, Poll(w) PROVE OwnOK'
  BY <1>9 DEF Poll, Ready
<1>10. ASSUME NEW w \in Workers, PollOther(w) PROVE OwnOK'
  BY <1>10 DEF PollOther
<1>11. ASSUME NEW w \in Workers, NextAccept(w) PROVE OwnOK'
  BY <1>11 DEF NextAccept
<1>12. ASSUME NEW w \in Workers, EventsDone(w) PROVE OwnOK'
  BY <1>12 DEF EventsDone
<1>13. ASSUME NEW w \in Workers, AcceptAgain(w) PROVE OwnOK'
  BY <1>13 DEF AcceptAgain, Return
<1>14. ASSUME NEW w \in Workers, AcceptError(w) PROVE OwnOK'
  BY <1>14 DEF AcceptError, Return
<1>15. ASSUME NEW w \in Workers, AcceptAborted(w) PROVE OwnOK'
  BY <1>15 DEF AcceptAborted, Again, Take
<1>16. ASSUME NEW w \in Workers, AcceptNoConnection(w) PROVE OwnOK'
  BY <1>16 DEF AcceptNoConnection, Return, Take
<1>17. ASSUME NEW w \in Workers, AcceptOk(w) PROVE OwnOK'
  BY <1>17 DEF AcceptOk, Again, Take, GetConnection
<1>18. ASSUME NEW w \in Workers, AcceptFail(w) PROVE OwnOK'
  BY <1>18 DEF AcceptFail, Return, Take, CloseAccepted
<1>19. ASSUME NEW w \in Workers, Unlock(w) PROVE OwnOK'
  BY <1>19 DEF Unlock, Release, UnlockWord
<1>20. ASSUME NEW w \in Workers, OpenUpstream(w) PROVE OwnOK'
  BY <1>20 DEF OpenUpstream, GetConnection
<1>21. ASSUME NEW w \in Workers, CloseBusy(w) PROVE OwnOK'
  BY <1>21 DEF CloseBusy
<1>22. ASSUME NEW w \in Workers, Keepalive(w) PROVE OwnOK'
  BY <1>22 DEF Keepalive
<1>23. ASSUME NEW w \in Workers, Rearm(w) PROVE OwnOK'
  BY <1>23 DEF Rearm
<1>24. ASSUME NEW w \in Workers, RestDone(w) PROVE OwnOK'
  BY <1>24 DEF RestDone
<1>25. ASSUME NEW w \in Workers, Continue(w) PROVE OwnOK'
  BY <1>25 DEF Continue
<1>26. ASSUME NEW w \in Workers, Quit(w) PROVE OwnOK'
  BY <1>26 DEF Quit
<1>27. ASSUME NEW w \in Workers, Terminate(w) PROVE OwnOK'
  BY <1>27 DEF Terminate
<1>28. ASSUME NEW w \in Workers, Crash(w) PROVE OwnOK'
  BY <1>28 DEF Crash
<1>29. ASSUME NEW w \in Workers, Reap(w) PROVE OwnOK'
  BY <1>29 DEF Reap
<1>30. ASSUME NEW l \in Listens, Arrive(l) PROVE OwnOK'
  BY <1>30 DEF Arrive
<1> QED
  BY <1>1, <1>2, <1>3, <1>4, <1>5, <1>6, <1>7, <1>8, <1>9, <1>10, <1>11, <1>12, <1>13,
     <1>14, <1>15, <1>16, <1>17, <1>18, <1>19, <1>20, <1>21, <1>22, <1>23, <1>24,
     <1>25, <1>26, <1>27, <1>28, <1>29, <1>30
  DEF Next, Loop, Handlers, Mishap

\* No worker leaves an iteration with the accept mutex locked.
THEOREM MutexReleased == Spec => []ReleasedEveryIteration
<1>1. Init => OwnOK
  BY NamesAssumption DEF Init, OwnOK, ReleasedEveryIteration
<1>2. OwnOK => ReleasedEveryIteration
  BY DEF OwnOK
<1> QED BY <1>1, <1>2, TypeCorrect, OwnNext, PTL DEF Spec

(***************************************************************************)
(* With fewer than eight worker_connections, connection_n / 8 is 0 and no  *)
(* worker ever skips the mutex: then who believes to hold it owns it.      *)
(***************************************************************************)
SmallOK == ConnN < 8 => \A w \in Workers :
  /\ disabled[w] = 0
  /\ exiting[w] => ~held[w]
  /\ pc[w] = "enable" => owner = w /\ ~exiting[w]
  /\ pc[w] \in {"wait", "events", "accept", "unlock"} /\ held[w] => owner = w

\* A small pool never sheds load.
LEMMA SmallShed == ASSUME TypeOK, ConnN < 8, NEW w \in Workers PROVE Shed(w) = 0
<1>1. ConnN \div 8 = 0
  BY SizesAssumption
<1> QED BY <1>1 DEF Shed, TypeOK

\* SmallOK is inductive.
LEMMA SmallNext == TypeOK /\ OwnOK /\ SmallOK /\ [Next]_vars => SmallOK'
<1> SUFFICES ASSUME TypeOK, OwnOK, SmallOK, [Next]_vars PROVE SmallOK'
  OBVIOUS
<1> USE NamesAssumption, SmallShed DEF TypeOK, OwnOK, SmallOK, vars, shared, loop, pool, env, Goto, Set
<1>1. CASE UNCHANGED vars
  BY <1>1 DEF vars
<1>2. ASSUME NEW w \in Workers, SkipMutex(w) PROVE SmallOK'
  BY <1>2 DEF SkipMutex
<1>3. ASSUME NEW w \in Workers, TryLockOk(w) PROVE SmallOK'
  BY <1>3 DEF TryLockOk, Contends
<1>4. ASSUME NEW w \in Workers, TryLockFail(w) PROVE SmallOK'
  BY <1>4 DEF TryLockFail, Contends, Unregister
<1>5. ASSUME NEW w \in Workers, DisableFail(w) PROVE SmallOK'
  BY <1>5 DEF DisableFail, Contends
<1>6. ASSUME NEW w \in Workers, Enable(w) PROVE SmallOK'
  BY <1>6 DEF Enable
<1>7. ASSUME NEW w \in Workers, EnableFail(w) PROVE SmallOK'
  BY <1>7 DEF EnableFail, GiveUp, UnlockWord
<1>8. ASSUME NEW w \in Workers, ExitingIteration(w) PROVE SmallOK'
  BY <1>8 DEF ExitingIteration
<1>9. ASSUME NEW w \in Workers, Poll(w) PROVE SmallOK'
  BY <1>9 DEF Poll, Ready
<1>10. ASSUME NEW w \in Workers, PollOther(w) PROVE SmallOK'
  BY <1>10 DEF PollOther
<1>11. ASSUME NEW w \in Workers, NextAccept(w) PROVE SmallOK'
  BY <1>11 DEF NextAccept
<1>12. ASSUME NEW w \in Workers, EventsDone(w) PROVE SmallOK'
  BY <1>12 DEF EventsDone
<1>13. ASSUME NEW w \in Workers, AcceptAgain(w) PROVE SmallOK'
  BY <1>13 DEF AcceptAgain, Return
<1>14. ASSUME NEW w \in Workers, AcceptError(w) PROVE SmallOK'
  BY <1>14 DEF AcceptError, Return
<1>15. ASSUME NEW w \in Workers, AcceptAborted(w) PROVE SmallOK'
  BY <1>15 DEF AcceptAborted, Again, Take
<1>16. ASSUME NEW w \in Workers, AcceptNoConnection(w) PROVE SmallOK'
  BY <1>16 DEF AcceptNoConnection, Return, Take
<1>17. ASSUME NEW w \in Workers, AcceptOk(w) PROVE SmallOK'
  BY <1>17 DEF AcceptOk, Again, Take, GetConnection
<1>18. ASSUME NEW w \in Workers, AcceptFail(w) PROVE SmallOK'
  BY <1>18 DEF AcceptFail, Return, Take, CloseAccepted
<1>19. ASSUME NEW w \in Workers, Unlock(w) PROVE SmallOK'
  BY <1>19 DEF Unlock, Release, UnlockWord
<1>20. ASSUME NEW w \in Workers, OpenUpstream(w) PROVE SmallOK'
  BY <1>20 DEF OpenUpstream, GetConnection
<1>21. ASSUME NEW w \in Workers, CloseBusy(w) PROVE SmallOK'
  BY <1>21 DEF CloseBusy
<1>22. ASSUME NEW w \in Workers, Keepalive(w) PROVE SmallOK'
  BY <1>22 DEF Keepalive
<1>23. ASSUME NEW w \in Workers, Rearm(w) PROVE SmallOK'
  BY <1>23 DEF Rearm
<1>24. ASSUME NEW w \in Workers, RestDone(w) PROVE SmallOK'
  BY <1>24 DEF RestDone
<1>25. ASSUME NEW w \in Workers, Continue(w) PROVE SmallOK'
  BY <1>25 DEF Continue
<1>26. ASSUME NEW w \in Workers, Quit(w) PROVE SmallOK'
  BY <1>26 DEF Quit
<1>27. ASSUME NEW w \in Workers, Terminate(w) PROVE SmallOK'
  BY <1>27 DEF Terminate
<1>28. ASSUME NEW w \in Workers, Crash(w) PROVE SmallOK'
  BY <1>28 DEF Crash
<1>29. ASSUME NEW w \in Workers, Reap(w) PROVE SmallOK'
  BY <1>29 DEF Reap
<1>30. ASSUME NEW l \in Listens, Arrive(l) PROVE SmallOK'
  BY <1>30 DEF Arrive
<1> QED
  BY <1>1, <1>2, <1>3, <1>4, <1>5, <1>6, <1>7, <1>8, <1>9, <1>10, <1>11, <1>12, <1>13,
     <1>14, <1>15, <1>16, <1>17, <1>18, <1>19, <1>20, <1>21, <1>22, <1>23, <1>24,
     <1>25, <1>26, <1>27, <1>28, <1>29, <1>30
  DEF Next, Loop, Handlers, Mishap

\* The cause of the foreign unlock: where ngx_accept_disabled cannot become positive
\* (fewer than eight connections), every worker clears only the bit that it set itself.
THEOREM SmallPoolOwnerReleases == ASSUME ConnN < 8 PROVE Spec => OwnerReleases
<1> DEFINE A == \A w \in Workers : owner = w /\ word' = None
                  => pc[w] \in {"enable", "unlock"} /\ pc'[w] # pc[w]
<1>1. ASSUME TypeOK, OwnOK, SmallOK, Next PROVE A
  <2> SUFFICES ASSUME NEW v \in Workers, owner = v, word' = None
               PROVE  pc[v] \in {"enable", "unlock"} /\ pc'[v] # pc[v]
    OBVIOUS
  <2>1. word = Bit
    BY <1>1, NamesAssumption DEF OwnOK, TypeOK
  <2>2. PICK w \in Workers : EnableFail(w) \/ Unlock(w)
    <3>1. ASSUME NEW w \in Workers, Reap(w) PROVE FALSE
      BY <2>1, <3>1, NamesAssumption DEF Reap
    <3>2. ASSUME NEW l \in Listens, Arrive(l) PROVE FALSE
      BY <2>1, <3>2, NamesAssumption DEF Arrive
    <3> QED
      BY ZenonT(40), <1>1, <2>1, <3>1, <3>2, NamesAssumption
      DEF Next, Loop, Handlers, Mishap, shared, SkipMutex, TryLockOk, TryLockFail, DisableFail,
          Enable, ExitingIteration, Poll, PollOther, NextAccept, EventsDone, AcceptAgain,
          AcceptError, AcceptAborted, AcceptNoConnection, AcceptOk, AcceptFail, OpenUpstream,
          CloseBusy, Keepalive, Rearm, RestDone, Continue, Quit, Terminate, Crash
  <2>3. w = v
    BY <1>1, <2>1, <2>2, NamesAssumption DEF EnableFail, Unlock, Release, SmallOK
  <2> QED BY <1>1, <2>2, <2>3 DEF EnableFail, Unlock, Goto, TypeOK
<1>2. Init => OwnOK /\ SmallOK
  BY NamesAssumption DEF Init, OwnOK, ReleasedEveryIteration, SmallOK
<1>3. TypeOK /\ OwnOK /\ SmallOK /\ [Next]_vars => [A]_vars
  BY <1>1
<1>4. Spec => [](TypeOK /\ OwnOK /\ SmallOK)
  BY <1>2, TypeCorrect, OwnNext, SmallNext, PTL DEF Spec
<1> QED BY <1>3, <1>4, PTL DEF Spec, OwnerReleases

-----------------------------------------------------------------------------
(* accept() under the mutex *)

(***************************************************************************)
(* Without epoll_ctl() errors a worker has sockets registered only while   *)
(* it believes to hold the mutex, and it registers them only when it did   *)
(* not hold it in the iteration before: EPOLL_CTL_ADD never meets a        *)
(* registered socket.                                                      *)
(***************************************************************************)
ActOK == MaxFaults = 0 => \A w \in Workers :
  /\ active[w] # {} => held[w]
  /\ pc[w] = "enable" => ~held[w]

\* ActOK is inductive.
LEMMA ActNext == TypeOK /\ ActOK /\ [Next]_vars => ActOK'
<1> SUFFICES ASSUME TypeOK, ActOK, [Next]_vars PROVE ActOK'
  OBVIOUS
<1> USE SizesAssumption DEF TypeOK, ActOK, vars, shared, loop, pool, env, Goto, Set
<1>1. CASE UNCHANGED vars
  BY <1>1 DEF vars
<1>2. ASSUME NEW w \in Workers, SkipMutex(w) PROVE ActOK'
  BY <1>2 DEF SkipMutex
<1>3. ASSUME NEW w \in Workers, TryLockOk(w) PROVE ActOK'
  BY <1>3 DEF TryLockOk, Contends
<1>4. ASSUME NEW w \in Workers, TryLockFail(w) PROVE ActOK'
  BY <1>4 DEF TryLockFail, Contends, Unregister
<1>5. ASSUME NEW w \in Workers, DisableFail(w) PROVE ActOK'
  BY <1>5 DEF DisableFail, Contends
<1>6. ASSUME NEW w \in Workers, Enable(w) PROVE ActOK'
  BY <1>6 DEF Enable
<1>7. ASSUME NEW w \in Workers, EnableFail(w) PROVE ActOK'
  BY <1>7 DEF EnableFail, GiveUp, UnlockWord
<1>8. ASSUME NEW w \in Workers, ExitingIteration(w) PROVE ActOK'
  BY <1>8 DEF ExitingIteration
<1>9. ASSUME NEW w \in Workers, Poll(w) PROVE ActOK'
  BY <1>9 DEF Poll, Ready
<1>10. ASSUME NEW w \in Workers, PollOther(w) PROVE ActOK'
  BY <1>10 DEF PollOther
<1>11. ASSUME NEW w \in Workers, NextAccept(w) PROVE ActOK'
  BY <1>11 DEF NextAccept
<1>12. ASSUME NEW w \in Workers, EventsDone(w) PROVE ActOK'
  BY <1>12 DEF EventsDone
<1>13. ASSUME NEW w \in Workers, AcceptAgain(w) PROVE ActOK'
  BY <1>13 DEF AcceptAgain, Return
<1>14. ASSUME NEW w \in Workers, AcceptError(w) PROVE ActOK'
  BY <1>14 DEF AcceptError, Return
<1>15. ASSUME NEW w \in Workers, AcceptAborted(w) PROVE ActOK'
  BY <1>15 DEF AcceptAborted, Again, Take
<1>16. ASSUME NEW w \in Workers, AcceptNoConnection(w) PROVE ActOK'
  BY <1>16 DEF AcceptNoConnection, Return, Take
<1>17. ASSUME NEW w \in Workers, AcceptOk(w) PROVE ActOK'
  BY <1>17 DEF AcceptOk, Again, Take, GetConnection
<1>18. ASSUME NEW w \in Workers, AcceptFail(w) PROVE ActOK'
  BY <1>18 DEF AcceptFail, Return, Take, CloseAccepted
<1>19. ASSUME NEW w \in Workers, Unlock(w) PROVE ActOK'
  BY <1>19 DEF Unlock, Release, UnlockWord
<1>20. ASSUME NEW w \in Workers, OpenUpstream(w) PROVE ActOK'
  BY <1>20 DEF OpenUpstream, GetConnection
<1>21. ASSUME NEW w \in Workers, CloseBusy(w) PROVE ActOK'
  BY <1>21 DEF CloseBusy
<1>22. ASSUME NEW w \in Workers, Keepalive(w) PROVE ActOK'
  BY <1>22 DEF Keepalive
<1>23. ASSUME NEW w \in Workers, Rearm(w) PROVE ActOK'
  BY <1>23 DEF Rearm
<1>24. ASSUME NEW w \in Workers, RestDone(w) PROVE ActOK'
  BY <1>24 DEF RestDone
<1>25. ASSUME NEW w \in Workers, Continue(w) PROVE ActOK'
  BY <1>25 DEF Continue
<1>26. ASSUME NEW w \in Workers, Quit(w) PROVE ActOK'
  BY <1>26 DEF Quit
<1>27. ASSUME NEW w \in Workers, Terminate(w) PROVE ActOK'
  BY <1>27 DEF Terminate
<1>28. ASSUME NEW w \in Workers, Crash(w) PROVE ActOK'
  BY <1>28 DEF Crash
<1>29. ASSUME NEW w \in Workers, Reap(w) PROVE ActOK'
  BY <1>29 DEF Reap
<1>30. ASSUME NEW l \in Listens, Arrive(l) PROVE ActOK'
  BY <1>30 DEF Arrive
<1> QED
  BY <1>1, <1>2, <1>3, <1>4, <1>5, <1>6, <1>7, <1>8, <1>9, <1>10, <1>11, <1>12, <1>13,
     <1>14, <1>15, <1>16, <1>17, <1>18, <1>19, <1>20, <1>21, <1>22, <1>23, <1>24,
     <1>25, <1>26, <1>27, <1>28, <1>29, <1>30
  DEF Next, Loop, Handlers, Mishap

\* ngx_event_accept: accept() is called only by the worker that owns the accept mutex.  The
\* two hypotheses are its two exceptions in the code: a worker that sheds load keeps its
\* sockets and skips the mutex, and one whose epoll_ctl() failed half way keeps some
\* of them without it.
THEOREM AcceptExclusive ==
  ASSUME ConnN < 8, MaxFaults = 0 PROVE Spec => []AcceptsUnderMutex
<1>1. Init => OwnOK /\ SmallOK /\ RegOK /\ ActOK
  BY NamesAssumption, SizesAssumption
  DEF Init, OwnOK, ReleasedEveryIteration, SmallOK, RegOK, ActOK
<1>2. RegOK /\ ActOK /\ SmallOK => AcceptsUnderMutex
  BY DEF RegOK, ActOK, SmallOK, AcceptsUnderMutex
<1> QED
  BY <1>1, <1>2, TypeCorrect, OwnNext, SmallNext, RegNext, ActNext, PTL DEF Spec

-----------------------------------------------------------------------------
(* The phases: the table *)

PhaseNames == HandlerPhases \cup {"find_config", "post_rewrite", "post_access"}
Row == [phase : PhaseNames, next : Nat]

\* u is t with n more rows
Adds(t, u, n, phase, next) ==
  /\ u \in Seq(Row) /\ Len(u) = Len(t) + n
  /\ \A i \in 1..Len(t) : u[i] = t[i]
  /\ \A i \in (Len(t) + 1)..(Len(t) + n) : u[i] = [phase |-> phase, next |-> next]

\* The handlers of a phase follow those of the phases before.
LEMMA HandlersAdded ==
  ASSUME NEW t \in Seq(Row), NEW n \in Nat, NEW phase \in PhaseNames, NEW next \in Nat
  PROVE  Adds(t, t \o [i \in 1..n |-> [phase |-> phase, next |-> next]], n, phase, next)
<1> DEFINE s == [i \in 1..n |-> [phase |-> phase, next |-> next]]
<1>1. s \in Seq(Row) /\ Len(s) = n /\ \A i \in 1..n : s[i] = [phase |-> phase, next |-> next]
  BY DEF Row
<1> HIDE DEF s
<1>2. /\ t \o s \in Seq(Row) /\ Len(t \o s) = Len(t) + n
      /\ \A i \in 1..(Len(t) + n) : (t \o s)[i] = IF i <= Len(t) THEN t[i] ELSE s[i - Len(t)]
  BY <1>1, ConcatProperties
<1>3. Len(t) \in Nat
  BY LenProperties
<1>4. ASSUME NEW i \in (Len(t) + 1)..(Len(t) + n) PROVE (t \o s)[i] = [phase |-> phase, next |-> next]
  BY <1>1, <1>2, <1>3
<1>5. ASSUME NEW i \in 1..Len(t) PROVE (t \o s)[i] = t[i]
  BY <1>2, <1>3
<1> QED BY <1>2, <1>4, <1>5 DEF Adds, s

\* A checker without handlers is one row, or none.
LEMMA CheckerAdded ==
  ASSUME NEW t \in Seq(Row), NEW phase \in PhaseNames, NEW next \in Nat
  PROVE  /\ Adds(t, Append(t, [phase |-> phase, next |-> next]), 1, phase, next)
         /\ Adds(t, t, 0, phase, next)
<1>1. Len(t) \in Nat
  BY LenProperties
<1>2. [phase |-> phase, next |-> next] \in Row
  BY DEF Row
<1> QED BY <1>1, <1>2, AppendProperties DEF Adds

\* the numbers of handlers
Handled(h) == (\A phase \in HandlerPhases : h[phase] \in Nat) /\ h["content"] > 0

\* where the phases of the table begin and end
FindAt(h) == Len(ToRewrite(h))
AskedAfter(h) == Len(WithPhase(ToPreaccess(h), "preaccess", h))
AskedLast(h) == Len(ToPostAccess(h))
JudgedLast(h) == Len(WithPhase(ToPostAccess(h), "post_access", h))

(***************************************************************************)
(* What the way of a request through the table e depends on: which rows    *)
(* there are, and that no `next' leads past a check.  find: the row that   *)
(* looks for the location; after, last: the a access handlers are the rows *)
(* in between; judged: the row of the check behind them, if there is one.  *)
(***************************************************************************)
Rows(e, find, after, last, judged) ==
  \A i \in 1..Len(e) :
    /\ e[i].phase \in {"post_read", "server_rewrite"} <=> i < find
    /\ e[i].phase = "find_config" <=> i = find
    /\ e[i].phase \in {"rewrite", "post_rewrite", "preaccess"} <=> find < i /\ i <= after
    /\ e[i].phase = "access" <=> after < i /\ i <= last
    /\ e[i].phase = "post_access" <=> last < i /\ i <= judged
    /\ e[i].phase \in {"try_files", "content"} <=> judged < i
Nexts(e, find, after, judged) ==
  \A i \in 1..Len(e) :
    /\ e[i].phase = "post_read" => i < e[i].next /\ e[i].next <= find
    /\ e[i].phase = "post_rewrite" => e[i].next = find
    /\ e[i].phase = "preaccess" => i < e[i].next /\ e[i].next <= after + 1
    /\ e[i].phase = "access" => e[i].next = judged + 1
Bounds(find, after, last, judged, a) ==
  /\ find \in Nat \ {0} /\ after \in Nat /\ last \in Nat /\ judged \in Nat /\ find <= after
  /\ last = after + a /\ judged = last + (IF a = 0 THEN 0 ELSE 1)
Outlined(e, find, after, last, judged, a) ==
  /\ e \in Seq(Row) /\ Bounds(find, after, last, judged, a) /\ judged < Len(e)
  /\ Rows(e, find, after, last, judged) /\ Nexts(e, find, after, judged)
  /\ e[Len(e)].phase = "content"

\* The outline follows from what the rows from one length to the next are.
Ranges(e, n1, n2, n3, n4, n5, n6, n7, n8, n9, n, a) ==
  /\ e \in Seq(Row) /\ Len(e) = n /\ n1 <= n2 /\ n3 = n2 + 1 /\ n3 <= n4 /\ n4 <= n5 /\ n5 <= n6
  /\ n7 = n6 + a /\ n8 = n7 + (IF a = 0 THEN 0 ELSE 1) /\ n8 <= n9 /\ n9 < n
  /\ \A i \in 1..n1 : e[i].phase = "post_read" /\ e[i].next = n1 + 1
  /\ \A i \in (n1 + 1)..n2 : e[i].phase = "server_rewrite"
  /\ \A i \in (n2 + 1)..n3 : e[i].phase = "find_config"
  /\ \A i \in (n3 + 1)..n4 : e[i].phase = "rewrite"
  /\ \A i \in (n4 + 1)..n5 : e[i].phase = "post_rewrite" /\ e[i].next = n3
  /\ \A i \in (n5 + 1)..n6 : e[i].phase = "preaccess" /\ e[i].next = n6 + 1
  /\ \A i \in (n6 + 1)..n7 : e[i].phase = "access" /\ e[i].next = n6 + a + 2
  /\ \A i \in (n7 + 1)..n8 : e[i].phase = "post_access"
  /\ \A i \in (n8 + 1)..n9 : e[i].phase = "try_files"
  /\ \A i \in (n9 + 1)..n : e[i].phase = "content"

\* The ranges of the phases, one behind the other, outline the table.
LEMMA RowsOutlined ==
  ASSUME NEW n1 \in Nat, NEW n2 \in Nat, NEW n3 \in Nat, NEW n4 \in Nat, NEW n5 \in Nat, NEW n6 \in Nat,
         NEW n7 \in Nat, NEW n8 \in Nat, NEW n9 \in Nat, NEW n \in Nat, NEW a \in Nat, NEW e,
         Ranges(e, n1, n2, n3, n4, n5, n6, n7, n8, n9, n, a)
  PROVE  Outlined(e, n3, n6, n7, n8, a)
<1>3. /\ e \in Seq(Row) /\ Len(e) = n /\ n1 <= n2 /\ n3 = n2 + 1 /\ n3 <= n4 /\ n4 <= n5 /\ n5 <= n6
      /\ n7 = n6 + a /\ n8 = n7 + (IF a = 0 THEN 0 ELSE 1) /\ n8 <= n9 /\ n9 < n
  BY DEF Ranges
<1>4. a \in Nat /\ n2 < n3 /\ n6 <= n7 /\ n7 <= n8 /\ n8 + 1 = n6 + a + (IF a = 0 THEN 1 ELSE 2)
  BY <1>3
<1>1. ASSUME NEW i \in 1..n
      PROVE  /\ e[i].phase \in {"post_read", "server_rewrite"} <=> i < n3
             /\ e[i].phase = "find_config" <=> i = n3
             /\ e[i].phase \in {"rewrite", "post_rewrite", "preaccess"} <=> n3 < i /\ i <= n6
             /\ e[i].phase = "access" <=> n6 < i /\ i <= n7
             /\ e[i].phase = "post_access" <=> n7 < i /\ i <= n8
             /\ e[i].phase \in {"try_files", "content"} <=> n8 < i
             /\ e[i].phase = "post_read" => i < e[i].next /\ e[i].next <= n3
             /\ e[i].phase = "post_rewrite" => e[i].next = n3
             /\ e[i].phase = "preaccess" => i < e[i].next /\ e[i].next <= n6 + 1
             /\ e[i].phase = "access" => e[i].next = n8 + 1
  <2>1. CASE i \in 1..n1
    <3>1. e[i].phase = "post_read" /\ e[i].next = n1 + 1 /\ i <= n1
      BY <2>1 DEF Ranges
    <3> QED BY SMTT(30), <1>3, <1>4, <3>1
  <2>2. CASE i \in (n1 + 1)..n2
    <3>1. e[i].phase = "server_rewrite" /\ n1 < i /\ i <= n2
      BY <2>2 DEF Ranges
    <3> QED BY <1>3, <1>4, <3>1
  <2>3. CASE i \in (n2 + 1)..n3
    <3>1. e[i].phase = "find_config" /\ n2 < i /\ i <= n3
      BY <2>3 DEF Ranges
    <3> QED BY <1>3, <1>4, <3>1
  <2>4. CASE i \in (n3 + 1)..n4
    <3>1. e[i].phase = "rewrite" /\ n3 < i /\ i <= n4
      BY <2>4 DEF Ranges
    <3> QED BY <1>3, <1>4, <3>1
  <2>5. CASE i \in (n4 + 1)..n5
    <3>1. e[i].phase = "post_rewrite" /\ e[i].next = n3 /\ n4 < i /\ i <= n5
      BY <2>5 DEF Ranges
    <3> QED BY <1>3, <1>4, <3>1
  <2>6. CASE i \in (n5 + 1)..n6
    <3>1. e[i].phase = "preaccess" /\ e[i].next = n6 + 1 /\ n5 < i /\ i <= n6
      BY <2>6 DEF Ranges
    <3> QED BY <1>3, <1>4, <3>1
  <2>7. CASE i \in (n6 + 1)..n7
    <3>1. e[i].phase = "access" /\ e[i].next = n6 + a + 2 /\ n6 < i /\ i <= n7
      BY <2>7 DEF Ranges
    <3> QED BY <1>3, <1>4, <3>1
  <2>8. CASE i \in (n7 + 1)..n8
    <3>1. e[i].phase = "post_access" /\ n7 < i /\ i <= n8
      BY <2>8 DEF Ranges
    <3> QED BY <1>3, <1>4, <3>1
  <2>9. CASE i \in (n8 + 1)..n9
    <3>1. e[i].phase = "try_files" /\ n8 < i /\ i <= n9
      BY <2>9 DEF Ranges
    <3> QED BY <1>3, <1>4, <3>1
  <2>10. CASE i \in (n9 + 1)..n
    <3>1. e[i].phase = "content" /\ n9 < i /\ i <= n
      BY <2>10 DEF Ranges
    <3> QED BY <1>3, <1>4, <3>1
  <2> QED BY <1>3, <1>4, <2>1, <2>2, <2>3, <2>4, <2>5, <2>6, <2>7, <2>8, <2>9, <2>10
<1>2. e[n].phase = "content"
  BY <1>3 DEF Ranges
<1>5. Bounds(n3, n6, n7, n8, a) /\ n8 < n
  BY <1>3, <1>4 DEF Bounds
<1>6. Rows(e, n3, n6, n7, n8) /\ Nexts(e, n3, n6, n8)
  BY <1>1, <1>3 DEF Rows, Nexts
<1> QED BY <1>2, <1>3, <1>5, <1>6 DEF Outlined

\* the rows of t are the first ones of e
Begins(t, e) == t \in Seq(Row) /\ Len(t) <= Len(e) /\ \A i \in 1..Len(t) : e[i] = t[i]

\* Rows that are added stay where they are.
LEMMA AddedStay ==
  ASSUME NEW t \in Seq(Row), NEW u, NEW e \in Seq(Row), NEW n \in Nat, NEW phase, NEW next,
         Adds(t, u, n, phase, next), Begins(u, e)
  PROVE  /\ Begins(t, e)
         /\ \A i \in (Len(t) + 1)..Len(u) : e[i].phase = phase /\ e[i].next = next
<1>1. Len(t) \in Nat /\ Len(e) \in Nat
  BY LenProperties
<1>2. ASSUME NEW i \in (Len(t) + 1)..Len(u) PROVE e[i] = [phase |-> phase, next |-> next]
  BY <1>1, <1>2 DEF Adds, Begins
<1>3. Begins(t, e)
  BY <1>1 DEF Adds, Begins
<1> QED BY <1>2, <1>3

\* What the phases of handlers add.
LEMMA HandlersOf ==
  ASSUME NEW h, Handled(h), NEW t \in Seq(Row),
         NEW phase \in HandlerPhases, phase # "try_files"
  PROVE  Adds(t, WithPhase(t, phase, h), h[phase], phase, Behind(t, phase, h))
<1>1. h[phase] \in Nat
  BY DEF Handled
<1>2. Len(t) \in Nat
  BY LenProperties
<1>3. Behind(t, phase, h) \in Nat
  BY <1>1, <1>2 DEF Behind
<1>4. WithPhase(t, phase, h) = t \o [i \in 1..h[phase] |-> [phase |-> phase, next |-> Behind(t, phase, h)]]
  BY DEF WithPhase, HandlerPhases
<1>5. phase \in PhaseNames
  BY DEF PhaseNames
<1> QED BY <1>1, <1>3, <1>4, <1>5, HandlersAdded

\* The first row of a phase that has one row.
LEMMA OnlyFirst ==
  ASSUME NEW t, NEW phase, NEW k \in DOMAIN t, k \in Nat, \A i \in DOMAIN t : t[i].phase = phase <=> i = k
  PROVE  First(t, phase) = k
<1>1. Positions(t, phase) = {k}
  BY DEF Positions
<1>2. k \in Positions(t, phase) /\ \A j \in Positions(t, phase) : k <= j
  BY <1>1
<1> QED BY <1>1, <1>2 DEF First

\* The table of the phases, whatever numbers of handlers they have.
LEMMA EngineOutlined ==
  ASSUME NEW h, Handled(h)
  PROVE  /\ Outlined(Engine(h), FindAt(h), AskedAfter(h), AskedLast(h), JudgedLast(h), h["access"])
         /\ Len(ToServerRewrite(h)) \in Nat /\ Len(ToServerRewrite(h)) < FindAt(h)
<1> DEFINE t1 == ToServerRewrite(h)
           t2 == WithPhase(t1, "server_rewrite", h)
           t3 == ToRewrite(h)
           t4 == WithPhase(t3, "rewrite", h)
           t5 == ToPreaccess(h)
           t6 == WithPhase(t5, "preaccess", h)
           t7 == ToPostAccess(h)
           t8 == WithPhase(t7, "post_access", h)
           t9 == ToContent(h)
           e == Engine(h)
           p == h["post_read"]
           s == h["server_rewrite"]
           w == h["rewrite"]
           q == h["preaccess"]
           a == h["access"]
           c == h["content"]
           k == IF w = 0 THEN 0 ELSE 1
           d == IF a = 0 THEN 0 ELSE 1
           y == IF h["try_files"] = 0 THEN 0 ELSE 1
           l2 == p + s
           l3 == l2 + 1
           l4 == l3 + w
           l5 == l4 + k
           l6 == l5 + q
           l7 == l6 + a
           l8 == l7 + d
           l9 == l8 + y
           n == l9 + c
<1>1. \A phase \in HandlerPhases : h[phase] \in Nat
  BY DEF Handled
<1>2. p \in Nat /\ s \in Nat /\ w \in Nat /\ q \in Nat /\ a \in Nat /\ c \in Nat /\ c > 0
  BY <1>1 DEF Handled, HandlerPhases
<1>3. /\ t3 = WithPhase(t2, "find_config", h) /\ t5 = WithPhase(t4, "post_rewrite", h)
      /\ t7 = WithPhase(t6, "access", h) /\ t9 = WithPhase(t8, "try_files", h)
      /\ e = WithPhase(t9, "content", h) /\ t1 = WithPhase(<<>>, "post_read", h)
  BY DEF ToServerRewrite, ToRewrite, ToPreaccess, ToPostAccess, ToContent, Engine, WithPhases
<1>4. /\ FindAt(h) = Len(t3) /\ AskedAfter(h) = Len(t6) /\ AskedLast(h) = Len(t7)
      /\ JudgedLast(h) = Len(t8)
  BY DEF FindAt, AskedAfter, AskedLast, JudgedLast
<1>5. /\ t2 = WithPhase(t1, "server_rewrite", h) /\ t4 = WithPhase(t3, "rewrite", h)
      /\ t6 = WithPhase(t5, "preaccess", h) /\ t8 = WithPhase(t7, "post_access", h)
      /\ p = h["post_read"] /\ s = h["server_rewrite"] /\ w = h["rewrite"] /\ q = h["preaccess"]
      /\ a = h["access"] /\ c = h["content"]
  OBVIOUS
<1> HIDE DEF t1, t2, t3, t4, t5, t6, t7, t8, t9, e, p, s, w, q, a, c
<1>6. k \in Nat /\ d \in Nat /\ y \in Nat
  OBVIOUS
<1> HIDE DEF k, d, y
<1>7. /\ l2 \in Nat /\ l3 \in Nat /\ l4 \in Nat /\ l5 \in Nat /\ l6 \in Nat /\ l7 \in Nat
      /\ l8 \in Nat /\ l9 \in Nat /\ n \in Nat
  BY <1>2, <1>6
<1>8. /\ p <= l2 /\ l3 = l2 + 1 /\ l3 <= l4 /\ l4 <= l5 /\ l5 <= l6 /\ l7 = l6 + a
      /\ l8 = l7 + (IF a = 0 THEN 0 ELSE 1) /\ l8 <= l9 /\ l9 < n /\ p < l3
  BY <1>2, <1>6, <1>7 DEF d
<1>9. /\ l2 = p + s /\ l4 = l3 + w /\ l5 = l4 + k /\ l6 = l5 + q /\ l8 = l7 + d /\ l9 = l8 + y
      /\ n = l9 + c
  OBVIOUS
<1> HIDE DEF l2, l3, l4, l5, l6, l7, l8, l9, n
<1>10. /\ \A phase \in {"post_read", "server_rewrite", "rewrite", "preaccess", "access", "content"} :
            phase \in HandlerPhases /\ phase # "try_files"
       /\ \A phase \in {"find_config", "post_rewrite", "post_access", "try_files"} : phase \in PhaseNames
  BY DEF HandlerPhases, PhaseNames
<1>0. <<>> \in Seq(Row) /\ Len(<<>>) = 0
  BY EmptySeq
<1>11. Adds(<<>>, t1, p, "post_read", p + 1) /\ t1 \in Seq(Row) /\ Len(t1) = p
  <2>1. Adds(<<>>, WithPhase(<<>>, "post_read", h), h["post_read"], "post_read", Behind(<<>>, "post_read", h))
    BY <1>10, <1>0, HandlersOf
  <2>2. Adds(<<>>, t1, p, "post_read", Behind(<<>>, "post_read", h))
    BY <2>1, <1>3, <1>5
  <2>3. Behind(<<>>, "post_read", h) = p + 1
    BY <1>2, <1>5, <1>7, <1>8, <1>9, <1>0 DEF Behind
  <2> QED BY <1>2, <1>7, <1>8, <1>9, <1>0, <2>2, <2>3 DEF Adds
<1>12. Adds(t1, t2, s, "server_rewrite", l2 + 1) /\ t2 \in Seq(Row) /\ Len(t2) = l2
  <2>1. Adds(t1, WithPhase(t1, "server_rewrite", h), h["server_rewrite"], "server_rewrite", Behind(t1, "server_rewrite", h))
    BY <1>10, <1>11, HandlersOf
  <2>2. Adds(t1, t2, s, "server_rewrite", Behind(t1, "server_rewrite", h))
    BY <2>1, <1>3, <1>5
  <2>3. Behind(t1, "server_rewrite", h) = l2 + 1
    BY <1>2, <1>5, <1>7, <1>8, <1>9, <1>11 DEF Behind
  <2> QED BY <1>2, <1>7, <1>8, <1>9, <1>11, <2>2, <2>3 DEF Adds
<1>13. Adds(t2, t3, 1, "find_config", 0) /\ t3 \in Seq(Row) /\ Len(t3) = l3
  <2>1. t3 = Append(t2, [phase |-> "find_config", next |-> 0])
    BY <1>3 DEF WithPhase
  <2>2. Adds(t2, Append(t2, [phase |-> "find_config", next |-> 0]), 1, "find_config", 0)
    BY <1>10, <1>12, CheckerAdded
  <2> QED BY <1>7, <1>8, <1>12, <2>1, <2>2 DEF Adds
<1>14. Adds(t3, t4, w, "rewrite", l4 + 1) /\ t4 \in Seq(Row) /\ Len(t4) = l4
  <2>1. Adds(t3, WithPhase(t3, "rewrite", h), h["rewrite"], "rewrite", Behind(t3, "rewrite", h))
    BY <1>10, <1>13, HandlersOf
  <2>2. Adds(t3, t4, w, "rewrite", Behind(t3, "rewrite", h))
    BY <2>1, <1>3, <1>5
  <2>3. Behind(t3, "rewrite", h) = l4 + 1
    BY <1>2, <1>5, <1>7, <1>8, <1>9, <1>13 DEF Behind
  <2> QED BY <1>2, <1>7, <1>8, <1>9, <1>13, <2>2, <2>3 DEF Adds
<1>15. Adds(t4, t5, k, "post_rewrite", l3) /\ t5 \in Seq(Row) /\ Len(t5) = l5
  <2>1. First(t4, "find_config") = l3
    <3>1. l3 \in DOMAIN t4 /\ DOMAIN t4 = 1..l4
      BY <1>7, <1>8, <1>14, LenProperties
    <3>2. Begins(t4, t4)
      BY <1>7, <1>14 DEF Begins
    <3>3. Begins(t3, t4) /\ \A i \in (l3 + 1)..l4 : t4[i].phase = "rewrite"
      BY <1>2, <1>13, <1>14, <3>2, AddedStay
    <3>4. Begins(t2, t4) /\ \A i \in (l2 + 1)..l3 : t4[i].phase = "find_config"
      BY <1>12, <1>13, <1>14, <3>3, AddedStay
    <3>5. Begins(t1, t4) /\ \A i \in (p + 1)..l2 : t4[i].phase = "server_rewrite"
      BY <1>2, <1>11, <1>12, <1>14, <3>4, AddedStay
    <3>6. \A i \in 1..p : t4[i].phase = "post_read"
      <4>1. \A i \in (Len(<<>>) + 1)..Len(t1) : t4[i].phase = "post_read"
        BY <1>0, <1>2, <1>11, <1>14, <3>5, AddedStay
      <4> QED BY <1>0, <1>11, <4>1
    <3>7. ASSUME NEW i \in 1..l4 PROVE t4[i].phase = "find_config" <=> i = l3
      <4>1. CASE i \in 1..p
        BY <1>2, <1>7, <1>8, <3>6, <4>1
      <4>2. CASE i \in (p + 1)..l2
        BY <1>2, <1>7, <1>8, <3>5, <4>2
      <4>3. CASE i \in (l2 + 1)..l3
        BY <1>7, <1>8, <3>4, <4>3
      <4>4. CASE i \in (l3 + 1)..l4
        BY <1>7, <3>3, <4>4
      <4> QED BY <1>2, <1>7, <1>8, <4>1, <4>2, <4>3, <4>4
    <3>8. \A i \in DOMAIN t4 : t4[i].phase = "find_config" <=> i = l3
      BY <3>1, <3>7
    <3> QED BY <1>7, <3>1, <3>8, OnlyFirst
  <2>4. t5 = WithPhase(t4, "post_rewrite", h)
    BY <1>3
  <2>2. CASE w = 0
    <3>1. t5 = t4
      BY <1>5, <2>2, <2>4 DEF WithPhase
    <3>2. k = 0
      BY <2>2 DEF k
    <3>3. Adds(t4, t4, 0, "post_rewrite", l3)
      BY <1>7, <1>10, <1>14, CheckerAdded
    <3>4. Adds(t4, t5, k, "post_rewrite", l3)
      BY <3>1, <3>2, <3>3
    <3> QED BY <1>7, <1>9, <1>14, <3>1, <3>2, <3>4
  <2>3. CASE w # 0
    <3>1. t5 = Append(t4, [phase |-> "post_rewrite", next |-> l3])
      BY <1>5, <2>3, <2>4, <2>1 DEF WithPhase
    <3>2. k = 1
      BY <2>3 DEF k
    <3>3. Adds(t4, Append(t4, [phase |-> "post_rewrite", next |-> l3]), 1, "post_rewrite", l3)
      BY <1>7, <1>10, <1>14, CheckerAdded
    <3>4. Adds(t4, t5, k, "post_rewrite", l3)
      BY <3>1, <3>2, <3>3
    <3> QED BY <1>7, <1>9, <1>14, <3>2, <3>4 DEF Adds
  <2> QED BY <2>2, <2>3
<1>16. Adds(t5, t6, q, "preaccess", l6 + 1) /\ t6 \in Seq(Row) /\ Len(t6) = l6
  <2>1. Adds(t5, WithPhase(t5, "preaccess", h), h["preaccess"], "preaccess", Behind(t5, "preaccess", h))
    BY <1>10, <1>15, HandlersOf
  <2>2. Adds(t5, t6, q, "preaccess", Behind(t5, "preaccess", h))
    BY <2>1, <1>3, <1>5
  <2>3. Behind(t5, "preaccess", h) = l6 + 1
    BY <1>2, <1>5, <1>7, <1>8, <1>9, <1>15 DEF Behind
  <2> QED BY <1>2, <1>7, <1>8, <1>9, <1>15, <2>2, <2>3 DEF Adds
<1>17. Adds(t6, t7, a, "access", l6 + a + 2) /\ t7 \in Seq(Row) /\ Len(t7) = l7
  <2>1. Adds(t6, WithPhase(t6, "access", h), h["access"], "access", Behind(t6, "access", h))
    BY <1>10, <1>16, HandlersOf
  <2>2. Adds(t6, t7, a, "access", Behind(t6, "access", h))
    BY <2>1, <1>3, <1>5
  <2>3. Behind(t6, "access", h) = l6 + a + 2
    <3>1. Behind(t6, "access", h) = l6 + a + 1 + 1
      BY <1>5, <1>16 DEF Behind
    <3> QED BY <1>2, <1>7, <3>1
  <2> QED BY <1>2, <1>7, <1>8, <1>9, <1>16, <2>2, <2>3 DEF Adds
<1>18. Adds(t7, t8, d, "post_access", 0) /\ t8 \in Seq(Row) /\ Len(t8) = l8
  <2>4. t8 = WithPhase(t7, "post_access", h)
    BY <1>5
  <2>2. CASE a = 0
    <3>1. t8 = t7
      BY <1>5, <2>2, <2>4 DEF WithPhase
    <3>2. d = 0
      BY <2>2 DEF d
    <3>3. Adds(t7, t7, 0, "post_access", 0)
      BY <1>7, <1>10, <1>17, CheckerAdded
    <3>4. Adds(t7, t8, d, "post_access", 0)
      BY <3>1, <3>2, <3>3
    <3> QED BY <1>7, <1>9, <1>17, <3>1, <3>2, <3>4
  <2>3. CASE a # 0
    <3>1. t8 = Append(t7, [phase |-> "post_access", next |-> 0])
      BY <1>5, <2>3, <2>4 DEF WithPhase
    <3>2. d = 1
      BY <2>3 DEF d
    <3>3. Adds(t7, Append(t7, [phase |-> "post_access", next |-> 0]), 1, "post_access", 0)
      BY <1>7, <1>10, <1>17, CheckerAdded
    <3>4. Adds(t7, t8, d, "post_access", 0)
      BY <3>1, <3>2, <3>3
    <3> QED BY <1>7, <1>9, <1>17, <3>2, <3>4 DEF Adds
  <2> QED BY <2>2, <2>3
<1>19. Adds(t8, t9, y, "try_files", 0) /\ t9 \in Seq(Row) /\ Len(t9) = l9
  <2>4. t9 = WithPhase(t8, "try_files", h)
    BY <1>3
  <2>2. CASE h["try_files"] = 0
    <3>1. t9 = t8
      BY <2>2, <2>4 DEF WithPhase
    <3>2. y = 0
      BY <2>2 DEF y
    <3>3. Adds(t8, t8, 0, "try_files", 0)
      BY <1>7, <1>10, <1>18, CheckerAdded
    <3>4. Adds(t8, t9, y, "try_files", 0)
      BY <3>1, <3>2, <3>3
    <3> QED BY <1>7, <1>9, <1>18, <3>1, <3>2, <3>4
  <2>3. CASE h["try_files"] # 0
    <3>1. t9 = Append(t8, [phase |-> "try_files", next |-> 0])
      BY <2>3, <2>4 DEF WithPhase
    <3>2. y = 1
      BY <2>3 DEF y
    <3>3. Adds(t8, Append(t8, [phase |-> "try_files", next |-> 0]), 1, "try_files", 0)
      BY <1>7, <1>10, <1>18, CheckerAdded
    <3>4. Adds(t8, t9, y, "try_files", 0)
      BY <3>1, <3>2, <3>3
    <3> QED BY <1>7, <1>9, <1>18, <3>2, <3>4 DEF Adds
  <2> QED BY <2>2, <2>3
<1>20. Adds(t9, e, c, "content", n + 1) /\ e \in Seq(Row) /\ Len(e) = n
  <2>1. Adds(t9, WithPhase(t9, "content", h), h["content"], "content", Behind(t9, "content", h))
    BY <1>10, <1>19, HandlersOf
  <2>2. Adds(t9, e, c, "content", Behind(t9, "content", h))
    BY <2>1, <1>3, <1>5
  <2>3. Behind(t9, "content", h) = n + 1
    BY <1>2, <1>5, <1>7, <1>8, <1>9, <1>19 DEF Behind
  <2> QED BY <1>2, <1>7, <1>8, <1>9, <1>19, <2>2, <2>3 DEF Adds
<1>21. Begins(e, e)
  BY <1>7, <1>20 DEF Begins
<1>22. Begins(t9, e) /\ \A i \in (l9 + 1)..n : e[i].phase = "content"
  BY <1>2, <1>19, <1>20, <1>21, AddedStay
<1>23. Begins(t8, e) /\ \A i \in (l8 + 1)..l9 : e[i].phase = "try_files"
  BY <1>6, <1>18, <1>19, <1>20, <1>22, AddedStay
<1>24. Begins(t7, e) /\ \A i \in (l7 + 1)..l8 : e[i].phase = "post_access"
  BY <1>6, <1>17, <1>18, <1>20, <1>23, AddedStay
<1>25. Begins(t6, e) /\ \A i \in (l6 + 1)..l7 : e[i].phase = "access" /\ e[i].next = l6 + a + 2
  BY <1>2, <1>16, <1>17, <1>20, <1>24, AddedStay
<1>26. Begins(t5, e) /\ \A i \in (l5 + 1)..l6 : e[i].phase = "preaccess" /\ e[i].next = l6 + 1
  BY <1>2, <1>15, <1>16, <1>20, <1>25, AddedStay
<1>27. Begins(t4, e) /\ \A i \in (l4 + 1)..l5 : e[i].phase = "post_rewrite" /\ e[i].next = l3
  BY <1>6, <1>14, <1>15, <1>20, <1>26, AddedStay
<1>28. Begins(t3, e) /\ \A i \in (l3 + 1)..l4 : e[i].phase = "rewrite"
  BY <1>2, <1>13, <1>14, <1>20, <1>27, AddedStay
<1>29. Begins(t2, e) /\ \A i \in (l2 + 1)..l3 : e[i].phase = "find_config"
  BY <1>12, <1>13, <1>20, <1>28, AddedStay
<1>30. Begins(t1, e) /\ \A i \in (p + 1)..l2 : e[i].phase = "server_rewrite"
  BY <1>2, <1>11, <1>12, <1>20, <1>29, AddedStay
<1>31. \A i \in 1..p : e[i].phase = "post_read" /\ e[i].next = p + 1
  <2>1. \A i \in (Len(<<>>) + 1)..Len(t1) : e[i].phase = "post_read" /\ e[i].next = p + 1
    BY <1>0, <1>2, <1>11, <1>20, <1>30, AddedStay
  <2> QED BY <1>0, <1>11, <2>1
<1>32. Outlined(e, l3, l6, l7, l8, a)
  <2>1. Ranges(e, p, l2, l3, l4, l5, l6, l7, l8, l9, n, a)
    BY <1>8, <1>20, <1>22, <1>23, <1>24, <1>25, <1>26, <1>27, <1>28, <1>29, <1>30, <1>31, Zenon DEF Ranges
  <2> QED BY <1>2, <1>7, <2>1, RowsOutlined
<1>33. Len(t1) \in Nat /\ Len(t1) < l3
  BY <1>2, <1>8, <1>11
<1>34. Outlined(e, FindAt(h), AskedAfter(h), AskedLast(h), JudgedLast(h), a) /\ Len(t1) < FindAt(h)
  BY <1>4, <1>13, <1>16, <1>17, <1>18, <1>32, <1>33
<1> QED BY <1>33, <1>34 DEF t1, e, a

-----------------------------------------------------------------------------
(* The phases: the inductive invariant *)

Find == FindAt(site.handlers)
After == AskedAfter(site.handlers)
LastAsked == AskedLast(site.handlers)
LastJudged == JudgedLast(site.handlers)
Locs == DOMAIN site.locations
Said == {"ok", "declined", "403", "500"}

Tabled ==
  /\ site \in Sites
  /\ Outlined(engine, Find, After, LastAsked, LastJudged, site.handlers["access"])
  /\ ServerRewriteIndex \in Nat /\ 0 < ServerRewriteIndex /\ ServerRewriteIndex <= Find
  /\ LocationRewriteIndex = Find + 1

Codes == {"403", "404", "413", "301", "500"}
Visit ==
  [state : {"runs", "waits", "served"} \cup Codes, at : Nat, loc : Locs, uri : Locs, main : BOOLEAN,
   internal : BOOLEAN, left : 0..(MaxUri + 1), changed : BOOLEAN, access : {Nothing, "403"},
   content : Locs \cup {Nothing}, errored : BOOLEAN, by : Locs \cup {Nothing, "post_access"},
   verdicts : Seq(Said), stale : BOOLEAN, visits : Nat]

\* what the access handlers of the location said to a request that is before, among or behind them
Judged(r) ==
  /\ r.at <= LastJudged =>
       /\ Len(r.verdicts) = IF r.at <= After THEN 0 ELSE r.at - After - 1
       /\ Verdicts(r) \subseteq (IF LocConf(r).satisfy = "all" THEN {"ok", "declined"} ELSE {"declined", "403"})
       /\ "403" \in Verdicts(r) => r.access # Nothing
       /\ r.access # Nothing => "403" \in Verdicts(r) \/ r.stale
  /\ r.at > LastJudged /\ r.main => Granted(r)

\* what a request has been found entitled to, once its location is known
Entitled(r) ==
  /\ r.content \in {Nothing, r.loc}
  /\ LocConf(r).internal => r.internal
  /\ Judged(r)

\* what holds while the phases run: to look for the location once more costs one of uri_changes
Going(r) ==
  /\ r.at \in 1..Len(engine) /\ r.left # 0 /\ r.by = Nothing
  /\ r.visits + r.left <= MaxUri + IF r.at <= Find THEN 1 ELSE 2
  /\ r.at > Find => Entitled(r)

Answered(r) ==
  /\ r.state = "served" =>
       /\ r.main => Granted(r)
       /\ r.by = r.loc
       /\ LocConf(r).internal => r.internal
  /\ r.state = "403" /\ r.by = "post_access" => "403" \in Verdicts(r) \/ r.stale

FitsPlace(r) ==
  /\ r \in Visit /\ r.visits <= MaxUri + 1
  /\ r.state \in {"runs", "waits"} => Going(r)
  /\ r.state = "waits" => engine[r.at].phase \in {"post_read", "preaccess"}
  /\ Answered(r)

PhasesInv == Tabled /\ FitsPlace(visit)

\* A request that fits its place keeps what PhasesKept promises.
LEMMA InvKept == PhasesInv => PhasesKept
BY PhasesAssumption DEF PhasesInv, FitsPlace, Answered, Visit, PhasesKept

\* what the configuration of a location may be
LEMMA LocationOf ==
  ASSUME site \in Sites, NEW l \in Locs
  PROVE  /\ MaxUri \in 1..14 /\ Server \in Locs
         /\ site.locations[l].satisfy \in {"all", "any"}
         /\ site.locations[l].handler \in BOOLEAN /\ site.locations[l].recursive \in BOOLEAN
         /\ site.locations[l].on # {} => site.locations[l].page \in Locs
         /\ site.locations[l].try \in Locs \cup {"404", Nothing}
BY PhasesAssumption DEF Locs, Server, Nothing

\* The boundaries of the table.
LEMMA InTable ==
  ASSUME Tabled
  PROVE  /\ Find \in Nat /\ After \in Nat /\ LastAsked \in Nat /\ LastJudged \in Nat /\ Len(engine) \in Nat
         /\ 0 < Find /\ Find <= After /\ After <= LastAsked /\ LastAsked <= LastJudged
         /\ LastJudged < Len(engine) /\ engine[Len(engine)].phase = "content"
         /\ site.handlers["access"] \in Nat
         /\ LastAsked = After + site.handlers["access"]
         /\ LastJudged = LastAsked + (IF site.handlers["access"] = 0 THEN 0 ELSE 1)
<1>1. /\ site \in Sites /\ engine \in Seq(Row)
      /\ Bounds(Find, After, LastAsked, LastJudged, site.handlers["access"])
      /\ LastJudged < Len(engine) /\ engine[Len(engine)].phase = "content"
  BY DEF Tabled, Outlined
<1>2. Len(engine) \in Nat
  BY <1>1, LenProperties
<1>3. site.handlers["access"] \in Nat
  <2>1. "access" \in HandlerPhases
    BY DEF HandlerPhases
  <2> QED BY <1>1, <2>1, PhasesAssumption
<1> QED BY <1>1, <1>2, <1>3 DEF Bounds

\* What a row says of its place.
LEMMA RowAt ==
  ASSUME Tabled, NEW i \in 1..Len(engine)
  PROVE  /\ engine[i].phase \in {"post_read", "server_rewrite"} <=> i < Find
         /\ engine[i].phase = "find_config" <=> i = Find
         /\ engine[i].phase \in {"rewrite", "post_rewrite", "preaccess"} <=> Find < i /\ i <= After
         /\ engine[i].phase = "access" <=> After < i /\ i <= LastAsked
         /\ engine[i].phase = "post_access" <=> LastAsked < i /\ i <= LastJudged
         /\ engine[i].phase \in {"try_files", "content"} <=> LastJudged < i
         /\ engine[i].phase = "post_read" => i < engine[i].next /\ engine[i].next <= Find
         /\ engine[i].phase = "post_rewrite" => engine[i].next = Find
         /\ engine[i].phase = "preaccess" => i < engine[i].next /\ engine[i].next <= After + 1
         /\ engine[i].phase = "access" => engine[i].next = LastJudged + 1
         /\ engine[i].next \in Nat
<1>1. engine[i] \in Row
  BY ElementOfSeq DEF Tabled, Outlined
<1>2. engine[i].next \in Nat
  BY <1>1 DEF Row
<1> QED BY <1>2 DEF Tabled, Outlined, Rows, Nexts

\* What a place in the table is compared with the boundaries.
LEMMA Placed ==
  ASSUME Tabled, NEW i \in Nat
  PROVE  /\ 0 < i /\ i <= After + 1 => i \in 1..Len(engine)
         /\ i > After => i > Find /\ ~(i <= After) /\ ~(i <= Find)
         /\ i > LastJudged => i > Find /\ ~(i <= Find) /\ ~(i <= LastJudged)
         /\ i > Find <=> ~(i <= Find)
         /\ i <= After => i <= LastJudged
         /\ After < i /\ i <= LastAsked => i <= LastJudged /\ i + 1 <= LastJudged
         /\ LastAsked < i /\ i <= LastJudged =>
              i > Find /\ ~(i <= After) /\ i = LastJudged /\ i - After - 1 = site.handlers["access"]
         /\ 0 < i /\ i <= LastJudged + 1 => i \in 1..Len(engine)
         /\ i < Find => i + 1 <= Find
<1> DEFINE a == site.handlers["access"]
<1>1. /\ Find \in Nat /\ After \in Nat /\ LastAsked \in Nat /\ LastJudged \in Nat /\ Len(engine) \in Nat
      /\ 0 < Find /\ Find <= After /\ After <= LastAsked /\ LastAsked <= LastJudged
      /\ LastJudged < Len(engine) /\ a \in Nat /\ LastAsked = After + a
      /\ LastJudged = LastAsked + (IF a = 0 THEN 0 ELSE 1)
  BY InTable
<1> HIDE DEF a
<1>2. After < i /\ i <= LastAsked => i + 1 <= LastJudged
  BY <1>1
<1>3. LastAsked < i /\ i <= LastJudged => i = LastJudged /\ i - After - 1 = a
  BY <1>1
<1>4. /\ After + 1 <= Len(engine) /\ LastJudged + 1 <= Len(engine) /\ After <= LastJudged /\ Find <= LastJudged
  BY <1>1
<1>5. /\ 0 < i /\ i <= After + 1 => i \in 1..Len(engine)
      /\ 0 < i /\ i <= LastJudged + 1 => i \in 1..Len(engine)
  BY <1>1, <1>4
<1>6. i > After => i > Find /\ ~(i <= After) /\ ~(i <= Find)
  BY <1>1
<1>7. i > LastJudged => i > Find /\ ~(i <= Find) /\ ~(i <= LastJudged)
  BY <1>1, <1>4
<1>8. /\ i > Find <=> ~(i <= Find)
      /\ i <= After => i <= LastJudged
      /\ i <= LastAsked => i <= LastJudged
      /\ i < Find => i + 1 <= Find
  BY <1>1, <1>4
<1>9. LastAsked < i => i > After
  BY <1>1
<1> QED BY <1>2, <1>3, <1>5, <1>6, <1>7, <1>8, <1>9 DEF a

\* Before the access handlers nothing was said.
LEMMA Unheard ==
  ASSUME NEW r \in Visit, Tabled, Judged(r), r.at <= After
  PROVE  r.verdicts = <<>> /\ (r.access # Nothing => r.stale)
<1>1. r.at \in Nat /\ r.verdicts \in Seq(Said)
  BY DEF Visit
<1>2. r.at <= LastJudged /\ Len(r.verdicts) = 0
  BY <1>1, InTable DEF Judged
<1>3. r.verdicts = <<>>
  BY <1>1, <1>2, EmptySeq
<1>4. Verdicts(r) = {}
  BY <1>3 DEF Verdicts, ToSet
<1> QED BY <1>2, <1>3, <1>4 DEF Judged

\* Where no access handler has spoken yet, nothing is judged.
LEMMA NothingSaid ==
  ASSUME NEW r, Tabled, r.verdicts = <<>>, r.at \in Nat, r.at <= After + 1, r.access # Nothing => r.stale
  PROVE  Judged(r)
<1>1. Verdicts(r) = {} /\ Len(r.verdicts) = 0
  BY EmptySeq DEF Verdicts, ToSet
<1>2. r.at <= LastJudged => Len(r.verdicts) = IF r.at <= After THEN 0 ELSE r.at - After - 1
  BY <1>1, InTable
<1>3. r.at > LastJudged => Granted(r)
  BY <1>1, InTable DEF Granted, Heeded
<1> QED BY <1>1, <1>2, <1>3 DEF Judged

\* uri_changes does not wrap while it is not zero.
LEMMA CountedOnce ==
  ASSUME NEW r \in Visit, site \in Sites, r.left # 0
  PROVE  Counted(r) = [r EXCEPT !.left = r.left - 1] /\ Counted(r) \in Visit
<1>1. MaxUri \in 1..14 /\ r.left \in 0..(MaxUri + 1)
  BY PhasesAssumption DEF Visit
<1>2. (r.left - 1) % 16 = r.left - 1 /\ r.left - 1 \in 0..(MaxUri + 1)
  BY <1>1
<1>3. Counted(r) = [r EXCEPT !.left = r.left - 1]
  BY <1>2 DEF Counted
<1> QED BY <1>2, <1>3 DEF Visit

\* A request that ended with a code keeps what is asked of an answer.
LEMMA EndedFits ==
  ASSUME NEW r \in Visit, r.visits <= MaxUri + 1, NEW code \in Codes,
         code = "403" /\ r.by = "post_access" => "403" \in Verdicts(r) \/ r.stale
  PROVE  FitsPlace(Ended(r, code))
<1>1. Ended(r, code) \in Visit /\ Ended(r, code).state = code /\ Ended(r, code).visits = r.visits
  BY DEF Ended, Visit
<1>2. Verdicts(Ended(r, code)) = Verdicts(r) /\ Ended(r, code).by = r.by /\ Ended(r, code).stale = r.stale
  BY DEF Ended, Visit, Verdicts
<1>3. code \notin {"runs", "waits", "served"}
  BY DEF Codes
<1> QED BY <1>1, <1>2, <1>3 DEF FitsPlace, Answered

\* ngx_http_update_location_config() changes the content handler at most.
LEMMA UpdatedFields ==
  ASSUME NEW r \in Visit, site \in Sites
  PROVE  /\ Updated(r) \in Visit
         /\ \E c \in {r.content, r.loc} : Updated(r) = [r EXCEPT !.content = c]
<1>1. r.loc \in Locs /\ r.content \in Locs \cup {Nothing}
  BY DEF Visit
<1>2. [r EXCEPT !.content = r.content] = r
  BY DEF Visit
<1> QED BY <1>1, <1>2 DEF Updated, Visit

\* A request in a new location, of which nothing was said yet.
LEMMA EnteredFields ==
  ASSUME NEW r \in Visit, NEW loc \in Locs
  PROVE  LET s == Entered(r, loc) IN
         /\ s \in Visit /\ s.loc = loc /\ s.visits = r.visits + 1 /\ s.left = r.left /\ s.state = r.state
         /\ s.content = r.content /\ s.at = r.at /\ s.by = r.by
         /\ s.verdicts = <<>> /\ (s.access # Nothing => s.stale)
<1> DEFINE k == r.visits + 1
           b == r.access # Nothing
           s == Entered(r, loc)
<1>1. s = [r EXCEPT !.loc = loc, !.verdicts = <<>>, !.visits = k, !.stale = b]
  BY DEF Entered
<1>2. r.visits \in Nat /\ <<>> \in Seq(Said)
  BY EmptySeq DEF Visit
<1>3. k \in Nat /\ b \in BOOLEAN
  BY <1>2
<1> HIDE DEF k, b, s
<1>4. [r EXCEPT !.loc = loc, !.verdicts = <<>>] \in Visit
  BY <1>2 DEF Visit
<1>5. [[r EXCEPT !.loc = loc, !.verdicts = <<>>] EXCEPT !.visits = k, !.stale = b] \in Visit
  BY <1>3, <1>4 DEF Visit
<1>6. s \in Visit
  BY <1>1, <1>5
<1>7. /\ s.loc = loc /\ s.visits = k /\ s.left = r.left /\ s.state = r.state /\ s.content = r.content /\ s.at = r.at
      /\ s.by = r.by /\ s.verdicts = <<>> /\ s.access = r.access /\ s.stale = b
  BY <1>1 DEF Visit
<1> QED BY <1>6, <1>7 DEF s, k, b

\* ngx_http_internal_redirect(): back to the server, and before the search for a location.
LEMMA RedirectFits ==
  ASSUME NEW r \in Visit, Tabled, r.state = "runs", r.left # 0, r.visits + r.left <= MaxUri + 2, NEW uri \in Locs
  PROVE  FitsPlace(InternalRedirect(r, uri))
<1>1. MaxUri \in 1..14 /\ r.visits \in Nat /\ r.left \in 0..(MaxUri + 1) /\ site \in Sites /\ Server \in Locs
  BY PhasesAssumption, LocationOf DEF Visit, Tabled
<1>2. Counted(r) = [r EXCEPT !.left = r.left - 1] /\ Counted(r) \in Visit
  BY <1>1, CountedOnce
<1>3. CASE r.left = 1
  <2>1. Counted(r).visits = r.visits
    BY <1>2 DEF Visit
  <2>2. r.visits <= MaxUri + 1 /\ "500" \in Codes /\ "500" # "403"
    BY <1>1 DEF Codes
  <2> QED BY <1>2, <1>3, <2>1, <2>2, EndedFits DEF InternalRedirect
<1>4. CASE r.left # 1
  <2> DEFINE s == [Counted(r) EXCEPT !.loc = Server, !.uri = uri]
             v == InternalRedirect(r, uri)
  <2>1. s = [r EXCEPT !.left = r.left - 1, !.loc = Server, !.uri = uri] /\ s \in Visit
    BY <1>1, <1>2 DEF Visit
  <2>2. PICK c \in {s.content, s.loc} : Updated(s) = [s EXCEPT !.content = c] /\ Updated(s) \in Visit
    BY <1>1, <2>1, UpdatedFields
  <2>3. v = [Updated(s) EXCEPT !.internal = TRUE, !.at = ServerRewriteIndex, !.by = Nothing]
    BY <1>4 DEF InternalRedirect
  <2> HIDE DEF s, v
  <2>4. s.state = "runs" /\ s.left = r.left - 1 /\ s.visits = r.visits
    BY <2>1 DEF Visit
  <2>5. /\ ServerRewriteIndex \in 1..Len(engine) /\ ServerRewriteIndex \in Nat /\ ServerRewriteIndex <= Find
        /\ ~(ServerRewriteIndex > Find)
    BY InTable DEF Tabled
  <2>6. v = [s EXCEPT !.content = c, !.internal = TRUE, !.at = ServerRewriteIndex, !.by = Nothing] /\ s \in Visit
    BY <2>1, <2>2, <2>3
  <2>7. v \in Visit
    BY <2>2, <2>5, <2>6 DEF Visit
  <2>8. v.state = "runs" /\ v.at = ServerRewriteIndex /\ v.left = r.left - 1 /\ v.visits = r.visits /\ v.by = Nothing
    BY <2>4, <2>6 DEF Visit
  <2>9. v.visits + v.left <= MaxUri + 1 /\ v.left # 0 /\ v.visits <= MaxUri + 1
    <3>1. r.visits \in Nat /\ r.left \in Nat /\ MaxUri \in Nat
      BY <1>1
    <3> QED BY <1>4, <2>8, <3>1
  <2>10. Going(v)
    BY <2>5, <2>8, <2>9 DEF Going
  <2> QED BY <2>7, <2>8, <2>9, <2>10 DEF FitsPlace, Answered, v
<1> QED BY <1>3, <1>4

\* ngx_http_named_location(): behind the search for a location, in the named one.
LEMMA NamedFits ==
  ASSUME NEW r \in Visit, Tabled, r.state = "runs", r.left # 0, r.visits + r.left <= MaxUri + 2, Named \in Locs
  PROVE  FitsPlace(NamedLocation(r))
<1>1. MaxUri \in 1..14 /\ r.visits \in Nat /\ r.left \in 0..(MaxUri + 1) /\ site \in Sites
  BY PhasesAssumption DEF Visit, Tabled
<1>2. Counted(r) = [r EXCEPT !.left = r.left - 1] /\ Counted(r) \in Visit
  BY <1>1, CountedOnce
<1>3. CASE r.left = 1
  <2>1. Counted(r).visits = r.visits
    BY <1>2 DEF Visit
  <2>2. r.visits <= MaxUri + 1 /\ "500" \in Codes /\ "500" # "403"
    BY <1>1 DEF Codes
  <2> QED BY <1>2, <1>3, <2>1, <2>2, EndedFits DEF NamedLocation
<1>4. CASE r.left # 1
  <2> DEFINE u == [Counted(r) EXCEPT !.content = Nothing]
             s == Entered(u, Named)
             v == NamedLocation(r)
  <2>1. u = [r EXCEPT !.left = r.left - 1, !.content = Nothing] /\ u \in Visit
    BY <1>2 DEF Visit
  <2>2. u.visits = r.visits /\ u.left = r.left - 1 /\ u.state = "runs" /\ u.content = Nothing
    BY <2>1 DEF Visit
  <2> HIDE DEF u
  <2>4. s \in Visit /\ s.state = "runs" /\ s.left = r.left - 1 /\ s.visits = r.visits + 1
        /\ s.content = Nothing /\ s.loc = Named /\ s.verdicts = <<>> /\ (s.access # Nothing => s.stale)
    <3>1. /\ s \in Visit /\ s.loc = Named /\ s.visits = u.visits + 1 /\ s.left = u.left /\ s.state = u.state
          /\ s.content = u.content /\ s.verdicts = <<>> /\ (s.access # Nothing => s.stale)
      BY <2>1, EnteredFields
    <3> HIDE DEF s
    <3> QED BY <2>2, <3>1
  <2>5. PICK c \in {s.content, s.loc} : Updated(s) = [s EXCEPT !.content = c] /\ Updated(s) \in Visit
    <3> HIDE DEF s
    <3> QED BY <1>1, <2>4, UpdatedFields
  <2>6. v = [Updated(s) EXCEPT !.internal = TRUE, !.at = LocationRewriteIndex, !.by = Nothing]
    BY <1>4 DEF NamedLocation, u, s, v
  <2> HIDE DEF u, s, v
  <2>7. LocationRewriteIndex = Find + 1 /\ Find + 1 \in Nat
    BY InTable DEF Tabled
  <2>8. v \in Visit /\ v.state = "runs" /\ v.at = Find + 1 /\ v.left = r.left - 1 /\ v.visits = r.visits + 1
        /\ v.by = Nothing /\ v.content \in {Nothing, v.loc} /\ v.internal = TRUE
        /\ v.verdicts = <<>> /\ (v.access # Nothing => v.stale)
    <3>1. v = [s EXCEPT !.content = c, !.internal = TRUE, !.at = Find + 1, !.by = Nothing]
      BY <2>5, <2>6, <2>7
    <3>2. v \in Visit
      <4>1. s \in Visit /\ c \in Locs \cup {Nothing}
        BY <2>4, <2>5 DEF Visit
      <4> DEFINE k == Find + 1
      <4>2. k \in Nat /\ v = [s EXCEPT !.content = c, !.internal = TRUE, !.at = k, !.by = Nothing]
        BY <2>7, <3>1
      <4> HIDE DEF k
      <4> QED BY <4>1, <4>2 DEF Visit
    <3>3. /\ v.state = s.state /\ v.at = Find + 1 /\ v.left = s.left /\ v.visits = s.visits /\ v.by = Nothing
          /\ v.content = c /\ v.loc = s.loc /\ v.internal = TRUE /\ v.verdicts = s.verdicts
          /\ v.access = s.access /\ v.stale = s.stale
      BY <2>4, <3>1 DEF Visit
    <3> QED BY <2>4, <2>5, <3>2, <3>3
  <2>9. Judged(v)
    BY <2>7, <2>8, InTable, NothingSaid
  <2>10. v.visits + v.left <= MaxUri + 2 /\ v.left # 0 /\ v.visits <= MaxUri + 1
    BY <1>1, <1>4, <2>8
  <2>11. v.at \in 1..Len(engine) /\ ~(v.at <= Find)
    BY <2>8, InTable
  <2>12. Going(v)
    BY <2>8, <2>9, <2>10, <2>11 DEF Going, Entitled
  <2> QED BY <2>8, <2>10, <2>12 DEF FitsPlace, Answered, v
<1> QED BY <1>3, <1>4

\* A request that is sent to another target, by a redirect or to a named location, fits its new place.
LEMMA SentFits ==
  ASSUME NEW r \in Visit, Tabled, r.state = "runs", r.left # 0, r.visits + r.left <= MaxUri + 2, NEW target \in Locs
  PROVE  FitsPlace(Sent(r, target))
BY RedirectFits, NamedFits DEF Sent

\* ngx_http_special_response_handler(): an error page, or the end.
LEMMA FinalizedFits ==
  ASSUME NEW r \in Visit, Tabled, r.state = "runs", r.visits <= MaxUri + 1, r.visits + r.left <= MaxUri + 2,
         NEW code \in Codes,
         code = "403" /\ r.by = "post_access" => "403" \in Verdicts(r) \/ r.stale
  PROVE  FitsPlace(Finalized(r, code))
<1> DEFINE s == Errored(r)
<1>0. site \in Sites /\ r.loc \in Locs
  BY DEF Visit, Tabled
<1>1. s = [r EXCEPT !.errored = ~LocConf(r).recursive] /\ LocConf(r).recursive \in BOOLEAN
  BY <1>0, LocationOf DEF Errored, LocConf
<1>2. s \in Visit /\ s.state = "runs" /\ s.visits = r.visits /\ s.left = r.left /\ s.by = r.by
      /\ s.verdicts = r.verdicts /\ s.stale = r.stale
  BY <1>1 DEF Visit
<1>3. Verdicts(s) = Verdicts(r)
  BY <1>2 DEF Verdicts
<1> HIDE DEF s
<1>4. CASE ~HasErrorPages(r)
  BY <1>4, EndedFits DEF Finalized
<1>5. CASE HasErrorPages(r) /\ code \in LocConf(r).on
  <2>1. LocConf(r).page \in Locs /\ r.left # 0
    <3>1. r.loc \in Locs /\ site \in Sites
      BY DEF Visit, Tabled
    <3> QED BY <1>5, <3>1, LocationOf DEF HasErrorPages, LocConf
  <2>2. FitsPlace(Sent(s, LocConf(r).page))
    BY <1>2, <2>1, SentFits
  <2> QED BY <1>5, <2>2 DEF Finalized, s
<1>6. CASE HasErrorPages(r) /\ code \notin LocConf(r).on
  <2>1. FitsPlace(Ended(s, code))
    BY <1>2, <1>3, EndedFits
  <2> QED BY <1>6, <2>1 DEF Finalized, s
<1> QED BY <1>4, <1>5, <1>6

-----------------------------------------------------------------------------
(* The phases: the steps *)

\* What a step makes of the request is all that changes.
LEMMA Became ==
  ASSUME NEW r, Tabled, FitsPlace(r), Becomes(r)
  PROVE  PhasesInv'
<1>1. visit' = r /\ site' = site /\ engine' = engine
  BY DEF Becomes
<1>2. /\ Find' = Find /\ After' = After /\ LastAsked' = LastAsked /\ LastJudged' = LastJudged /\ Locs' = Locs
      /\ ServerRewriteIndex' = ServerRewriteIndex /\ LocationRewriteIndex' = LocationRewriteIndex
  BY <1>1 DEF Find, After, LastAsked, LastJudged, Locs, ServerRewriteIndex, LocationRewriteIndex
<1>3. Tabled'
  BY <1>1, <1>2 DEF Tabled
<1>4. Visit' = Visit
  BY <1>2 DEF Visit
<1>5. (LocConf(visit))' = LocConf(r) /\ (Verdicts(visit))' = Verdicts(r)
  BY <1>1 DEF LocConf, Verdicts
<1>6. (Granted(visit))' = Granted(r)
  BY <1>1, <1>5 DEF Granted, Heeded
<1>7. (Judged(visit))' = Judged(r)
  BY <1>1, <1>2, <1>5, <1>6 DEF Judged
<1>8. (Entitled(visit))' = Entitled(r)
  BY <1>1, <1>5, <1>7 DEF Entitled
<1>9. (Going(visit))' = Going(r)
  BY <1>1, <1>2, <1>8 DEF Going
<1>10. (Answered(visit))' = Answered(r)
  BY <1>1, <1>5, <1>6 DEF Answered
<1>11. (FitsPlace(visit))' = FitsPlace(r)
  BY <1>1, <1>4, <1>9, <1>10 DEF FitsPlace
<1> QED BY <1>3, <1>11 DEF PhasesInv

\* what s shares with r when it is in the same location, and as far from the end
Same(r, s) ==
  /\ s.loc = r.loc /\ s.main = r.main /\ s.content = r.content /\ s.by = r.by /\ s.access = r.access
  /\ s.verdicts = r.verdicts /\ s.stale = r.stale /\ s.left = r.left /\ s.visits = r.visits
  /\ r.internal => s.internal

\* Requests with the same verdicts and location are judged alike.
LEMMA SameSaid ==
  ASSUME NEW r, NEW s, Same(r, s)
  PROVE  LocConf(s) = LocConf(r) /\ Verdicts(s) = Verdicts(r) /\ (Granted(r) => Granted(s))
BY DEF Same, LocConf, Verdicts, Granted, Heeded

\* A request that stays where it is.
LEMMA StillFits ==
  ASSUME NEW r \in Visit, NEW s \in Visit, Tabled, Going(r), r.visits <= MaxUri + 1, Same(r, s), s.at = r.at,
         \/ s.state = "runs"
         \/ s.state = "waits" /\ engine[s.at].phase \in {"post_read", "preaccess"}
  PROVE  FitsPlace(s)
<1>1. Judged(r) => Judged(s)
  BY SameSaid DEF Same, Judged
<1>2. Entitled(r) => Entitled(s)
  BY <1>1, SameSaid DEF Same, Entitled
<1>3. Going(s)
  BY <1>2 DEF Same, Going
<1> QED BY <1>3 DEF FitsPlace, Answered, Same

\* A request that goes on before the search for its location, or before the access handlers.
LEMMA OnwardFits ==
  ASSUME NEW r \in Visit, NEW s \in Visit, Tabled, Going(r), r.visits <= MaxUri + 1, Same(r, s),
         s.state = "runs", r.at < s.at,
         \/ r.at < Find /\ s.at <= Find
         \/ Find < r.at /\ r.at <= After /\ s.at <= After + 1
  PROVE  FitsPlace(s)
<1>1. r.at \in Nat /\ s.at \in Nat /\ s.at \in 1..Len(engine)
  <2>1. r.at \in Nat /\ s.at \in Nat
    BY DEF Visit
  <2>2. 0 < s.at /\ s.at <= After + 1
    BY <2>1, InTable
  <2> QED BY <2>1, <2>2, Placed
<1>2. ASSUME s.at > Find PROVE r.at > Find /\ Entitled(s)
  <2>1. Find < r.at /\ r.at <= After /\ s.at <= After + 1
    BY <1>1, <1>2, InTable
  <2>2. Entitled(r)
    BY <2>1 DEF Going
  <2>3. r.verdicts = <<>> /\ (r.access # Nothing => r.stale)
    BY <2>1, <2>2, Unheard DEF Entitled
  <2>4. Judged(s)
    BY <1>1, <2>1, <2>3, NothingSaid DEF Same
  <2> QED BY <2>1, <2>2, <2>4, SameSaid DEF Entitled, Same
<1>3. (s.at <= Find <=> r.at <= Find) /\ (s.at > Find => Entitled(s))
  BY <1>1, <1>2, InTable
<1>4. Going(s)
  BY <1>1, <1>3 DEF Going, Same
<1> QED BY <1>4 DEF FitsPlace, Answered, Same

\* A request that was let through stays so.
LEMMA ThroughFits ==
  ASSUME NEW r \in Visit, NEW s \in Visit, Tabled, Going(r), r.visits <= MaxUri + 1,
         Same([r EXCEPT !.content = s.content], s), s.content \in {Nothing, r.content},
         s.state = "runs", r.at > LastJudged, r.at <= s.at, s.at <= Len(engine)
  PROVE  FitsPlace(s)
<1>1. r.at \in Nat /\ s.at \in Nat /\ r.at > Find /\ s.at > Find /\ s.at > LastJudged /\ s.at \in 1..Len(engine)
  <2>1. r.at \in Nat /\ s.at \in Nat /\ LastJudged \in Nat /\ Len(engine) \in Nat
    BY InTable DEF Visit
  <2>2. s.at > LastJudged /\ s.at \in 1..Len(engine)
    BY <2>1
  <2> QED BY <2>1, <2>2, Placed
<1>2. Entitled(r)
  BY <1>1 DEF Going
<1>3. /\ s.loc = r.loc /\ s.main = r.main /\ s.by = r.by /\ s.access = r.access
      /\ s.verdicts = r.verdicts /\ s.stale = r.stale /\ s.left = r.left /\ s.visits = r.visits
      /\ r.internal => s.internal
  BY DEF Same, Visit
<1>4. LocConf(s) = LocConf(r) /\ (Granted(r) => Granted(s))
  BY <1>3 DEF LocConf, Verdicts, Granted, Heeded
<1>5. r.main => Granted(r)
  BY <1>1, <1>2 DEF Entitled, Judged
<1>6. Judged(s)
  <2>1. ~(s.at <= LastJudged)
    BY <1>1, InTable
  <2> QED BY <1>3, <1>4, <1>5, <2>1 DEF Judged
<1>7. Entitled(s)
  BY <1>2, <1>3, <1>4, <1>6 DEF Entitled
<1>8. ~(s.at <= Find) /\ ~(r.at <= Find)
  BY <1>1, InTable
<1>9. Going(s)
  BY <1>1, <1>3, <1>7, <1>8 DEF Going
<1> QED BY <1>3, <1>9 DEF FitsPlace, Answered

\* What is known of a request that runs.
LEMMA Running ==
  ASSUME PhasesInv, visit.state \in {"runs", "waits"}
  PROVE  /\ Tabled /\ visit \in Visit /\ Going(visit) /\ visit.visits <= MaxUri + 1 /\ visit.by = Nothing
         /\ visit.left # 0 /\ visit.visits + visit.left <= MaxUri + 2
         /\ visit.visits \in Nat /\ visit.left \in Nat /\ MaxUri \in 1..14 /\ site \in Sites
         /\ visit.at \in 1..Len(engine) /\ visit.at \in Nat
<1>1. Tabled /\ visit \in Visit /\ Going(visit) /\ visit.visits <= MaxUri + 1
  BY DEF PhasesInv, FitsPlace
<1>2. MaxUri \in 1..14 /\ visit.visits \in Nat /\ visit.left \in Nat /\ visit.at \in Nat /\ site \in Sites
  BY <1>1, PhasesAssumption DEF Visit, Tabled
<1>3. visit.visits + visit.left <= MaxUri + 1 \/ visit.visits + visit.left <= MaxUri + 2
  BY <1>1 DEF Going
<1>4. visit.visits + visit.left <= MaxUri + 2
  BY <1>2, <1>3
<1> QED BY <1>1, <1>2, <1>4 DEF Going

\* The handlers of post_read and preaccess, and a request that they delay.
LEMMA GenericKept ==
  ASSUME PhasesInv, GenericPhase
  PROVE  PhasesInv'
<1>1. visit.state = "runs" /\ engine[visit.at].phase \in {"post_read", "preaccess"}
  BY DEF GenericPhase, At
<1>2. /\ Tabled /\ visit \in Visit /\ Going(visit) /\ visit.visits <= MaxUri + 1 /\ visit.by = Nothing
      /\ visit.visits + visit.left <= MaxUri + 2 /\ visit.at \in 1..Len(engine) /\ visit.at \in Nat
  BY <1>1, Running
<1>3. \/ /\ visit.at < Find /\ visit.at < engine[visit.at].next /\ engine[visit.at].next <= Find
      \/ /\ Find < visit.at /\ visit.at <= After /\ visit.at < engine[visit.at].next
         /\ engine[visit.at].next <= After + 1
  BY <1>1, <1>2, RowAt
<1>4. engine[visit.at].next \in Nat
  BY <1>2, RowAt
<1>5. ASSUME NEW to \in Nat, visit.at < to,
             \/ visit.at < Find /\ to <= Find
             \/ Find < visit.at /\ visit.at <= After /\ to <= After + 1
      PROVE  FitsPlace([visit EXCEPT !.at = to])
  <2> DEFINE s == [visit EXCEPT !.at = to]
  <2>1. s \in Visit /\ Same(visit, s) /\ s.state = "runs" /\ s.at = to
    BY <1>1, <1>2 DEF Visit, Same
  <2> QED BY <1>2, <1>5, <2>1, OnwardFits
<1>6. CASE Becomes(Skips(visit))
  <2>1. FitsPlace(Skips(visit))
    BY <1>3, <1>4, <1>5 DEF Skips
  <2> QED BY <1>2, <1>6, <2>1, Became
<1>7. CASE Becomes(Passes(visit))
  <2>1. FitsPlace(Passes(visit))
    <3>1. visit.at + 1 \in Nat /\ visit.at < visit.at + 1
          /\ (visit.at < Find => visit.at + 1 <= Find) /\ (visit.at <= After => visit.at + 1 <= After + 1)
      BY <1>2, InTable
    <3> QED BY <1>3, <1>5, <3>1 DEF Passes
  <2> QED BY <1>2, <1>7, <2>1, Became
<1>8. CASE Becomes([visit EXCEPT !.state = "waits"])
  <2> DEFINE s == [visit EXCEPT !.state = "waits"]
  <2>1. s \in Visit /\ Same(visit, s) /\ s.state = "waits" /\ s.at = visit.at
    BY <1>2 DEF Visit, Same
  <2>2. FitsPlace(s)
    BY <1>1, <1>2, <2>1, StillFits
  <2> QED BY <1>2, <1>8, <2>2, Became
<1>9. CASE Becomes(Finalized(visit, "500"))
  <2>1. FitsPlace(Finalized(visit, "500"))
    BY <1>1, <1>2, FinalizedFits DEF Codes
  <2> QED BY <1>2, <1>9, <2>1, Became
<1> QED BY <1>6, <1>7, <1>8, <1>9 DEF GenericPhase

\* ngx_http_handler() of a request that waited: it goes on where it was.
LEMMA ResumeKept ==
  ASSUME PhasesInv, Resume
  PROVE  PhasesInv'
<1>1. visit.state = "waits" /\ engine[visit.at].phase \in {"post_read", "preaccess"}
  BY DEF Resume, PhasesInv, FitsPlace
<1>2. /\ Tabled /\ visit \in Visit /\ Going(visit) /\ visit.visits <= MaxUri + 1
      /\ visit.at \in 1..Len(engine) /\ visit.at \in Nat
  BY <1>1, Running
<1>3. visit.at < Find \/ (Find < visit.at /\ visit.at <= After)
  BY <1>1, <1>2, RowAt
<1> DEFINE to == visit.at + 1
           s == [visit EXCEPT !.at = to, !.state = "runs"]
<1>4. /\ to \in Nat /\ visit.at < to
      /\ (visit.at < Find => to <= Find) /\ (visit.at <= After => to <= After + 1)
  BY <1>2, InTable
<1>5. [Passes(visit) EXCEPT !.state = "runs"] = s
  BY DEF Passes
<1> HIDE DEF to
<1>6. s \in Visit /\ Same(visit, s) /\ s.state = "runs" /\ s.at = to
  BY <1>2, <1>4 DEF Visit, Same
<1>7. FitsPlace(s)
  BY <1>2, <1>3, <1>4, <1>6, OnwardFits
<1> QED BY <1>2, <1>5, <1>7, Became DEF Resume

\* The rewrite modules of the server and of the location.
LEMMA RewriteKept ==
  ASSUME PhasesInv, RewritePhase
  PROVE  PhasesInv'
<1>1. visit.state = "runs" /\ engine[visit.at].phase \in {"server_rewrite", "rewrite"}
  BY DEF RewritePhase, At
<1>2. /\ Tabled /\ visit \in Visit /\ Going(visit) /\ visit.visits <= MaxUri + 1 /\ visit.by = Nothing
      /\ visit.visits + visit.left <= MaxUri + 2 /\ visit.at \in 1..Len(engine) /\ visit.at \in Nat
  BY <1>1, Running
<1>3. visit.at < Find \/ (Find < visit.at /\ visit.at <= After)
  BY <1>1, <1>2, RowAt
<1>4. ASSUME NEW r \in Rewritten(visit)
      PROVE  /\ r \in Visit /\ Same(visit, r) /\ r.state = "runs" /\ r.at = visit.at
             /\ FitsPlace(Passes(r)) /\ FitsPlace(Finalized(r, "403"))
  <2>1. r \in Visit /\ Same(visit, r) /\ r.state = "runs" /\ r.at = visit.at
    <3>1. CASE r = visit
      BY <1>1, <1>2, <3>1 DEF Same
    <3>2. CASE \E uri \in Targets, b \in BOOLEAN : r = [visit EXCEPT !.uri = uri, !.internal = TRUE, !.changed = b]
      <4>1. PICK uri \in Targets, b \in BOOLEAN : r = [visit EXCEPT !.uri = uri, !.internal = TRUE, !.changed = b]
        BY <3>2
      <4>2. uri \in Locs
        BY DEF Targets, Locs
      <4> QED BY <1>1, <1>2, <4>1, <4>2 DEF Visit, Same
    <3>3. r = visit \/ \E uri \in Targets, b \in BOOLEAN :
                           r = [visit EXCEPT !.uri = uri, !.internal = TRUE, !.changed = b]
      <4> DEFINE R(b) == {[visit EXCEPT !.uri = uri, !.internal = TRUE, !.changed = b] : uri \in Targets}
      <4>1. Rewritten(visit) = {visit} \cup UNION {R(b) : b \in BOOLEAN}
        BY DEF Rewritten
      <4>2. r = visit \/ \E b \in BOOLEAN : r \in R(b)
        <5> HIDE DEF R
        <5> QED BY <1>4, <4>1
      <4> QED BY <4>2
    <3> QED BY <3>1, <3>2, <3>3
  <2> DEFINE to == visit.at + 1
             s == [r EXCEPT !.at = to]
  <2>2. /\ to \in Nat /\ visit.at < to
        /\ (visit.at < Find => to <= Find) /\ (visit.at <= After => to <= After + 1)
    BY <1>2, InTable
  <2>3. Passes(r) = s
    BY <2>1 DEF Passes
  <2> HIDE DEF to
  <2>4. s \in Visit /\ Same(visit, s) /\ s.state = "runs" /\ s.at = to
    BY <2>1, <2>2 DEF Visit, Same
  <2>5. FitsPlace(s)
    BY <1>2, <1>3, <2>2, <2>4, OnwardFits
  <2>6. FitsPlace(Finalized(r, "403"))
    <3>1. r.visits <= MaxUri + 1 /\ r.visits + r.left <= MaxUri + 2 /\ r.by # "post_access"
      BY <1>2, <2>1 DEF Same, Nothing
    <3> QED BY <1>2, <2>1, <3>1, FinalizedFits DEF Codes
  <2> QED BY <2>1, <2>3, <2>5, <2>6
<1>5. visit \in Rewritten(visit)
  BY DEF Rewritten
<1>6. \E r \in Rewritten(visit) : Becomes(Passes(r)) \/ Becomes(Finalized(r, "403"))
  BY <1>5 DEF RewritePhase
<1> QED BY <1>2, <1>4, <1>6, Became

\* The search for the location: the count of the locations and of uri_changes, and what is known there.
LEMMA FindConfigKept ==
  ASSUME PhasesInv, FindConfigPhase
  PROVE  PhasesInv'
<1>1. visit.state = "runs" /\ engine[visit.at].phase = "find_config"
  BY DEF FindConfigPhase, At
<1>2. /\ Tabled /\ visit \in Visit /\ Going(visit) /\ visit.by = Nothing /\ visit.left # 0
      /\ visit.visits \in Nat /\ visit.left \in Nat /\ MaxUri \in 1..14 /\ site \in Sites
      /\ visit.at \in 1..Len(engine) /\ visit.at \in Nat
  BY <1>1, Running
<1>3. visit.at = Find /\ Find <= Find
  BY <1>1, <1>2, RowAt, InTable
<1>4. visit.visits + visit.left <= MaxUri + 1
  BY <1>3, <1>2 DEF Going
<1> DEFINE u == Cleared(visit)
           e == Entered(u, visit.uri)
<1>5. u = [visit EXCEPT !.content = Nothing, !.changed = FALSE]
  BY DEF Cleared
<1>6. u \in Visit /\ u.visits = visit.visits /\ u.left = visit.left /\ u.state = "runs" /\ u.content = Nothing
      /\ u.at = Find /\ u.by = Nothing
  BY <1>1, <1>2, <1>3, <1>5 DEF Visit
<1> HIDE DEF u
<1>7. e \in Visit /\ e.visits = visit.visits + 1 /\ e.left = visit.left /\ e.state = "runs" /\ e.content = Nothing
      /\ e.at = Find /\ e.by = Nothing /\ e.verdicts = <<>> /\ (e.access # Nothing => e.stale)
  <2>1. visit.uri \in Locs
    BY <1>2 DEF Visit
  <2> QED BY <1>6, <2>1, EnteredFields
<1> HIDE DEF e
<1>8. e.visits <= MaxUri + 1 /\ e.visits + e.left <= MaxUri + 2
  BY <1>2, <1>4, <1>7
<1>9. PICK c \in {e.content, e.loc} : Updated(e) = [e EXCEPT !.content = c] /\ Updated(e) \in Visit
  BY <1>2, <1>7, UpdatedFields
<1>10. /\ Updated(e).visits = e.visits /\ Updated(e).left = e.left /\ Updated(e).state = "runs"
       /\ Updated(e).by = Nothing /\ Updated(e).at = Find /\ Updated(e).loc = e.loc
       /\ Updated(e).internal = e.internal /\ Updated(e).content = c /\ Updated(e).verdicts = <<>>
       /\ (Updated(e).access # Nothing => Updated(e).stale)
  BY <1>7, <1>9 DEF Visit
<1>11. CASE ~e.internal /\ LocConf(e).internal /\ Becomes(Finalized(e, "404"))
  <2>1. FitsPlace(Finalized(e, "404"))
    BY <1>2, <1>7, <1>8, FinalizedFits DEF Codes
  <2> QED BY <1>2, <1>11, <2>1, Became
<1>12. CASE (e.internal \/ ~LocConf(e).internal) /\ Becomes(Passes(Updated(e)))
  <2> DEFINE to == Find + 1
             s == [Updated(e) EXCEPT !.at = to]
  <2>1. to \in Nat /\ to <= After + 1 /\ to \in 1..Len(engine) /\ ~(to <= Find)
    BY <1>2, InTable
  <2>2. Passes(Updated(e)) = s
    BY <1>10 DEF Passes
  <2> HIDE DEF to
  <2>3. s \in Visit
    BY <1>9, <2>1 DEF Visit
  <2>4. /\ s.visits = e.visits /\ s.left = e.left /\ s.state = "runs" /\ s.by = Nothing /\ s.at = to
        /\ s.loc = e.loc /\ s.internal = e.internal /\ s.content = c /\ s.verdicts = <<>>
        /\ (s.access # Nothing => s.stale)
    BY <1>9, <1>10 DEF Visit
  <2> HIDE DEF s
  <2>5. Judged(s)
    BY <1>2, <2>1, <2>4, NothingSaid
  <2>6. s.content \in {Nothing, s.loc} /\ (LocConf(s).internal => s.internal)
    BY <1>7, <1>9, <1>12, <2>4 DEF LocConf
  <2>7. s.visits + s.left <= MaxUri + 2 /\ s.left # 0 /\ s.visits <= MaxUri + 1
    BY <1>2, <1>7, <1>8, <2>4
  <2>8. Going(s)
    BY <2>1, <2>4, <2>5, <2>6, <2>7 DEF Going, Entitled
  <2>9. FitsPlace(s)
    BY <2>3, <2>4, <2>7, <2>8 DEF FitsPlace, Answered
  <2> QED BY <1>2, <1>12, <2>2, <2>9, Became
<1>13. CASE \E code \in {"413", "301"} : Becomes(Finalized(Updated(e), code))
  <2>1. PICK code \in {"413", "301"} : Becomes(Finalized(Updated(e), code))
    BY <1>13
  <2>2. code \in Codes /\ code # "403"
    BY DEF Codes
  <2>3. FitsPlace(Finalized(Updated(e), code))
    BY <1>2, <1>8, <1>9, <1>10, <2>2, FinalizedFits
  <2> QED BY <1>2, <2>1, <2>3, Became
<1> QED BY <1>11, <1>12, <1>13 DEF FindConfigPhase, e, u

\* A URI that was rewritten goes back to the search, for one of uri_changes.
LEMMA PostRewriteKept ==
  ASSUME PhasesInv, PostRewritePhase
  PROVE  PhasesInv'
<1>1. visit.state = "runs" /\ engine[visit.at].phase = "post_rewrite"
  BY DEF PostRewritePhase, At
<1>2. /\ Tabled /\ visit \in Visit /\ Going(visit) /\ visit.visits <= MaxUri + 1 /\ visit.by = Nothing
      /\ visit.left # 0 /\ visit.visits + visit.left <= MaxUri + 2
      /\ visit.visits \in Nat /\ visit.left \in Nat /\ MaxUri \in 1..14 /\ site \in Sites
      /\ visit.at \in 1..Len(engine) /\ visit.at \in Nat
  BY <1>1, Running
<1>3. Find < visit.at /\ visit.at <= After /\ engine[visit.at].next = Find
  BY <1>1, <1>2, RowAt
<1>4. Counted(visit) = [visit EXCEPT !.left = visit.left - 1] /\ Counted(visit) \in Visit
  BY <1>2, CountedOnce
<1>5. CASE Becomes(Passes(visit))
  <2> DEFINE to == visit.at + 1
             s == [visit EXCEPT !.at = to]
  <2>1. to \in Nat /\ visit.at < to /\ to <= After + 1
    <3>1. visit.at \in Nat /\ After \in Nat
      BY <1>2, InTable
    <3> QED BY <1>3, <3>1
  <2>2. Passes(visit) = s
    BY DEF Passes
  <2> HIDE DEF to
  <2>3. s \in Visit /\ Same(visit, s) /\ s.state = "runs" /\ s.at = to
    BY <1>1, <1>2, <2>1 DEF Visit, Same
  <2>4. FitsPlace(s)
    BY <1>2, <1>3, <2>1, <2>3, OnwardFits
  <2> QED BY <1>2, <1>5, <2>2, <2>4, Became
<1>6. CASE Becomes(Finalized(Counted(visit), "500"))
  <2>1. /\ Counted(visit).visits = visit.visits /\ Counted(visit).left = visit.left - 1
        /\ Counted(visit).state = "runs" /\ Counted(visit).by = Nothing
    BY <1>1, <1>2, <1>4 DEF Visit
  <2>2. Counted(visit).visits + Counted(visit).left <= MaxUri + 2 /\ Counted(visit).visits <= MaxUri + 1
    BY <1>2, <2>1
  <2>3. FitsPlace(Finalized(Counted(visit), "500"))
    BY <1>2, <1>4, <2>1, <2>2, FinalizedFits DEF Codes
  <2> QED BY <1>2, <1>6, <2>3, Became
<1>7. CASE visit.left # 1 /\ Becomes([Skips(Counted(visit)) EXCEPT !.loc = Server])
  <2> DEFINE k == visit.left - 1
             s == [visit EXCEPT !.left = k, !.at = Find, !.loc = Server]
  <2>1. Skips(Counted(visit)) = [Counted(visit) EXCEPT !.at = Find]
    BY <1>2, <1>3, <1>4 DEF Skips, Visit
  <2>2. [Skips(Counted(visit)) EXCEPT !.loc = Server] = s
    BY <1>4, <2>1
  <2>3. k \in 0..(MaxUri + 1) /\ k # 0 /\ visit.visits + k <= MaxUri + 1
    <3>1. visit.left \in 0..(MaxUri + 1)
      BY <1>2 DEF Visit
    <3>2. /\ visit.left # 0 /\ visit.left # 1 /\ visit.visits \in Nat /\ MaxUri \in Nat
          /\ visit.visits + visit.left <= MaxUri + 2
      BY <1>2, <1>7
    <3> QED BY <3>1, <3>2
  <2>4. Find \in Nat /\ Find \in 1..Len(engine) /\ ~(Find > Find) /\ Find <= Find /\ Server \in Locs
    <3>1. visit.loc \in Locs
      BY <1>2 DEF Visit
    <3>2. Server \in Locs
      BY <1>2, <3>1, LocationOf
    <3> QED BY <1>2, <3>2, InTable
  <2> HIDE DEF k
  <2>5. s \in Visit
    BY <1>2, <2>3, <2>4 DEF Visit
  <2>6. s.state = "runs" /\ s.at = Find /\ s.left = k /\ s.visits = visit.visits /\ s.by = Nothing
    BY <1>1, <1>2 DEF Visit
  <2> HIDE DEF s
  <2>7. Going(s)
    BY <2>3, <2>4, <2>6 DEF Going
  <2>8. FitsPlace(s)
    BY <1>2, <2>5, <2>6, <2>7 DEF FitsPlace, Answered
  <2> QED BY <1>2, <1>7, <2>2, <2>8, Became
<1> QED BY <1>5, <1>6, <1>7 DEF PostRewritePhase

\* What was said is said, and nothing else.
LEMMA HeardFields ==
  ASSUME NEW r \in Visit, NEW verdict \in Said
  PROVE  /\ Heard(r, verdict) = [r EXCEPT !.verdicts = Append(r.verdicts, verdict)] /\ Heard(r, verdict) \in Visit
         /\ Len(Append(r.verdicts, verdict)) = Len(r.verdicts) + 1 /\ Len(r.verdicts) \in Nat
         /\ Verdicts(Heard(r, verdict)) = Verdicts(r) \cup {verdict}
<1> DEFINE q == Append(r.verdicts, verdict)
<1>1. r.verdicts \in Seq(Said)
  BY DEF Visit
<1>2. /\ q \in Seq(Said) /\ Len(q) = Len(r.verdicts) + 1 /\ Len(r.verdicts) \in Nat
      /\ \A i \in 1..Len(r.verdicts) : q[i] = r.verdicts[i]
      /\ q[Len(r.verdicts) + 1] = verdict
  BY <1>1, AppendProperties, LenProperties
<1>3. DOMAIN q = 1..(Len(r.verdicts) + 1) /\ DOMAIN r.verdicts = 1..Len(r.verdicts)
  BY <1>1, <1>2, LenProperties
<1> HIDE DEF q
<1>4. ToSet(q) = ToSet(r.verdicts) \cup {verdict}
  <2>1. ASSUME NEW x \in ToSet(q) PROVE x \in ToSet(r.verdicts) \cup {verdict}
    <3>1. PICK i \in 1..(Len(r.verdicts) + 1) : q[i] = x
      BY <1>3, <2>1 DEF ToSet
    <3>2. CASE i = Len(r.verdicts) + 1
      BY <1>2, <3>1, <3>2
    <3>3. CASE i \in 1..Len(r.verdicts)
      BY <1>2, <1>3, <3>1, <3>3 DEF ToSet
    <3> QED BY <1>2, <3>2, <3>3
  <2>2. ASSUME NEW x \in ToSet(r.verdicts) PROVE x \in ToSet(q)
    <3>1. PICK i \in 1..Len(r.verdicts) : r.verdicts[i] = x
      BY <1>3, <2>2 DEF ToSet
    <3>2. i \in DOMAIN q /\ q[i] = x
      BY <1>2, <1>3, <3>1
    <3> QED BY <3>2 DEF ToSet
  <2>3. verdict \in ToSet(q)
    <3>1. Len(r.verdicts) + 1 \in DOMAIN q
      BY <1>2, <1>3
    <3> QED BY <1>2, <3>1 DEF ToSet
  <2> QED BY <2>1, <2>2, <2>3
<1>5. Heard(r, verdict) = [r EXCEPT !.verdicts = q]
  BY DEF Heard, q
<1>6. Heard(r, verdict) \in Visit /\ Heard(r, verdict).verdicts = q
  BY <1>2, <1>5 DEF Visit
<1>7. Verdicts(Heard(r, verdict)) = ToSet(q)
  BY <1>6 DEF Verdicts
<1> QED BY <1>2, <1>4, <1>5, <1>6, <1>7 DEF Verdicts, q

\* A request goes to the next access handler with one verdict more, one that "satisfy" does not decide.
LEMMA AskedFits ==
  ASSUME NEW r \in Visit, Tabled, Going(r), r.visits <= MaxUri + 1, r.state = "runs",
         After < r.at, r.at <= LastAsked,
         NEW verdict \in Said, NEW access \in {Nothing, "403"},
         \/ verdict = "declined" /\ access = r.access
         \/ verdict = "ok" /\ LocConf(r).satisfy = "all" /\ access = r.access
         \/ verdict = "403" /\ LocConf(r).satisfy # "all" /\ access = "403"
  PROVE  FitsPlace([Heard(r, verdict) EXCEPT !.access = access, !.at = r.at + 1])
<1> DEFINE h == Heard(r, verdict)
           to == r.at + 1
           s == [h EXCEPT !.access = access, !.at = to]
<1>1. /\ h = [r EXCEPT !.verdicts = Append(r.verdicts, verdict)] /\ h \in Visit
      /\ Len(Append(r.verdicts, verdict)) = Len(r.verdicts) + 1 /\ Len(r.verdicts) \in Nat
      /\ Verdicts(h) = Verdicts(r) \cup {verdict}
  BY HeardFields
<1>2. r.at \in Nat /\ r.at <= LastJudged /\ ~(r.at <= After) /\ r.at > Find /\ to \in Nat /\ to <= LastJudged
      /\ ~(to <= After) /\ to \in 1..Len(engine) /\ ~(to <= Find) /\ ~(r.at <= Find)
  <2>1. r.at \in Nat /\ to \in Nat /\ After \in Nat
    BY InTable DEF Visit
  <2>2. r.at <= LastJudged /\ ~(r.at <= After) /\ r.at > Find /\ ~(r.at <= Find) /\ to <= LastJudged
    BY <2>1, Placed
  <2>3. to > After /\ 0 < to /\ to <= LastJudged + 1
    <3>1. LastJudged \in Nat
      BY InTable
    <3> QED BY <2>1, <2>2, <3>1
  <2>4. ~(to <= After) /\ to \in 1..Len(engine) /\ ~(to <= Find)
    BY <2>1, <2>3, Placed
  <2> QED BY <2>1, <2>2, <2>4
<1>3. Entitled(r) /\ r.by = Nothing /\ r.left # 0 /\ r.visits + r.left <= MaxUri + 2
  BY <1>2 DEF Going
<1>4. /\ Len(r.verdicts) = r.at - After - 1
      /\ Verdicts(r) \subseteq (IF LocConf(r).satisfy = "all" THEN {"ok", "declined"} ELSE {"declined", "403"})
      /\ "403" \in Verdicts(r) => r.access # Nothing
      /\ r.access # Nothing => "403" \in Verdicts(r) \/ r.stale
  BY <1>2, <1>3 DEF Entitled, Judged
<1>5. Len(r.verdicts) + 1 = to - After - 1
  <2>1. r.at \in Nat /\ After \in Nat
    BY <1>2, InTable
  <2> QED BY <1>4, <2>1
<1> HIDE DEF h, to
<1>6. s \in Visit
  <2>1. h \in Visit /\ to \in Nat
    BY <1>1, <1>2
  <2> QED BY <2>1 DEF Visit
<1>7. /\ s.state = "runs" /\ s.loc = r.loc /\ s.at = to /\ s.access = access /\ s.main = r.main /\ s.stale = r.stale
      /\ s.content = r.content /\ s.by = r.by /\ s.left = r.left /\ s.visits = r.visits /\ s.internal = r.internal
      /\ s.verdicts = h.verdicts /\ h.verdicts = Append(r.verdicts, verdict)
  BY <1>1 DEF Visit
<1> HIDE DEF s
<1>8. Verdicts(s) = Verdicts(r) \cup {verdict} /\ LocConf(s) = LocConf(r)
  BY <1>1, <1>7 DEF Verdicts, LocConf
<1>9. /\ Verdicts(s) \subseteq (IF LocConf(s).satisfy = "all" THEN {"ok", "declined"} ELSE {"declined", "403"})
      /\ "403" \in Verdicts(s) => s.access # Nothing
      /\ s.access # Nothing => "403" \in Verdicts(s) \/ s.stale
  BY <1>4, <1>7, <1>8 DEF Nothing
<1>10. Len(s.verdicts) = IF s.at <= After THEN 0 ELSE s.at - After - 1
  BY <1>1, <1>2, <1>5, <1>7
<1>11. Judged(s)
  <2>1. ~(s.at > LastJudged)
    BY <1>2, <1>7, InTable
  <2> QED BY <1>9, <1>10, <2>1 DEF Judged
<1>12. Entitled(s)
  BY <1>3, <1>7, <1>8, <1>11 DEF Entitled
<1>13. Going(s)
  BY <1>2, <1>3, <1>7, <1>12 DEF Going
<1> QED BY <1>6, <1>7, <1>13 DEF FitsPlace, Answered, s, to, h

\* A request leaves the access phase behind its check: a subrequest, or one that a handler let in.
LEMMA LetInFits ==
  ASSUME NEW r \in Visit, Tabled, Going(r), NEW s \in Visit, r.visits <= MaxUri + 1, s.state = "runs",
         r.at > Find, s.at = LastJudged + 1,
         s.loc = r.loc /\ s.content = r.content /\ s.by = r.by /\ s.left = r.left /\ s.visits = r.visits
           /\ s.internal = r.internal,
         s.main => Granted(s)
  PROVE  FitsPlace(s)
<1>1. s.at \in Nat /\ s.at > LastJudged /\ s.at \in 1..Len(engine) /\ ~(s.at <= LastJudged) /\ s.at > Find
      /\ ~(s.at <= Find) /\ r.at \in Nat
  BY InTable DEF Visit
<1>2. ~(r.at <= Find)
  BY <1>1, InTable
<1>3. Judged(s)
  BY <1>1 DEF Judged
<1>4. Entitled(s)
  BY <1>3 DEF Going, Entitled, LocConf
<1>5. Going(s)
  BY <1>1, <1>2, <1>4 DEF Going
<1> QED BY <1>5 DEF FitsPlace, Answered

\* The access handlers.
LEMMA AccessKept ==
  ASSUME PhasesInv, AccessPhase
  PROVE  PhasesInv'
<1>1. visit.state = "runs" /\ engine[visit.at].phase = "access"
  BY DEF AccessPhase, At
<1>2. /\ Tabled /\ visit \in Visit /\ Going(visit) /\ visit.visits <= MaxUri + 1 /\ visit.by = Nothing
      /\ visit.visits + visit.left <= MaxUri + 2 /\ site \in Sites
      /\ visit.at \in 1..Len(engine) /\ visit.at \in Nat
  BY <1>1, Running
<1>3. After < visit.at /\ visit.at <= LastAsked /\ engine[visit.at].next = LastJudged + 1
  BY <1>1, <1>2, RowAt
<1>4. visit.at > Find /\ LastJudged + 1 \in Nat
  <2>1. After \in Nat /\ LastJudged \in Nat /\ visit.at \in Nat
    BY <1>2, InTable
  <2>2. visit.at > After
    BY <1>3, <2>1
  <2> QED BY <1>2, <2>1, <2>2, Placed
<1>5. visit.loc \in Locs /\ visit.access \in {Nothing, "403"}
  BY <1>2 DEF Visit
<1>6. LocConf(visit).satisfy \in {"all", "any"}
  BY <1>2, <1>5, LocationOf DEF LocConf
<1>7. ASSUME NEW verdict \in Said
      PROVE  LET h == Heard(visit, verdict) IN
             /\ h \in Visit /\ h.state = "runs" /\ h.at = visit.at /\ h.access = visit.access /\ h.loc = visit.loc
             /\ h.content = visit.content /\ h.by = Nothing /\ h.left = visit.left /\ h.visits = visit.visits
             /\ h.internal = visit.internal /\ verdict \in Verdicts(h) /\ LocConf(h) = LocConf(visit)
             /\ h = [h EXCEPT !.access = visit.access]
  <2> DEFINE h == Heard(visit, verdict)
  <2>1. /\ h = [visit EXCEPT !.verdicts = Append(visit.verdicts, verdict)] /\ h \in Visit
        /\ Verdicts(h) = Verdicts(visit) \cup {verdict}
    BY <1>2, HeardFields
  <2> HIDE DEF h
  <2>2. /\ h.state = visit.state /\ h.at = visit.at /\ h.access = visit.access /\ h.loc = visit.loc
        /\ h.content = visit.content /\ h.by = visit.by /\ h.left = visit.left /\ h.visits = visit.visits
        /\ h.internal = visit.internal
    BY <1>2, <2>1 DEF Visit
  <2>3. h = [h EXCEPT !.access = visit.access]
    BY <2>1, <2>2 DEF Visit
  <2> QED BY <1>1, <1>2, <2>1, <2>2, <2>3 DEF h, LocConf
<1>8. CASE ~visit.main /\ Becomes(Skips(visit))
  <2> DEFINE to == LastJudged + 1
             s == [visit EXCEPT !.at = to]
  <2>1. Skips(visit) = s
    BY <1>3 DEF Skips
  <2>2. to \in Nat /\ to = LastJudged + 1
    BY <1>4
  <2> HIDE DEF to
  <2>3. /\ s \in Visit /\ s.state = "runs" /\ s.at = to /\ s.loc = visit.loc /\ s.content = visit.content
        /\ s.by = visit.by /\ s.left = visit.left /\ s.visits = visit.visits /\ s.internal = visit.internal
        /\ s.main = visit.main
    BY <1>1, <1>2, <2>2 DEF Visit
  <2> HIDE DEF s
  <2>4. FitsPlace(s)
    BY <1>2, <1>4, <1>8, <2>2, <2>3, LetInFits
  <2> QED BY <1>2, <1>8, <2>1, <2>4, Became
<1>9. ASSUME NEW verdict \in Said, NEW access \in {Nothing, "403"},
             \/ verdict = "declined" /\ access = visit.access
             \/ verdict = "ok" /\ LocConf(visit).satisfy = "all" /\ access = visit.access
             \/ verdict = "403" /\ LocConf(visit).satisfy # "all" /\ access = "403",
             Becomes([Heard(visit, verdict) EXCEPT !.access = access, !.at = visit.at + 1])
      PROVE  PhasesInv'
  BY <1>1, <1>2, <1>3, <1>9, AskedFits, Became
<1>10. CASE Becomes(Passes(Heard(visit, "declined")))
  <2> DEFINE h == Heard(visit, "declined")
  <2>1. "declined" \in Said
    BY DEF Said
  <2>2. h = [h EXCEPT !.access = visit.access] /\ h.at = visit.at
    BY <1>7, <2>1
  <2>3. Passes(h) = [h EXCEPT !.at = visit.at + 1]
    BY <2>2 DEF Passes
  <2> HIDE DEF h
  <2>4. Passes(h) = [h EXCEPT !.access = visit.access, !.at = visit.at + 1]
    BY <2>2, <2>3
  <2> QED BY <1>5, <1>9, <1>10, <2>1, <2>4 DEF h
<1>11. CASE Becomes(Allowed(Heard(visit, "ok")))
  <2> DEFINE h == Heard(visit, "ok")
  <2>1. "ok" \in Said
    BY DEF Said
  <2>2. /\ h \in Visit /\ h.state = "runs" /\ h.at = visit.at /\ h.loc = visit.loc
        /\ h.content = visit.content /\ h.by = Nothing /\ h.left = visit.left /\ h.visits = visit.visits
        /\ h.internal = visit.internal /\ "ok" \in Verdicts(h) /\ LocConf(h) = LocConf(visit)
        /\ h = [h EXCEPT !.access = visit.access]
    BY <1>7, <2>1
  <2> HIDE DEF h
  <2>3. CASE LocConf(visit).satisfy = "all"
    <3>1. Allowed(h) = Passes(h)
      BY <2>2, <2>3 DEF Allowed
    <3>2. Passes(h) = [h EXCEPT !.at = visit.at + 1]
      BY <2>2 DEF Passes
    <3>3. Passes(h) = [h EXCEPT !.access = visit.access, !.at = visit.at + 1]
      BY <2>2, <3>2
    <3>4. Becomes([Heard(visit, "ok") EXCEPT !.access = visit.access, !.at = visit.at + 1])
      BY <1>11, <3>1, <3>3 DEF h
    <3> QED BY <1>5, <1>9, <2>1, <2>3, <3>4
  <2>4. CASE LocConf(visit).satisfy = "any"
    <3> DEFINE to == LastJudged + 1
               s == [h EXCEPT !.access = Nothing, !.at = to]
    <3>1. Allowed(h) = s
      BY <1>3, <2>2, <2>4 DEF Allowed, Skips, Visit
    <3>2. to \in Nat /\ to = LastJudged + 1
      BY <1>4
    <3> HIDE DEF to
    <3>3. s \in Visit
      BY <2>2, <3>2 DEF Visit
    <3>4. /\ s.state = "runs" /\ s.at = to /\ s.loc = visit.loc /\ s.content = visit.content
          /\ s.by = visit.by /\ s.left = visit.left /\ s.visits = visit.visits /\ s.internal = visit.internal
          /\ s.verdicts = h.verdicts
      BY <1>2, <2>2 DEF Visit
    <3> HIDE DEF s
    <3>5. "ok" \in Verdicts(s) /\ LocConf(s).satisfy = "any"
      BY <2>2, <2>4, <3>4 DEF Verdicts, LocConf
    <3>6. Granted(s)
      BY <3>5 DEF Granted
    <3>7. FitsPlace(s)
      BY <1>2, <1>4, <3>2, <3>3, <3>4, <3>6, LetInFits
    <3> QED BY <1>2, <1>11, <3>1, <3>7, Became DEF h
  <2> QED BY <1>6, <2>3, <2>4
<1>12. CASE Becomes(Denied(Heard(visit, "403")))
  <2> DEFINE h == Heard(visit, "403")
  <2>1. "403" \in Said /\ "403" \in Codes
    BY DEF Said, Codes
  <2>2. /\ h \in Visit /\ h.state = "runs" /\ h.at = visit.at /\ h.by = Nothing
        /\ h.left = visit.left /\ h.visits = visit.visits /\ LocConf(h) = LocConf(visit)
    BY <1>7, <2>1
  <2> HIDE DEF h
  <2>3. CASE LocConf(visit).satisfy = "all"
    <3>1. Denied(h) = Finalized(h, "403")
      BY <2>2, <2>3 DEF Denied
    <3>2. h.visits <= MaxUri + 1 /\ h.visits + h.left <= MaxUri + 2 /\ h.by # "post_access"
      BY <1>2, <2>2 DEF Nothing
    <3>3. FitsPlace(Finalized(h, "403"))
      BY <1>2, <2>1, <2>2, <3>2, FinalizedFits
    <3> QED BY <1>2, <1>12, <3>1, <3>3, Became DEF h
  <2>4. CASE LocConf(visit).satisfy # "all"
    <3>1. Denied(h) = [h EXCEPT !.access = "403", !.at = visit.at + 1]
      BY <2>2, <2>4 DEF Denied, Passes, Visit
    <3> QED BY <1>9, <1>12, <2>1, <2>4, <3>1 DEF h
  <2> QED BY <2>3, <2>4
<1>13. CASE Becomes(Finalized(Heard(visit, "500"), "500"))
  <2> DEFINE h == Heard(visit, "500")
  <2>1. "500" \in Said /\ "500" \in Codes
    BY DEF Said, Codes
  <2>2. h \in Visit /\ h.state = "runs" /\ h.left = visit.left /\ h.visits = visit.visits
    BY <1>7, <2>1
  <2> HIDE DEF h
  <2>3. h.visits <= MaxUri + 1 /\ h.visits + h.left <= MaxUri + 2
    BY <1>2, <2>2
  <2>4. FitsPlace(Finalized(h, "500"))
    BY <1>2, <2>1, <2>2, <2>3, FinalizedFits
  <2> QED BY <1>2, <1>13, <2>4, Became DEF h
<1> QED BY <1>8, <1>10, <1>11, <1>12, <1>13 DEF AccessPhase

\* The check behind the access handlers.
LEMMA PostAccessKept ==
  ASSUME PhasesInv, PostAccessPhase
  PROVE  PhasesInv'
<1>1. visit.state = "runs" /\ engine[visit.at].phase = "post_access"
  BY DEF PostAccessPhase, At
<1>2. /\ Tabled /\ visit \in Visit /\ Going(visit) /\ visit.visits <= MaxUri + 1 /\ visit.by = Nothing
      /\ visit.visits + visit.left <= MaxUri + 2 /\ site \in Sites
      /\ visit.at \in 1..Len(engine) /\ visit.at \in Nat
  BY <1>1, Running
<1>3. LastAsked < visit.at /\ visit.at <= LastJudged
  BY <1>1, <1>2, RowAt
<1>4. visit.at > Find /\ ~(visit.at <= After) /\ visit.at = LastJudged
      /\ visit.at - After - 1 = site.handlers["access"]
  BY <1>2, <1>3, Placed
<1>5. Entitled(visit)
  BY <1>2, <1>4 DEF Going
<1>6. /\ Len(visit.verdicts) = site.handlers["access"]
      /\ Verdicts(visit) \subseteq (IF LocConf(visit).satisfy = "all" THEN {"ok", "declined"} ELSE {"declined", "403"})
      /\ "403" \in Verdicts(visit) => visit.access # Nothing
      /\ visit.access # Nothing => "403" \in Verdicts(visit) \/ visit.stale
  BY <1>3, <1>4, <1>5 DEF Entitled, Judged
<1>7. CASE visit.access = Nothing /\ Becomes(Passes(visit))
  <2> DEFINE to == LastJudged + 1
             s == [visit EXCEPT !.at = to]
  <2>1. Passes(visit) = s
    BY <1>4 DEF Passes
  <2>2. to \in Nat /\ to = LastJudged + 1
    BY <1>2, InTable
  <2> HIDE DEF to
  <2>3. /\ s \in Visit /\ s.state = "runs" /\ s.at = to /\ s.loc = visit.loc /\ s.content = visit.content
        /\ s.by = visit.by /\ s.left = visit.left /\ s.visits = visit.visits /\ s.internal = visit.internal
        /\ s.verdicts = visit.verdicts
    BY <1>1, <1>2, <2>2 DEF Visit
  <2> HIDE DEF s
  <2>4. Granted(s)
    <3>1. "403" \notin Verdicts(visit)
      BY <1>6, <1>7
    <3>2. Verdicts(s) = Verdicts(visit) /\ LocConf(s) = LocConf(visit)
      BY <2>3 DEF Verdicts, LocConf
    <3>3. Heeded(s)
      BY <1>6, <2>3 DEF Heeded
    <3>4. Verdicts(s) \subseteq (IF LocConf(s).satisfy = "all" THEN {"ok", "declined"} ELSE {"declined"})
      BY <1>6, <3>1, <3>2
    <3> QED BY <3>3, <3>4 DEF Granted
  <2>5. FitsPlace(s)
    BY <1>2, <1>4, <2>2, <2>3, <2>4, LetInFits
  <2> QED BY <1>2, <1>7, <2>1, <2>5, Became
<1>8. CASE visit.access # Nothing
           /\ Becomes(Finalized([visit EXCEPT !.access = Nothing, !.by = "post_access"], "403"))
  <2> DEFINE s == [visit EXCEPT !.access = Nothing, !.by = "post_access"]
  <2>1. s \in Visit
    BY <1>2 DEF Visit
  <2>2. s.state = "runs" /\ s.visits = visit.visits /\ s.left = visit.left /\ s.verdicts = visit.verdicts
        /\ s.stale = visit.stale
    BY <1>1, <1>2 DEF Visit
  <2> HIDE DEF s
  <2>3. Verdicts(s) = Verdicts(visit)
    BY <2>2 DEF Verdicts
  <2>4. FitsPlace(Finalized(s, "403"))
    BY <1>2, <1>6, <1>8, <2>1, <2>2, <2>3, FinalizedFits DEF Codes
  <2> QED BY <1>2, <1>8, <2>4, Became DEF s
<1> QED BY <1>7, <1>8 DEF PostAccessPhase

\* A file that is tried, in the same location or by way of a redirect.
LEMMA TryFilesKept ==
  ASSUME PhasesInv, TryFilesPhase
  PROVE  PhasesInv'
<1>1. visit.state = "runs" /\ engine[visit.at].phase = "try_files"
  BY DEF TryFilesPhase, At
<1>2. /\ Tabled /\ visit \in Visit /\ Going(visit) /\ visit.visits <= MaxUri + 1 /\ visit.by = Nothing
      /\ visit.left # 0 /\ visit.visits + visit.left <= MaxUri + 2 /\ site \in Sites
      /\ visit.at \in 1..Len(engine) /\ visit.at \in Nat
  BY <1>1, Running
<1>3. LastJudged < visit.at /\ visit.at # Len(engine)
  BY <1>1, <1>2, RowAt, InTable
<1>4. LocConf(visit).try \in Locs \cup {"404", Nothing}
  <2>1. visit.loc \in Locs
    BY <1>2 DEF Visit
  <2> QED BY <1>2, <2>1, LocationOf DEF LocConf
<1>5. CASE Becomes(Passes(visit))
  <2> DEFINE to == visit.at + 1
             s == [visit EXCEPT !.at = to]
  <2>1. Passes(visit) = s
    BY DEF Passes
  <2>2. to \in Nat /\ visit.at <= to /\ to <= Len(engine) /\ visit.at > LastJudged
    BY <1>2, <1>3, InTable
  <2> HIDE DEF to
  <2>3. [visit EXCEPT !.content = s.content] = visit /\ s.content = visit.content
    BY <1>2 DEF Visit
  <2>4. s \in Visit /\ Same(visit, s) /\ s.state = "runs" /\ s.at = to
    BY <1>1, <1>2, <2>2 DEF Visit, Same
  <2> HIDE DEF s
  <2>5. FitsPlace(s)
    BY <1>2, <2>2, <2>3, <2>4, ThroughFits
  <2> QED BY <1>2, <1>5, <2>1, <2>5, Became
<1>6. CASE Becomes(Finalized(visit, "404"))
  <2>1. FitsPlace(Finalized(visit, "404"))
    BY <1>1, <1>2, FinalizedFits DEF Codes
  <2> QED BY <1>2, <1>6, <2>1, Became
<1>7. CASE LocConf(visit).try \notin {"404", Nothing} /\ Becomes(Sent(visit, LocConf(visit).try))
  <2>1. FitsPlace(Sent(visit, LocConf(visit).try))
    BY <1>1, <1>2, <1>4, <1>7, SentFits
  <2> QED BY <1>2, <1>7, <2>1, Became
<1> QED BY <1>5, <1>6, <1>7 DEF TryFilesPhase

\* The content handlers: the answer, or on to the next one.
LEMMA ContentKept ==
  ASSUME PhasesInv, ContentPhase
  PROVE  PhasesInv'
<1>1. visit.state = "runs" /\ engine[visit.at].phase = "content"
  BY DEF ContentPhase, At
<1>2. /\ Tabled /\ visit \in Visit /\ Going(visit) /\ visit.visits <= MaxUri + 1 /\ visit.by = Nothing
      /\ visit.left # 0 /\ visit.visits + visit.left <= MaxUri + 2 /\ site \in Sites
      /\ visit.at \in 1..Len(engine) /\ visit.at \in Nat
  BY <1>1, Running
<1>3. LastJudged < visit.at /\ visit.at > LastJudged /\ visit.at > Find
  BY <1>1, <1>2, RowAt, InTable
<1>4. Entitled(visit)
  BY <1>2, <1>3 DEF Going
<1>5. visit.main => Granted(visit)
  BY <1>3, <1>4 DEF Entitled, Judged
<1>6. CASE Becomes(ServedBy(visit))
  <2> DEFINE s == ServedBy(visit)
  <2>1. (IF visit.content = Nothing THEN visit.loc ELSE visit.content) = visit.loc
    BY <1>4 DEF Entitled
  <2>2. s = [visit EXCEPT !.state = "served", !.by = visit.loc]
    BY <2>1 DEF ServedBy
  <2> HIDE DEF s
  <2>3. s \in Visit
    BY <1>2, <2>2 DEF Visit
  <2>4. /\ s.state = "served" /\ s.by = visit.loc /\ s.loc = visit.loc /\ s.main = visit.main
        /\ s.internal = visit.internal /\ s.verdicts = visit.verdicts /\ s.visits = visit.visits
    BY <1>2, <2>2 DEF Visit
  <2>5. Granted(visit) => Granted(s)
    BY <2>4 DEF Granted, Heeded, Verdicts, LocConf
  <2>6. LocConf(s).internal => s.internal
    BY <1>4, <2>4 DEF Entitled, LocConf
  <2>7. FitsPlace(s)
    BY <1>2, <1>5, <2>3, <2>4, <2>5, <2>6 DEF FitsPlace, Answered
  <2> QED BY <1>2, <1>6, <2>7, Became DEF s
<1>7. CASE \E code \in {"403", "500"} : Becomes(Finalized(visit, code))
  <2>1. PICK code \in {"403", "500"} : Becomes(Finalized(visit, code))
    BY <1>7
  <2>2. code \in Codes /\ visit.by # "post_access"
    BY <1>2 DEF Codes, Nothing
  <2>3. FitsPlace(Finalized(visit, code))
    BY <1>1, <1>2, <2>2, FinalizedFits
  <2> QED BY <1>2, <2>1, <2>3, Became
<1>8. CASE Becomes([visit EXCEPT !.content = Nothing])
  <2> DEFINE s == [visit EXCEPT !.content = Nothing]
  <2>1. s \in Visit /\ s.state = "runs" /\ s.at = visit.at /\ s.content = Nothing
    BY <1>1, <1>2 DEF Visit
  <2>2. Same([visit EXCEPT !.content = s.content], s)
    BY <1>2, <2>1 DEF Visit, Same
  <2> HIDE DEF s
  <2>3. visit.at <= s.at /\ s.at <= Len(engine)
    BY <1>2, <2>1, InTable
  <2>4. FitsPlace(s)
    BY <1>2, <1>3, <2>1, <2>2, <2>3, ThroughFits
  <2> QED BY <1>2, <1>8, <2>4, Became DEF s
<1>9. CASE visit.at < Len(engine) /\ Becomes(Passes(visit))
  <2> DEFINE to == visit.at + 1
             s == [visit EXCEPT !.at = to]
  <2>1. Passes(visit) = s
    BY DEF Passes
  <2>2. to \in Nat /\ visit.at <= to /\ to <= Len(engine)
    BY <1>2, <1>9, InTable
  <2> HIDE DEF to
  <2>3. [visit EXCEPT !.content = s.content] = visit /\ s.content = visit.content
    BY <1>2 DEF Visit
  <2>4. s \in Visit /\ Same(visit, s) /\ s.state = "runs" /\ s.at = to
    BY <1>1, <1>2, <2>2 DEF Visit, Same
  <2> HIDE DEF s
  <2>5. FitsPlace(s)
    BY <1>2, <1>3, <2>2, <2>3, <2>4, ThroughFits
  <2> QED BY <1>2, <1>9, <2>1, <2>5, Became
<1>10. CASE Becomes(Finalized(visit, "404"))
  <2>1. FitsPlace(Finalized(visit, "404"))
    BY <1>1, <1>2, FinalizedFits DEF Codes
  <2> QED BY <1>2, <1>10, <2>1, Became
<1>11. CASE \E uri \in Targets : Becomes(InternalRedirect(visit, uri))
  <2>1. PICK uri \in Targets : Becomes(InternalRedirect(visit, uri))
    BY <1>11
  <2>2. uri \in Locs
    BY DEF Targets, Locs
  <2>3. FitsPlace(InternalRedirect(visit, uri))
    BY <1>1, <1>2, <2>2, RedirectFits
  <2> QED BY <1>2, <2>1, <2>3, Became
<1> QED BY <1>6, <1>7, <1>8, <1>9, <1>10, <1>11 DEF ContentPhase

\* A new request, or a subrequest, begins at its place.
LEMMA PhasesInitInv == PhasesInit => PhasesInv
<1> SUFFICES ASSUME PhasesInit PROVE PhasesInv
  OBVIOUS
<1>1. PICK main \in BOOLEAN, uri \in Targets :
         visit = [state |-> "runs", at |-> IF main THEN 1 ELSE ServerRewriteIndex,
                  loc |-> Server, uri |-> uri, main |-> main, internal |-> ~main,
                  left |-> MaxUri + 1, changed |-> FALSE, access |-> Nothing, content |-> Nothing,
                  errored |-> FALSE, by |-> Nothing, verdicts |-> <<>>, stale |-> FALSE, visits |-> 0]
  BY DEF PhasesInit
<1>2. site \in Sites /\ engine = Engine(site.handlers)
  BY DEF PhasesInit
<1>3. Handled(site.handlers)
  BY <1>2, PhasesAssumption DEF Handled
<1>4. Tabled
  <2>1. /\ Outlined(engine, Find, After, LastAsked, LastJudged, site.handlers["access"])
        /\ Len(ToServerRewrite(site.handlers)) \in Nat /\ Len(ToServerRewrite(site.handlers)) < Find
    BY <1>2, <1>3, EngineOutlined DEF Find, After, LastAsked, LastJudged
  <2>2. Find \in Nat
    BY <2>1 DEF Outlined, Bounds
  <2>3. LocationRewriteIndex = Find + 1
    BY DEF LocationRewriteIndex, Find, FindAt
  <2> QED BY <1>2, <2>1, <2>2, <2>3 DEF Tabled, ServerRewriteIndex
<1> DEFINE at == IF main THEN 1 ELSE ServerRewriteIndex
           left == MaxUri + 1
<1>5. at \in Nat /\ at \in 1..Len(engine) /\ at <= Find /\ ~(at > Find)
  BY <1>4, InTable DEF Tabled
<1>6. MaxUri \in 1..14 /\ left \in 0..(MaxUri + 1) /\ left # 0 /\ 0 + left <= MaxUri + 1
  BY PhasesAssumption
<1>7. uri \in Locs /\ Server \in Locs /\ <<>> \in Seq(Said)
  <2>1. uri \in Locs
    BY DEF Targets, Locs
  <2> QED BY <1>2, <2>1, LocationOf, EmptySeq
<1> HIDE DEF at, left
<1>8. visit \in Visit
  <2>1. (~main) = FALSE \/ (~main) = TRUE
    <3>1. main = TRUE \/ main = FALSE
      OBVIOUS
    <3> QED BY <3>1
  <2> QED BY <1>1, <1>5, <1>6, <1>7, <2>1 DEF at, left, Visit
<1>9. visit.state = "runs" /\ visit.at = at /\ visit.left = left /\ visit.by = Nothing /\ visit.visits = 0
  BY <1>1 DEF at, left
<1>10. Going(visit)
  BY <1>5, <1>6, <1>9 DEF Going
<1> QED BY <1>4, <1>6, <1>8, <1>9, <1>10 DEF PhasesInv, FitsPlace, Answered

\* Whatever the phases do is within the invariant: the checkers of ngx_http_core_module.c one by one.
LEMMA PhasesStepInv == PhasesInv /\ [PhasesNext]_phaseVars => PhasesInv'
<1> SUFFICES ASSUME PhasesInv, [PhasesNext]_phaseVars PROVE PhasesInv'
  OBVIOUS
<1>1. CASE UNCHANGED phaseVars
  <2>1. visit' = visit /\ site' = site /\ engine' = engine
    BY <1>1 DEF phaseVars
  <2> QED BY <2>1, Became DEF PhasesInv, Becomes
<1>2. CASE PhasesNext
  BY <1>2, GenericKept, ResumeKept, RewriteKept, FindConfigKept, PostRewriteKept, AccessKept, PostAccessKept,
     TryFilesKept, ContentKept DEF PhasesNext
<1> QED BY <1>1, <1>2

(***************************************************************************)
(* Whatever rewrites, redirects, error pages and named locations led       *)
(* there, ngx_http_core_run_phases() answers a request in a location only  *)
(* after the access handlers of that location let it pass, with that       *)
(* location's content handler, and never enters more locations than        *)
(* uri_changes allows: for every configuration and every number of         *)
(* handlers.                                                               *)
(***************************************************************************)
THEOREM PhasesCorrect == PhasesSpec => []PhasesKept
<1>1. PhasesSpec => []PhasesInv
  BY PhasesInitInv, PhasesStepInv, PTL DEF PhasesSpec
<1> QED BY <1>1, InvKept, PTL

-----------------------------------------------------------------------------
(* The requests of a connection: what the buffers hold *)

\* the configurations of the server for which a body read into one buffer is whole: a quarter
\* of the buffer is not zero bytes
QuarterBuffer == rconf.single => rconf.size >= 4

Doings == {"init", "line", "headers", "handler", "discard", "reading", "body", "done",
           "keepalive", "refused", "closed"}
Parsing == {"line", "headers", "refused"}
Current == rconf.requests[serving]
Before == BytesBefore(serving)
BodyAt == Before + Current.header

\* The values are of the right kinds, and positions lie in their buffers.
Mems == UNION {[1..n -> Nat] : n \in Nat}
Chunks == [mem : Mems, pos : Nat \ {0}, last : Nat \ {0}]
ChunkOK(c, b) == c.mem \in [1..Size(b) -> Nat] /\ c.pos <= c.last /\ c.last <= Size(b) + 1
Bodies ==
  [pre : [buf : Nat, from : Nat \ {0}, len : Nat], inHeader : BOOLEAN, buf : Seq(Nat), cap : Nat, rest : Nat,
   bufs : Seq({"pre", "buf", "file"}), toWrite : Seq({"pre", "buf", "file"}), file : Seq(Nat), hasFile : BOOLEAN]
ReaderTypes ==
  /\ rconf \in ReaderConfs /\ doing \in Doings /\ serving \in Nat \ {0}
  /\ received \in Nat /\ taken \in Nat /\ received <= Len(wire)
  /\ headerIn \in Buffers /\ busyBufs \in Seq(1..rconf.num) /\ freeBufs \in Seq(1..rconf.num)
  /\ mid \in BOOLEAN /\ start \in Nat \ {0} /\ rb \in Bodies
BuffersOK == buffer \in [Buffers -> Chunks] /\ \A b \in Buffers : ChunkOK(buffer[b], b)

\* header_in is the newest of the large buffers in use, the others are empty.
ListsOK ==
  /\ headerIn = IF busyBufs = <<>> THEN Small ELSE busyBufs[Len(busyBufs)]
  /\ IsInjective(busyBufs) /\ IsInjective(freeBufs) /\ ToSet(busyBufs) \cap ToSet(freeBufs) = {}
  /\ \A b \in (1..rconf.num) \ ToSet(busyBufs) : buffer[b].pos = 1 /\ buffer[b].last = 1
  /\ doing = "init" => Len(busyBufs) <= 1
  /\ doing = "keepalive" => busyBufs = <<>> /\ buffer[Small].pos = 1 /\ buffer[Small].last = 1

\* header_in holds the stream, from the incomplete line, if there is one, to what was received.
LineFrom == IF mid THEN start ELSE In.pos
StreamOK ==
  /\ received = taken + In.last - In.pos
  /\ mid => doing \in Parsing \cup {"closed"} /\ start < In.pos
  /\ \A i \in LineFrom..(In.last - 1) : In.mem[i] = taken + i - In.pos + 1
  /\ doing \in {"discard", "reading"} => In.pos = In.last

\* The parser is in the request that is served: at its beginning, in its header, at the end of
\* that, in the body or behind it.
PlaceOK ==
  /\ doing \notin {"keepalive", "closed"} => serving \in DOMAIN rconf.requests
  /\ serving <= Len(rconf.requests) + 1
  /\ doing \in {"init", "keepalive"} => taken = Before
  /\ doing \in Parsing =>
       /\ Before <= taken /\ taken < BodyAt
       /\ mid => In.pos - start <= taken - Before
       /\ Len(busyBufs) >= 2 => In.pos - 1 <= taken - Before
  /\ doing = "refused" => ~ShortHeader(Current)
  /\ doing = "handler" => taken = BodyAt
  /\ doing \in {"discard", "reading"} => rb.rest \in 0..Current.body /\ taken = BodyAt + Current.body - rb.rest
  /\ doing \in {"body", "done"} => taken = BodyAt + Current.body

\* The lines of the request lie before the bytes that are parsed.
Lines == [buf : Nat, from : Nat \ {0}, len : Nat, first : Nat]
LinesOK ==
  /\ doing \in {"init", "line", "keepalive"} => lines = {}
  /\ lines \in SUBSET Lines
  /\ \A l \in lines :
       /\ l.buf \in {Small} \cup ToSet(busyBufs)
       /\ l.from + l.len <= buffer[l.buf].pos
       /\ \A i \in 1..l.len : buffer[l.buf].mem[l.from + i - 1] = l.first + i - 1

\* The bytes of the stream behind the first m and up to n.
Bytes(m, n) == [i \in 1..(n - m) |-> m + i]

\* The rest of a body goes into a buffer of its own: what that holds and what the temporary
\* file holds, in front of it what came with the header if it is still in a buffer.
Split == rb.bufs = <<"pre", "buf">>
Together == rconf.only \/ rconf.single
OwnFirst == IF Split /\ ~(rb.hasFile /\ Together) THEN BodyAt + rb.pre.len ELSE BodyAt
OwnBufferOK ==
  /\ Split \/ rb.bufs = <<"buf">>
  /\ Len(rb.buf) <= rb.cap
  /\ rb.pre.len <= Current.body - rb.rest
  /\ ~rb.hasFile =>
       /\ rb.file = <<>> /\ rb.buf = Bytes(OwnFirst, taken)
       /\ rb.toWrite = IF Split /\ ~Together THEN <<"buf">> ELSE rb.bufs
       /\ QuarterBuffer /\ rconf.single /\ Split => rb.rest + Len(rb.buf) > rb.cap
  /\ rb.hasFile =>
       /\ rb.toWrite = <<"buf">>
       /\ \E m \in OwnFirst..taken : rb.file = Bytes(OwnFirst, m) /\ rb.buf = Bytes(m, taken)
HeaderOK ==
  /\ rb.bufs = <<"pre">> /\ rb.toWrite = <<"pre">> /\ ~rb.hasFile /\ rb.file = <<>>
  /\ rb.pre.len = Current.body - rb.rest /\ Current.body <= rb.cap
  /\ rb.pre.from + rb.cap = Size(headerIn) + 1
BodyOK ==
  doing = "reading" =>
       /\ rb.pre.buf = headerIn /\ Slice(rb.pre) = Bytes(BodyAt, BodyAt + rb.pre.len)
       /\ rb.pre.from + rb.pre.len <= Size(headerIn) + 1
       /\ \A l \in lines : l.buf = headerIn => l.from + l.len <= rb.pre.from
       /\ IF rb.inHeader THEN HeaderOK ELSE OwnBufferOK

BodyWhole ==
  doing = "body" =>
       /\ Contents(rb, rb.bufs) = Bytes(BodyAt, BodyAt + Current.body)
       /\ rconf.only /\ Current.body > 0 => rb.file = Bytes(BodyAt, BodyAt + Current.body)
       /\ rconf.single => Len(rb.bufs) <= 1

HeadersInv == ReaderTypes /\ BuffersOK /\ ListsOK /\ StreamOK /\ PlaceOK /\ LinesOK
ReaderInv == HeadersInv /\ BodyOK /\ (QuarterBuffer => BodyWhole)

\* The sizes of the buffers and the requests of a configuration.
LEMMA ReaderConstants ==
  ASSUME ReaderTypes
  PROVE  /\ rconf.small \in Nat \ {0} /\ rconf.large \in Nat \ {0} /\ rconf.num \in Nat \ {0}
         /\ rconf.size \in Nat \ {0} /\ rconf.only \in BOOLEAN /\ rconf.single \in BOOLEAN
         /\ wire \in Seq(Kinds) /\ Len(wire) \in Nat /\ Follow(rconf)
         /\ rconf.requests \in Seq([before : Nat, header : Nat \ {0}, body : Nat])
         /\ Len(rconf.requests) \in Nat \ {0} /\ DOMAIN rconf.requests = 1..Len(rconf.requests)
<1>1. /\ rconf.wire \in Seq(Kinds)
      /\ rconf.requests \in Seq([before : Nat, header : Nat \ {0}, body : Nat])
      /\ rconf.requests # <<>> /\ Follow(rconf)
      /\ {rconf.small, rconf.large, rconf.num, rconf.size} \subseteq Nat \ {0}
      /\ {rconf.only, rconf.single} \subseteq BOOLEAN
  BY ReaderAssumption DEF ReaderTypes
<1>2. Len(rconf.requests) \in Nat \ {0} /\ DOMAIN rconf.requests = 1..Len(rconf.requests)
  BY <1>1, EmptySeq, LenProperties
<1>3. Len(rconf.wire) \in Nat
  BY <1>1, LenProperties
<1> QED BY <1>1, <1>2, <1>3 DEF wire

\* The buffers and their sizes.
LEMMA BufferSizes ==
  ASSUME ReaderTypes
  PROVE  /\ Buffers \in SUBSET Nat /\ Small \in Buffers /\ 1..rconf.num \in SUBSET Buffers /\ Small \notin 1..rconf.num
         /\ \A b \in Buffers : Size(b) \in Nat \ {0} /\ (b # Small => b \in 1..rconf.num /\ Size(b) = rconf.large)
         /\ Size(Small) = rconf.small
BY ReaderConstants DEF Buffers, Size, Small

\* A request, its header and its body lie where the one before it ends.
LEMMA RequestLies ==
  ASSUME ReaderTypes, serving \in DOMAIN rconf.requests
  PROVE  /\ Before \in Nat /\ Current.header \in Nat \ {0} /\ Current.body \in Nat /\ BodyAt \in Nat
         /\ BodyAt = Before + Current.header
         /\ BytesBefore(serving + 1) = BodyAt + Current.body
         /\ \A j \in 1..Current.header : wire[Before + j] = "eoh" <=> j = Current.header
         /\ ContentLength = Current.body
<1>1. serving \in 1..Len(rconf.requests) /\ Len(rconf.requests) \in Nat /\ Follow(rconf)
      /\ Current \in [before : Nat, header : Nat \ {0}, body : Nat]
  BY ReaderConstants, ElementOfSeq DEF Current
<1>2. Before = Current.before
  BY <1>1 DEF Before, BytesBefore, Current
<1>3. /\ Current.before + Current.header + Current.body =
           IF serving < Len(rconf.requests) THEN rconf.requests[serving + 1].before ELSE Len(wire)
      /\ \A j \in 1..Current.header : wire[Current.before + j] = "eoh" <=> j = Current.header
  BY <1>1, ReaderConstants DEF Follow, Current, wire
<1>4. Current.before \in Nat /\ Current.header \in Nat \ {0} /\ Current.body \in Nat
  BY <1>1
<1>5. BytesBefore(serving + 1) = BodyAt + Current.body
  BY <1>1, <1>2, <1>3, <1>4 DEF BytesBefore, BodyAt
<1> QED BY <1>2, <1>3, <1>4, <1>5 DEF BodyAt, ContentLength, Current

\* Bytes and positions that make a buffer.
LEMMA ChunkMade ==
  ASSUME ReaderTypes, NEW b \in Buffers, NEW m \in [1..Size(b) -> Nat], NEW p \in Nat \ {0},
         NEW l \in Nat \ {0}, p <= l, l <= Size(b) + 1, NEW c, c = [mem |-> m, pos |-> p, last |-> l]
  PROVE  c \in Chunks /\ ChunkOK(c, b) /\ c.mem = m /\ c.pos = p /\ c.last = l
<1>1. m \in Mems
  BY BufferSizes DEF Mems
<1>2. c \in Chunks /\ c.mem = m /\ c.pos = p /\ c.last = l
  BY <1>1 DEF Chunks
<1> QED BY <1>2 DEF ChunkOK

\* What is known of a buffer.
LEMMA ChunkKnown ==
  ASSUME ReaderTypes, BuffersOK, NEW b \in Buffers
  PROVE  /\ buffer[b].mem \in [1..Size(b) -> Nat] /\ buffer[b].pos \in Nat \ {0} /\ buffer[b].last \in Nat \ {0}
         /\ buffer[b].pos <= buffer[b].last /\ buffer[b].last <= Size(b) + 1
         /\ buffer[b] = [mem |-> buffer[b].mem, pos |-> buffer[b].pos, last |-> buffer[b].last]
<1>1. buffer[b] \in Chunks /\ ChunkOK(buffer[b], b)
  BY DEF BuffersOK
<1> QED BY <1>1 DEF Chunks, ChunkOK

\* Bytes of the stream are numbers, one behind the other.
LEMMA BytesSeq ==
  ASSUME NEW m \in Nat, NEW n \in Nat, m <= n
  PROVE  /\ Bytes(m, n) \in Seq(Nat) /\ Len(Bytes(m, n)) = n - m
         /\ \A i \in 1..(n - m) : Bytes(m, n)[i] = m + i
<1>1. n - m \in Nat /\ \A i \in 1..(n - m) : m + i \in Nat
  OBVIOUS
<1>2. Bytes(m, n) \in [1..(n - m) -> Nat]
  BY <1>1 DEF Bytes
<1>3. Bytes(m, n) \in Seq(Nat)
  BY <1>1, <1>2, SeqDef
<1> HIDE DEF Bytes
<1>4. Len(Bytes(m, n)) = n - m
  BY <1>1, <1>2, <1>3, LenProperties
<1> QED BY <1>3, <1>4 DEF Bytes

\* What comes first and what comes next is what came.
LEMMA BytesJoined ==
  ASSUME NEW m \in Nat, NEW n \in Nat, NEW k \in Nat, m <= n, n <= k
  PROVE  Bytes(m, n) \o Bytes(n, k) = Bytes(m, k)
<1> DEFINE s == Bytes(m, n) t == Bytes(n, k) u == Bytes(m, k)
<1>1. s \in Seq(Nat) /\ Len(s) = n - m /\ \A i \in 1..(n - m) : s[i] = m + i
  BY BytesSeq
<1>2. t \in Seq(Nat) /\ Len(t) = k - n /\ \A i \in 1..(k - n) : t[i] = n + i
  BY BytesSeq
<1>3. u \in Seq(Nat) /\ Len(u) = k - m /\ \A i \in 1..(k - m) : u[i] = m + i
  BY BytesSeq
<1> HIDE DEF s, t, u
<1>4. /\ s \o t \in Seq(Nat) /\ Len(s \o t) = Len(s) + Len(t)
      /\ \A i \in 1..(Len(s) + Len(t)) : (s \o t)[i] = IF i <= Len(s) THEN s[i] ELSE t[i - Len(s)]
  BY <1>1, <1>2, ConcatProperties
<1>5. Len(s \o t) = Len(u) /\ Len(u) = k - m
  BY <1>1, <1>2, <1>3, <1>4
<1>6. ASSUME NEW i \in 1..Len(s \o t) PROVE (s \o t)[i] = u[i]
  <2>1. i \in 1..(k - m) /\ i \in 1..(Len(s) + Len(t)) /\ u[i] = m + i /\ i \in Nat
    BY <1>3, <1>4, <1>5
  <2>2. CASE i <= Len(s)
    BY <1>1, <1>4, <2>1, <2>2
  <2>3. CASE ~(i <= Len(s))
    <3>1. i - Len(s) \in 1..(k - n) /\ n + (i - Len(s)) = m + i
      BY <1>1, <2>1, <2>3
    <3>2. (s \o t)[i] = t[i - Len(s)]
      BY <1>4, <2>1, <2>3
    <3> QED BY <1>2, <2>1, <3>1, <3>2
  <2> QED BY <2>2, <2>3
<1> QED BY <1>3, <1>4, <1>5, <1>6, SeqEqual DEF s, t, u

\* Only the handler changes, or a body behind the header.
LEMMA HeadStill ==
  ASSUME HeadersInv, UNCHANGED <<rconf, serving, received, taken, buffer, heads>>, rb' \in Bodies,
         \/ doing' = "closed"
         \/ doing = "body" /\ doing' = "done"
         \/ doing = "reading" /\ doing' = "reading" /\ rb'.rest = rb.rest
         \/ doing = "reading" /\ doing' = "body" /\ rb.rest = 0
  PROVE  HeadersInv'
<1>1. ReaderTypes /\ BuffersOK /\ ListsOK /\ StreamOK /\ PlaceOK /\ LinesOK
  BY DEF HeadersInv
<1>2. UNCHANGED <<headerIn, busyBufs, freeBufs, mid, start, lines>> /\ doing \in Doings /\ doing' \in Doings
  BY <1>1 DEF heads, ReaderTypes, Doings
<1>3. ReaderTypes'
  BY <1>1, <1>2 DEF ReaderTypes, Buffers, wire
<1>4. BuffersOK'
  BY <1>1, <1>2 DEF BuffersOK, ChunkOK, Size, Buffers
<1>5. ListsOK'
  BY <1>1, <1>2 DEF ListsOK, Doings
<1>6. StreamOK'
  BY <1>1, <1>2 DEF StreamOK, In, LineFrom, Parsing
<1>7. PlaceOK'
  <2>1. Before' = Before /\ BodyAt' = BodyAt /\ Current' = Current
    BY DEF Before, BytesBefore, BodyAt, Current, wire
  <2>2. doing \notin {"keepalive", "closed"} => Before \in Nat /\ BodyAt \in Nat /\ Current.body \in Nat
    BY <1>1, RequestLies DEF PlaceOK
  <2>3. CASE doing' = "closed"
    BY <1>1, <2>3 DEF PlaceOK, Parsing
  <2>4. CASE doing = "body" /\ doing' = "done"
    BY <1>1, <2>1, <2>4 DEF PlaceOK, Parsing
  <2>5. CASE doing = "reading" /\ doing' = "reading" /\ rb'.rest = rb.rest
    BY <1>1, <2>1, <2>5 DEF PlaceOK, Parsing
  <2>6. CASE doing = "reading" /\ doing' = "body" /\ rb.rest = 0
    BY <1>1, <2>1, <2>2, <2>6 DEF PlaceOK, Parsing
  <2> QED BY <2>3, <2>4, <2>5, <2>6
<1>8. LinesOK'
  BY <1>1, <1>2 DEF LinesOK, Doings
<1> QED BY <1>3, <1>4, <1>5, <1>6, <1>7, <1>8 DEF HeadersInv

\* What is in the buffer of the body is taken.
LEMMA HeadTaken ==
  ASSUME HeadersInv, doing = "handler", buffer' = [buffer EXCEPT ![headerIn].pos = @ + Preread],
         taken' = taken + Preread, UNCHANGED <<rconf, serving, received, heads>>, rb' \in Bodies,
         \/ Preread = ContentLength /\ doing' \in {"body", "done"}
         \/ Preread < ContentLength /\ doing' \in {"discard", "reading"} /\ rb'.rest = ContentLength - Preread
  PROVE  HeadersInv'
<1>1. ReaderTypes /\ BuffersOK /\ ListsOK /\ StreamOK /\ PlaceOK /\ LinesOK
  BY DEF HeadersInv
<1>2. /\ UNCHANGED <<headerIn, busyBufs, freeBufs, mid, start, lines>> /\ doing' \in Doings
      /\ headerIn \in Buffers /\ serving \in DOMAIN rconf.requests /\ ~mid
      /\ received = taken + In.last - In.pos /\ taken = BodyAt /\ taken \in Nat
  BY <1>1 DEF heads, ReaderTypes, PlaceOK, StreamOK, Doings, Parsing
<1>3. /\ buffer[headerIn].mem \in [1..Size(headerIn) -> Nat] /\ buffer[headerIn].pos \in Nat \ {0}
      /\ buffer[headerIn].last \in Nat \ {0}
      /\ buffer[headerIn].pos <= buffer[headerIn].last /\ buffer[headerIn].last <= Size(headerIn) + 1
      /\ buffer[headerIn] = [mem |-> buffer[headerIn].mem, pos |-> buffer[headerIn].pos, last |-> buffer[headerIn].last]
  BY <1>1, <1>2, ChunkKnown
<1> DEFINE c == In p == c.pos + Preread
<1>4. ContentLength \in Nat /\ ContentLength = Current.body /\ BodyAt \in Nat
  BY <1>1, <1>2, RequestLies
<1>5. /\ Preread \in Nat /\ Preread <= c.last - c.pos /\ Preread <= ContentLength /\ p \in Nat \ {0} /\ p <= c.last
      /\ Preread < ContentLength => p = c.last
  BY <1>3, <1>4 DEF Preread, SmallerOf, Unparsed, In
<1>6. buffer' = [buffer EXCEPT ![headerIn] = [mem |-> c.mem, pos |-> p, last |-> c.last]]
  <2>1. [buffer EXCEPT ![headerIn].pos = @ + Preread] = [buffer EXCEPT ![headerIn] = [c EXCEPT !.pos = p]]
    BY DEF In
  <2>2. [c EXCEPT !.pos = p] = [mem |-> c.mem, pos |-> p, last |-> c.last]
    BY <1>3 DEF In
  <2> QED BY <2>1, <2>2
<1> HIDE DEF p
<1>7. /\ buffer' \in [Buffers -> Chunks] /\ \A d \in Buffers : ChunkOK(buffer'[d], d)
      /\ buffer'[headerIn].mem = c.mem /\ buffer'[headerIn].pos = p /\ buffer'[headerIn].last = c.last
      /\ \A d \in Buffers \ {headerIn} : buffer'[d] = buffer[d]
  <2> DEFINE m == c.mem l == c.last h == [mem |-> m, pos |-> p, last |-> l]
  <2>1. m \in [1..Size(headerIn) -> Nat] /\ l \in Nat \ {0} /\ p \in Nat \ {0} /\ p <= l /\ l <= Size(headerIn) + 1
        /\ headerIn \in Buffers /\ ReaderTypes /\ BuffersOK
    BY <1>1, <1>2, <1>3, <1>5 DEF In
  <2>2. buffer' = [buffer EXCEPT ![headerIn] = h]
    BY <1>6
  <2> HIDE DEF m, l
  <2>3. h \in Chunks /\ ChunkOK(h, headerIn) /\ h.mem = m /\ h.pos = p /\ h.last = l
    BY <2>1, ChunkMade
  <2> HIDE DEF h
  <2>4. /\ buffer' \in [Buffers -> Chunks] /\ buffer'[headerIn] = h
        /\ \A d \in Buffers \ {headerIn} : buffer'[d] = buffer[d]
    BY <2>1, <2>2, <2>3 DEF BuffersOK
  <2>5. \A d \in Buffers : ChunkOK(buffer'[d], d)
    BY <2>1, <2>3, <2>4 DEF BuffersOK
  <2> QED BY <2>3, <2>4, <2>5 DEF m, l
<1>8. ReaderTypes'
  BY <1>1, <1>2, <1>5 DEF ReaderTypes, Buffers, wire
<1>9. BuffersOK'
  BY <1>2, <1>7 DEF BuffersOK, ChunkOK, Size, Buffers
<1>10. ListsOK'
  <2>1. \A d \in (1..rconf.num) \ ToSet(busyBufs) : buffer'[d].pos = 1 /\ buffer'[d].last = 1
    <3>1. SUFFICES ASSUME NEW d \in (1..rconf.num) \ ToSet(busyBufs) PROVE d \in Buffers \ {headerIn}
      BY <1>1, <1>7 DEF ListsOK
    <3>2. d # Small /\ d \in Buffers
      BY <1>1, BufferSizes
    <3>3. busyBufs # <<>> => busyBufs[Len(busyBufs)] \in ToSet(busyBufs)
      BY <1>1, EmptySeq, InDomain DEF ReaderTypes
    <3> QED BY <1>1, <3>2, <3>3 DEF ListsOK
  <2> QED BY <1>1, <1>2, <2>1 DEF ListsOK
<1>11. StreamOK'
  <2>1. In' = buffer'[headerIn] /\ In'.mem = c.mem /\ In'.pos = p /\ In'.last = c.last
    BY <1>2, <1>7 DEF In
  <2>2. \A i \in p..(c.last - 1) : c.mem[i] = (taken + Preread) + i - p + 1
    <3> SUFFICES ASSUME NEW i \in p..(c.last - 1) PROVE c.mem[i] = (taken + Preread) + i - p + 1
      OBVIOUS
    <3>1. i \in c.pos..(c.last - 1) /\ i \in Int /\ p = c.pos + Preread /\ c.pos \in Nat /\ c.last \in Nat
      BY <1>3, <1>5 DEF p, In
    <3>2. c.mem[i] = taken + i - c.pos + 1
      BY <1>1, <1>2, <3>1 DEF StreamOK, LineFrom
    <3> QED BY <1>2, <1>5, <3>1, <3>2
  <2>3. received' = taken' + c.last - p
    BY <1>2, <1>3, <1>5 DEF p, In
  <2> HIDE DEF c
  <2> QED BY <1>2, <1>5, <2>1, <2>2, <2>3 DEF StreamOK, LineFrom
<1>12. PlaceOK'
  <2>1. Before' = Before /\ BodyAt' = BodyAt /\ Current' = Current
    BY <1>2 DEF Before, BytesBefore, BodyAt, Current, wire
  <2>2. serving' \in DOMAIN rconf'.requests /\ serving' <= Len(rconf'.requests) + 1
    BY <1>1, <1>2 DEF PlaceOK
  <2>3. CASE Preread = ContentLength /\ doing' \in {"body", "done"}
    BY <1>2, <1>4, <2>1, <2>2, <2>3 DEF PlaceOK, Parsing
  <2>4. CASE Preread < ContentLength /\ doing' \in {"discard", "reading"} /\ rb'.rest = ContentLength - Preread
    <3>1. rb'.rest \in 0..Current.body /\ taken' = BodyAt + Current.body - rb'.rest
      BY <1>2, <1>4, <1>5, <2>4
    <3> QED BY <2>1, <2>2, <2>4, <3>1 DEF PlaceOK, Parsing
  <2> QED BY <2>3, <2>4
<1>13. LinesOK'
  <2>1. SUFFICES ASSUME NEW l \in lines
                 PROVE  /\ l.from + l.len <= buffer'[l.buf].pos
                        /\ buffer'[l.buf].mem = buffer[l.buf].mem
    BY <1>1, <1>2 DEF LinesOK, Doings
  <2>2. l.buf \in Buffers /\ l.from + l.len <= buffer[l.buf].pos /\ l.from + l.len \in Nat
    <3>1. l \in Lines /\ l.buf \in {Small} \cup ToSet(busyBufs) /\ l.from + l.len <= buffer[l.buf].pos
      BY <1>1 DEF LinesOK
    <3>2. ToSet(busyBufs) \in SUBSET (1..rconf.num)
      BY <1>1, InDomain DEF ReaderTypes
    <3> QED BY <1>1, <3>1, <3>2, BufferSizes DEF Lines
  <2>3. CASE l.buf = headerIn
    <3>1. c.pos <= p /\ c.pos \in Nat /\ p \in Nat
      BY <1>3, <1>5 DEF p, In
    <3> QED BY <1>7, <2>2, <2>3, <3>1 DEF In
  <2>4. CASE l.buf # headerIn
    BY <1>7, <2>2, <2>4
  <2> QED BY <2>3, <2>4
<1> QED BY <1>8, <1>9, <1>10, <1>11, <1>12, <1>13 DEF HeadersInv

\* A byte that a large buffer holds is not in header_in, nor is a place of a line behind what is parsed.
LEMMA LinePlaces ==
  ASSUME HeadersInv, NEW l \in lines
  PROVE  /\ l.buf \in Buffers /\ l.from \in Nat \ {0} /\ l.len \in Nat /\ l.first \in Nat
         /\ l.from + l.len <= buffer[l.buf].pos /\ buffer[l.buf].pos \in Nat
         /\ buffer[l.buf].pos <= Size(l.buf) + 1
         /\ \A i \in 1..l.len : l.from + i - 1 \in 1..Size(l.buf) /\ l.from + i - 1 < buffer[l.buf].pos
<1>1. ReaderTypes /\ BuffersOK /\ LinesOK
  BY DEF HeadersInv
<1>2. l \in Lines /\ l.buf \in {Small} \cup ToSet(busyBufs) /\ l.from + l.len <= buffer[l.buf].pos
  BY <1>1 DEF LinesOK
<1>3. ToSet(busyBufs) \in SUBSET (1..rconf.num)
  BY <1>1, InDomain DEF ReaderTypes
<1>4. l.buf \in Buffers /\ l.from \in Nat \ {0} /\ l.len \in Nat /\ l.first \in Nat
  BY <1>1, <1>2, <1>3, BufferSizes DEF Lines
<1>5. /\ buffer[l.buf].pos \in Nat \ {0} /\ buffer[l.buf].last \in Nat \ {0} /\ Size(l.buf) \in Nat
      /\ buffer[l.buf].pos <= buffer[l.buf].last /\ buffer[l.buf].last <= Size(l.buf) + 1
  BY <1>1, <1>4, ChunkKnown, BufferSizes
<1> DEFINE p == buffer[l.buf].pos n == Size(l.buf)
<1>6. p \in Nat /\ n \in Nat /\ p <= n + 1 /\ l.from + l.len <= p
  BY <1>2, <1>5
<1> HIDE DEF p, n
<1>7. ASSUME NEW i \in 1..l.len PROVE l.from + i - 1 \in 1..n /\ l.from + i - 1 < p
  BY <1>4, <1>6
<1> QED BY <1>4, <1>6, <1>7 DEF p, n

\* Of large buffers only header_in and older ones are in use.
LEMMA OthersEmpty ==
  ASSUME ReaderTypes, ListsOK, NEW d \in (1..rconf.num) \ ToSet(busyBufs)
  PROVE  d \in Buffers \ {headerIn}
<1>1. d # Small /\ d \in Buffers
  BY BufferSizes
<1>2. busyBufs # <<>> => busyBufs[Len(busyBufs)] \in ToSet(busyBufs)
  BY EmptySeq, InDomain DEF ReaderTypes
<1> QED BY <1>1, <1>2 DEF ListsOK

\* Bytes of a body come, and go where the body is kept.
LEMMA HeadPassed ==
  ASSUME HeadersInv, doing \in {"discard", "reading"}, NEW n \in Nat, n <= rb.rest, received + n <= Len(wire),
         received' = received + n, taken' = taken + n, UNCHANGED <<rconf, serving, heads>>,
         rb' \in Bodies, rb'.rest = rb.rest - n,
         doing' = doing \/ (doing' = "done" /\ n = rb.rest),
         buffer' \in [Buffers -> Chunks],
         \A d \in Buffers : ChunkOK(buffer'[d], d) /\ buffer'[d].pos = buffer[d].pos /\ buffer'[d].last = buffer[d].last,
         \A l \in lines : \A i \in 1..l.len : buffer'[l.buf].mem[l.from + i - 1] = buffer[l.buf].mem[l.from + i - 1]
  PROVE  HeadersInv'
<1>1. ReaderTypes /\ BuffersOK /\ ListsOK /\ StreamOK /\ PlaceOK /\ LinesOK
  BY DEF HeadersInv
<1>2. /\ UNCHANGED <<headerIn, busyBufs, freeBufs, mid, start, lines>> /\ doing' \in Doings
      /\ headerIn \in Buffers /\ serving \in DOMAIN rconf.requests /\ ~mid /\ taken \in Nat /\ received \in Nat
      /\ In.pos = In.last /\ received = taken + In.last - In.pos
      /\ doing' \in {"discard", "reading", "done"} /\ rb.rest \in 0..Current.body
      /\ taken = BodyAt + Current.body - rb.rest
  BY <1>1 DEF heads, ReaderTypes, PlaceOK, StreamOK, Doings, Parsing
<1>3. ReaderTypes'
  BY SMTT(30), <1>1, <1>2 DEF ReaderTypes, Buffers, wire
<1>4. BuffersOK'
  BY <1>2 DEF BuffersOK, ChunkOK, Size, Buffers
<1>5. ListsOK'
  <2>1. \A d \in (1..rconf.num) \ ToSet(busyBufs) : buffer'[d].pos = 1 /\ buffer'[d].last = 1
    BY <1>1, OthersEmpty DEF ListsOK
  <2> QED BY <1>1, <1>2, <2>1 DEF ListsOK
<1>6. StreamOK'
  <2>1. In'.pos = In.pos /\ In'.last = In.last
    BY <1>2 DEF In
  <2>2. In.pos \in Nat /\ In.last \in Nat
    BY <1>1, <1>2, ChunkKnown DEF In
  <2>3. received' = taken' + In.last - In.pos /\ ~mid'
    BY <1>2, <2>2
  <2>4. \A i \in In.pos..(In.last - 1) : FALSE
    BY <1>2, <2>2
  <2> QED BY <1>2, <2>1, <2>3, <2>4 DEF StreamOK, LineFrom
<1>7. PlaceOK'
  <2>1. Before' = Before /\ BodyAt' = BodyAt /\ Current' = Current
    BY <1>2 DEF Before, BytesBefore, BodyAt, Current, wire
  <2>2. serving' \in DOMAIN rconf'.requests /\ serving' <= Len(rconf'.requests) + 1
    BY <1>1, <1>2 DEF PlaceOK
  <2>3. BodyAt \in Nat /\ Current.body \in Nat
    BY <1>1, <1>2, RequestLies
  <2>4. rb'.rest \in 0..Current.body /\ taken' = BodyAt + Current.body - rb'.rest
    <3> DEFINE x == rb.rest
               y == Current.body
               a == BodyAt
               t == taken
    <3>1. x \in 0..y /\ y \in Nat /\ a \in Nat /\ n <= x /\ t = a + y - x
      BY <1>2, <2>3
    <3>2. rb'.rest = x - n /\ taken' = t + n
      OBVIOUS
    <3> HIDE DEF x, y, a, t
    <3>3. x - n \in 0..y /\ t + n = a + y - (x - n)
      BY <3>1
    <3>4. rb'.rest \in 0..y /\ taken' = a + y - rb'.rest
      BY <3>2, <3>3
    <3> QED BY <3>4 DEF y, a
  <2>5. doing' = "done" => taken' = BodyAt + Current.body
    <3> SUFFICES ASSUME doing' = "done" PROVE taken' = BodyAt + Current.body
      OBVIOUS
    <3>1. n = rb.rest /\ taken' = taken + n
      BY <1>2
    <3>2. taken = BodyAt + Current.body - n
      BY <1>2, <3>1
    <3> HIDE DEF BodyAt
    <3> QED BY <2>3, <3>1, <3>2
  <2> QED BY <1>2, <2>1, <2>2, <2>4, <2>5 DEF PlaceOK, Parsing
<1>8. LinesOK'
  <2>1. SUFFICES ASSUME NEW l \in lines PROVE l.from + l.len <= buffer'[l.buf].pos
    BY <1>1, <1>2 DEF LinesOK
  <2> QED BY LinePlaces
<1> QED BY <1>3, <1>4, <1>5, <1>6, <1>7, <1>8 DEF HeadersInv

\* Bytes that come lie behind the others in the buffer.
LEMMA FilledFields ==
  ASSUME ReaderTypes, BuffersOK, NEW b \in Buffers, NEW n \in Nat, buffer[b].last + n <= Size(b) + 1
  PROVE  /\ Filled(b, n) \in [Buffers -> Chunks] /\ \A d \in Buffers : ChunkOK(Filled(b, n)[d], d)
         /\ Filled(b, n)[b].pos = buffer[b].pos /\ Filled(b, n)[b].last = buffer[b].last + n
         /\ \A i \in 1..Size(b) : Filled(b, n)[b].mem[i] =
              IF i \in buffer[b].last..(buffer[b].last + n - 1) THEN received + i - buffer[b].last + 1 ELSE buffer[b].mem[i]
         /\ \A d \in Buffers \ {b} : Filled(b, n)[d] = buffer[d]
<1> DEFINE o == buffer[b].last p == buffer[b].pos
           m == [i \in 1..Size(b) |-> IF i \in o..(o + n - 1) THEN received + i - o + 1 ELSE buffer[b].mem[i]]
           h == [mem |-> m, pos |-> p, last |-> o + n]
           g == [buffer EXCEPT ![b] = h]
<1>1. /\ buffer[b].mem \in [1..Size(b) -> Nat] /\ p \in Nat \ {0} /\ o \in Nat \ {0} /\ p <= o
      /\ o <= Size(b) + 1
  BY ChunkKnown
<1>2. received \in Nat /\ Size(b) \in Nat
  BY BufferSizes DEF ReaderTypes
<1>3. Filled(b, n) = g
  BY DEF Filled
<1> HIDE DEF o, p
<1>4. \A i \in 1..Size(b) : (IF i \in o..(o + n - 1) THEN received + i - o + 1 ELSE buffer[b].mem[i]) \in Nat
  <2> SUFFICES ASSUME NEW i \in 1..Size(b), i \in o..(o + n - 1) PROVE received + i - o + 1 \in Nat
    BY <1>1
  <2> QED BY <1>1, <1>2
<1>5. m \in [1..Size(b) -> Nat] /\ \A i \in 1..Size(b) : m[i] = IF i \in o..(o + n - 1) THEN received + i - o + 1 ELSE buffer[b].mem[i]
  BY <1>4
<1> HIDE DEF m
<1>6. o + n \in Nat \ {0} /\ p <= o + n /\ o + n <= Size(b) + 1
  BY <1>1, <1>2 DEF o
<1> DEFINE w == o + n
<1> HIDE DEF w
<1>7. w \in Nat \ {0} /\ p <= w /\ w <= Size(b) + 1 /\ h = [mem |-> m, pos |-> p, last |-> w]
  BY <1>6 DEF w
<1> HIDE DEF h
<1>8. h \in Chunks /\ ChunkOK(h, b) /\ h.mem = m /\ h.pos = p /\ h.last = w
  BY <1>1, <1>5, <1>7, ChunkMade
<1>9. g \in [Buffers -> Chunks] /\ g[b] = h /\ \A d \in Buffers \ {b} : g[d] = buffer[d]
  BY <1>8 DEF BuffersOK
<1> HIDE DEF g
<1>10. \A d \in Buffers : ChunkOK(g[d], d)
  BY <1>8, <1>9 DEF BuffersOK
<1> QED BY <1>3, <1>5, <1>8, <1>9, <1>10 DEF w, o, p

\* Bytes come into header_in, all of whose bytes are parsed.
LEMMA HeadFilled ==
  ASSUME HeadersInv, NEW n \in Nat \ {0}, In.last + n <= Size(headerIn) + 1, received + n <= Len(wire), In.pos = In.last,
         buffer' = Filled(headerIn, n), received' = received + n, UNCHANGED <<rconf, serving, taken, heads, rb>>,
         \/ doing \in {"line", "headers"} /\ doing' = doing
         \/ doing = "keepalive" /\ doing' = "init"
  PROVE  HeadersInv'
<1>1. ReaderTypes /\ BuffersOK /\ ListsOK /\ StreamOK /\ PlaceOK /\ LinesOK
  BY DEF HeadersInv
<1>2. /\ UNCHANGED <<headerIn, busyBufs, freeBufs, mid, start, lines>> /\ doing' \in Doings
      /\ headerIn \in Buffers /\ taken \in Nat /\ received \in Nat
      /\ received = taken + In.last - In.pos /\ Len(wire) \in Nat
  BY <1>1, ReaderConstants DEF heads, ReaderTypes, StreamOK, Doings
<1> DEFINE o == In.last p == In.pos
<1>3. /\ p \in Nat \ {0} /\ o \in Nat \ {0} /\ o = p /\ Size(headerIn) \in Nat /\ o + n <= Size(headerIn) + 1
      /\ received = taken /\ buffer[headerIn].mem \in [1..Size(headerIn) -> Nat]
  <2>1. /\ buffer[headerIn].mem \in [1..Size(headerIn) -> Nat] /\ p \in Nat \ {0} /\ o \in Nat \ {0}
        /\ Size(headerIn) \in Nat
    BY <1>1, <1>2, ChunkKnown, BufferSizes DEF In
  <2>2. o = p /\ o + n <= Size(headerIn) + 1 /\ received = taken + o - p
    BY <1>2
  <2> HIDE DEF o, p
  <2> QED BY <1>2, <2>1, <2>2
<1>4. /\ buffer' \in [Buffers -> Chunks] /\ \A d \in Buffers : ChunkOK(buffer'[d], d)
      /\ buffer'[headerIn].pos = p /\ buffer'[headerIn].last = o + n
      /\ \A i \in 1..Size(headerIn) : buffer'[headerIn].mem[i] =
           IF i \in o..(o + n - 1) THEN received + i - o + 1 ELSE In.mem[i]
      /\ \A d \in Buffers \ {headerIn} : buffer'[d] = buffer[d]
  <2>1. buffer[headerIn].last + n <= Size(headerIn) + 1
    BY <1>3 DEF In
  <2>2. /\ Filled(headerIn, n) \in [Buffers -> Chunks] /\ \A d \in Buffers : ChunkOK(Filled(headerIn, n)[d], d)
        /\ Filled(headerIn, n)[headerIn].pos = buffer[headerIn].pos
        /\ Filled(headerIn, n)[headerIn].last = buffer[headerIn].last + n
        /\ \A i \in 1..Size(headerIn) : Filled(headerIn, n)[headerIn].mem[i] =
             IF i \in buffer[headerIn].last..(buffer[headerIn].last + n - 1)
             THEN received + i - buffer[headerIn].last + 1 ELSE buffer[headerIn].mem[i]
        /\ \A d \in Buffers \ {headerIn} : Filled(headerIn, n)[d] = buffer[d]
    BY <1>1, <1>2, <2>1, FilledFields
  <2> QED BY <2>2 DEF In
<1> HIDE DEF o, p
<1>5. ReaderTypes'
  BY <1>1, <1>2 DEF ReaderTypes, Buffers, wire
<1>6. BuffersOK'
  BY <1>2, <1>4 DEF BuffersOK, ChunkOK, Size, Buffers
<1>7. ListsOK'
  <2>1. \A d \in (1..rconf.num) \ ToSet(busyBufs) : buffer'[d].pos = 1 /\ buffer'[d].last = 1
    BY <1>1, <1>4, OthersEmpty DEF ListsOK
  <2>2. doing' = "init" => Len(busyBufs) <= 1
    BY <1>1, EmptySeq DEF ListsOK
  <2> QED BY <1>1, <1>2, <2>1, <2>2 DEF ListsOK
<1>8. StreamOK'
  <2>1. In'.pos = p /\ In'.last = o + n /\ \A i \in 1..Size(headerIn) : In'.mem[i] = buffer'[headerIn].mem[i]
    BY <1>2, <1>4 DEF In
  <2>2. received' = taken' + (o + n) - p
    BY <1>2, <1>3
  <2>3. LineFrom \in Nat \ {0} /\ LineFrom <= p
    <3>1. start \in Nat \ {0} /\ mid \in BOOLEAN /\ (mid => start < p) /\ LineFrom = IF mid THEN start ELSE p
      BY <1>1 DEF LineFrom, StreamOK, ReaderTypes, p
    <3> QED BY <1>3, <3>1
  <2>4. ASSUME NEW i \in LineFrom..(o + n - 1) PROVE In'.mem[i] = taken + i - p + 1
    <3>1. i \in 1..Size(headerIn) /\ i \in Nat
      BY <1>3, <2>3
    <3>2. CASE i \in o..(o + n - 1)
      <4>1. In'.mem[i] = received + i - o + 1
        BY <1>4, <2>1, <3>1, <3>2
      <4> QED BY <1>3, <4>1
    <3>3. CASE i \notin o..(o + n - 1)
      <4>1. i \in LineFrom..(o - 1)
        BY <1>3, <2>3, <3>1, <3>3
      <4>2. In.mem[i] = taken + i - p + 1
        BY <1>1, <4>1 DEF StreamOK, o, p
      <4> QED BY <1>4, <2>1, <3>1, <3>3, <4>2
    <3> QED BY <3>2, <3>3
  <2>5. LineFrom' = LineFrom
    BY <1>2, <2>1 DEF LineFrom, p
  <2>6. mid => doing' \in Parsing \cup {"closed"} /\ start < p
    BY <1>1 DEF StreamOK, Parsing, p
  <2>7. \A i \in LineFrom'..(In'.last - 1) : In'.mem[i] = taken' + i - In'.pos + 1
    <3> SUFFICES ASSUME NEW i \in LineFrom'..(In'.last - 1) PROVE In'.mem[i] = taken' + i - In'.pos + 1
      OBVIOUS
    <3>1. i \in LineFrom..(o + n - 1)
      <4>1. In'.last = o + n /\ o \in Nat
        BY <1>3, <2>1
      <4>2. In'.last - 1 = o + n - 1 /\ o + n - 1 \in Int /\ LineFrom' \in Int
        BY <2>3, <2>5, <4>1
      <4> QED BY <2>5, <4>2
    <3>2. In'.mem[i] = taken + i - p + 1
      BY <2>4, <3>1
    <3> QED BY <1>2, <2>1, <3>2
  <2> QED BY <1>2, <2>1, <2>2, <2>6, <2>7 DEF StreamOK
<1>9. PlaceOK'
  <2>1. Before' = Before /\ BodyAt' = BodyAt /\ Current' = Current
    BY <1>2 DEF Before, BytesBefore, BodyAt, Current, wire
  <2>2. In'.pos = In.pos
    BY <1>2, <1>4 DEF In, p
  <2>3. CASE doing \in {"line", "headers"} /\ doing' = doing
    BY <1>1, <1>2, <2>1, <2>2, <2>3 DEF PlaceOK, Parsing
  <2>4. CASE doing = "keepalive" /\ doing' = "init"
    <3>1. serving <= Len(rconf.requests) + 1 /\ taken = Before /\ serving \in Nat \ {0}
          /\ Len(rconf.requests) \in Nat \ {0} /\ DOMAIN rconf.requests = 1..Len(rconf.requests)
      BY <1>1, <2>4, ReaderConstants DEF PlaceOK, ReaderTypes
    <3>2. Before < Len(wire)
      BY <1>2, <1>3, <3>1
    <3>3. serving <= Len(rconf.requests)
      <4>1. ~(serving <= Len(rconf.requests)) => Before = Len(wire)
        BY DEF Before, BytesBefore
      <4> QED BY <1>2, <3>2, <4>1
    <3> QED BY <1>2, <2>1, <2>4, <3>1, <3>3 DEF PlaceOK, Parsing
  <2> QED BY <2>3, <2>4
<1>10. LinesOK'
  <2>1. SUFFICES ASSUME NEW l \in lines
                 PROVE  /\ l.from + l.len <= buffer'[l.buf].pos
                        /\ \A i \in 1..l.len : buffer'[l.buf].mem[l.from + i - 1] = buffer[l.buf].mem[l.from + i - 1]
    BY <1>1, <1>2 DEF LinesOK, Doings
  <2>2. /\ l.buf \in Buffers /\ l.from + l.len <= buffer[l.buf].pos
        /\ \A i \in 1..l.len : l.from + i - 1 \in 1..Size(l.buf) /\ l.from + i - 1 < buffer[l.buf].pos
    BY LinePlaces
  <2>3. CASE l.buf = headerIn
    <3>1. buffer[l.buf].pos = o
      BY <1>3, <2>3 DEF o, p, In
    <3>2. \A i \in 1..l.len : l.from + i - 1 \in 1..Size(headerIn) /\ l.from + i - 1 \notin o..(o + n - 1)
      BY <1>3, <2>2, <2>3, <3>1
    <3> QED BY <1>3, <1>4, <2>2, <2>3, <3>1, <3>2 DEF In
  <2>4. CASE l.buf # headerIn
    BY <1>4, <2>2, <2>4
  <2> QED BY <2>3, <2>4
<1> QED BY <1>5, <1>6, <1>7, <1>8, <1>9, <1>10 DEF HeadersInv

\* A set of natural numbers has a least one.
LEMMA LeastNatural ==
  ASSUME NEW T \in SUBSET Nat, T # {}
  PROVE  \E x \in T : \A y \in T : x <= y
<1>1. PICK x \in T : \A y \in T : ~(<<y, x>> \in OpToRel(<, Nat))
  BY NatLessThanWellFounded, WFMin
<1>2. ASSUME NEW y \in T PROVE x <= y
  <2>1. ~(y < x)
    BY <1>1 DEF OpToRel
  <2> QED BY <2>1
<1> QED BY <1>2

\* The positions of header_in, and the bytes behind what is parsed.
LEMMA InKnown ==
  ASSUME HeadersInv
  PROVE  /\ headerIn \in Buffers /\ In.pos \in Nat \ {0} /\ In.last \in Nat \ {0} /\ In.pos <= In.last
         /\ In.last <= Size(headerIn) + 1 /\ Size(headerIn) \in Nat \ {0} /\ taken \in Nat /\ received \in Nat
         /\ received = taken + In.last - In.pos /\ Unparsed = In.last - In.pos /\ Unparsed \in Nat
         /\ start \in Nat \ {0} /\ LineFrom \in Nat \ {0} /\ LineFrom <= In.pos
         /\ In.mem \in [1..Size(headerIn) -> Nat]
         /\ \A i \in LineFrom..(In.last - 1) : In.mem[i] = taken + i - In.pos + 1
         /\ In = [mem |-> In.mem, pos |-> In.pos, last |-> In.last]
<1>1. ReaderTypes /\ BuffersOK /\ StreamOK
  BY DEF HeadersInv
<1>2. headerIn \in Buffers /\ taken \in Nat /\ received \in Nat /\ start \in Nat \ {0} /\ mid \in BOOLEAN
  BY <1>1 DEF ReaderTypes
<1>3. /\ In.mem \in [1..Size(headerIn) -> Nat] /\ In.pos \in Nat \ {0} /\ In.last \in Nat \ {0}
      /\ In.pos <= In.last /\ In.last <= Size(headerIn) + 1 /\ Size(headerIn) \in Nat \ {0}
      /\ In = [mem |-> In.mem, pos |-> In.pos, last |-> In.last]
  BY <1>1, <1>2, ChunkKnown, BufferSizes DEF In
<1>4. received = taken + In.last - In.pos /\ (mid => start < In.pos)
      /\ \A i \in LineFrom..(In.last - 1) : In.mem[i] = taken + i - In.pos + 1
  BY <1>1 DEF StreamOK
<1>5. LineFrom \in Nat \ {0} /\ LineFrom <= In.pos
  BY <1>2, <1>3, <1>4 DEF LineFrom
<1>6. Unparsed = In.last - In.pos /\ Unparsed \in Nat
  BY <1>3 DEF Unparsed
<1> QED BY <1>2, <1>3, <1>4, <1>5, <1>6

\* The line begins where it began, or behind the blank lines, which end where a byte is none.
LEMMA LineStarts ==
  ASSUME HeadersInv, NEW e \in In.pos..In.last, Blanks \in SUBSET (In.pos..(e - 1))
  PROVE  LineStart \in Nat \ {0} /\ LineFrom <= LineStart /\ LineStart <= e /\ (~mid => In.pos <= LineStart)
         /\ (mid => LineStart = start)
<1>1. In.pos \in Nat \ {0} /\ In.last \in Nat /\ e \in Nat /\ In.pos <= e /\ LineFrom \in Nat \ {0} /\ LineFrom <= In.pos
      /\ start \in Nat \ {0}
  BY InKnown
<1> DEFINE p == In.pos n == Cardinality(Blanks)
<1>2. p \in Int /\ e - 1 \in Int
  BY <1>1
<1>3. IsFiniteSet(p..(e - 1)) /\ Cardinality(p..(e - 1)) = IF p > e - 1 THEN 0 ELSE (e - 1) - p + 1
  BY <1>2, FS_Interval
<1>4. IsFiniteSet(Blanks) /\ n <= Cardinality(p..(e - 1))
  BY <1>3, FS_Subset
<1>5. n \in Nat
  BY <1>4, FS_CardinalityType
<1>6. n <= e - p
  BY <1>1, <1>3, <1>4, <1>5
<1>7. CASE mid
  BY <1>1, <1>7 DEF LineStart, LineFrom
<1>8. CASE ~mid
  <2>1. LineStart = p + n /\ LineFrom = p
    BY <1>8 DEF LineStart, LineFrom
  <2> HIDE DEF p, n
  <2>2. p \in Nat \ {0} /\ p <= e
    BY <1>1 DEF p
  <2>3. LineStart \in Nat \ {0} /\ LineFrom <= LineStart /\ LineStart <= e /\ p <= LineStart
    BY <1>1, <1>5, <1>6, <2>1, <2>2
  <2> QED BY <1>8, <2>3 DEF p
<1> QED BY <1>7, <1>8

\* Where the header of the request ends, and which bytes of it are in header_in.
LEMMA HeaderEnds ==
  ASSUME HeadersInv, doing \in Parsing
  PROVE  /\ Before \in Nat /\ BodyAt \in Nat /\ Before <= taken /\ taken < BodyAt
         /\ wire[BodyAt] = "eoh" /\ \A b \in (Before + 1)..(BodyAt - 1) : wire[b] # "eoh"
<1>1. ReaderTypes /\ PlaceOK
  BY DEF HeadersInv
<1>2. serving \in DOMAIN rconf.requests /\ Before <= taken /\ taken < BodyAt
  BY <1>1 DEF PlaceOK, Parsing
<1>3. /\ Before \in Nat /\ Current.header \in Nat \ {0} /\ Current.body \in Nat /\ BodyAt \in Nat
      /\ BodyAt = Before + Current.header
      /\ BytesBefore(serving + 1) = BodyAt + Current.body
      /\ \A j \in 1..Current.header : wire[Before + j] = "eoh" <=> j = Current.header
      /\ ContentLength = Current.body
  BY <1>1, <1>2, RequestLies
<1>4. wire[BodyAt] = "eoh"
  BY <1>3
<1>5. ASSUME NEW b \in (Before + 1)..(BodyAt - 1) PROVE wire[b] # "eoh"
  <2>1. b - Before \in 1..Current.header /\ b - Before # Current.header /\ b = Before + (b - Before)
    BY <1>3
  <2> QED BY <1>3, <2>1
<1> QED BY <1>2, <1>3, <1>4, <1>5

\* The parser does not go beyond the end of the header.
LEMMA LineEnds ==
  ASSUME HeadersInv, doing \in Parsing
  PROVE  /\ Ends = {} => taken + Unparsed < BodyAt
         /\ Ends # {} => /\ FirstEnd \in Nat /\ In.pos <= FirstEnd /\ FirstEnd < In.last
                         /\ \A i \in Ends : FirstEnd <= i
                         /\ In.mem[FirstEnd] = taken + FirstEnd + 1 - In.pos
                         /\ IF wire[In.mem[FirstEnd]] = "eoh" THEN taken + FirstEnd + 1 - In.pos = BodyAt
                                                              ELSE taken + FirstEnd + 1 - In.pos < BodyAt
<1>1. /\ In.pos \in Nat \ {0} /\ In.last \in Nat \ {0} /\ In.pos <= In.last /\ taken \in Nat /\ LineFrom \in Nat \ {0}
      /\ LineFrom <= In.pos /\ Unparsed = In.last - In.pos
      /\ \A i \in LineFrom..(In.last - 1) : In.mem[i] = taken + i - In.pos + 1
  BY InKnown
<1>2. /\ Before \in Nat /\ BodyAt \in Nat /\ Before <= taken /\ taken < BodyAt
      /\ wire[BodyAt] = "eoh" /\ \A b \in (Before + 1)..(BodyAt - 1) : wire[b] # "eoh"
  BY HeaderEnds
<1> DEFINE p == In.pos o == In.last k == p + BodyAt - taken - 1
<1>3. \A i \in p..(o - 1) : In.mem[i] = taken + i - p + 1
  BY <1>1
<1>4. BodyAt <= taken + Unparsed => k \in Ends
  <2> SUFFICES ASSUME BodyAt <= taken + Unparsed PROVE k \in Ends
    OBVIOUS
  <2>1. k \in p..(o - 1) /\ taken + k - p + 1 = BodyAt
    BY <1>1, <1>2
  <2>2. In.mem[k] = BodyAt
    BY <1>3, <2>1
  <2> QED BY <1>2, <2>1, <2>2 DEF Ends
<1>5. CASE Ends = {}
  <2>1. ~(BodyAt <= taken + Unparsed)
    BY <1>4, <1>5
  <2> HIDE DEF BodyAt
  <2> QED BY <1>1, <1>2, <1>5, <2>1
<1>6. CASE Ends # {}
  <2>1. Ends \in SUBSET Nat
    BY <1>1 DEF Ends
  <2>2. \E i \in Ends : \A j \in Ends : i <= j
    BY <1>6, <2>1, LeastNatural
  <2>3. FirstEnd \in Ends /\ \A j \in Ends : FirstEnd <= j
    BY <2>2 DEF FirstEnd
  <2> DEFINE e == FirstEnd b == taken + e + 1 - p
  <2> HIDE DEF e
  <2>4. e \in p..(o - 1) /\ In.mem[e] = b /\ e \in Nat
    <3>1. e \in p..(o - 1)
      BY <2>3 DEF Ends, e
    <3>2. e \in Nat
      BY <1>1, <3>1
    <3>3. In.mem[e] = taken + e - p + 1
      BY <1>3, <3>1
    <3> QED BY <1>1, <3>1, <3>2, <3>3
  <2>5. b \in Nat /\ b >= Before + 1 /\ p <= e /\ e < o
    BY <1>1, <1>2, <2>4
  <2>6. b <= BodyAt
    <3> SUFFICES ASSUME ~(b <= BodyAt) PROVE FALSE
      OBVIOUS
    <3>1. BodyAt <= taken + Unparsed /\ k < e /\ k \in Int
      BY <1>1, <1>2, <2>4, <2>5
    <3>2. e <= k
      BY <1>4, <2>3, <3>1 DEF e
    <3> QED BY <2>4, <3>1, <3>2
  <2>7. wire[In.mem[e]] = "eoh" => b = BodyAt
    <3> SUFFICES ASSUME wire[b] = "eoh" PROVE b = BodyAt
      BY <2>4
    <3>1. ~(b \in (Before + 1)..(BodyAt - 1))
      BY <1>2
    <3> QED BY <1>2, <2>5, <2>6, <3>1
  <2>8. wire[In.mem[e]] # "eoh" => b < BodyAt
    <3>1. wire[In.mem[e]] # "eoh" => b # BodyAt
      BY <1>2, <2>4
    <3> QED BY <1>2, <2>5, <2>6, <3>1
  <2> HIDE DEF b
  <2> QED BY <1>6, <2>3, <2>4, <2>5, <2>7, <2>8 DEF e, b
<1> QED BY <1>5, <1>6

\* The parser goes to another place of header_in.
PosAt(q) == [buffer EXCEPT ![headerIn].pos = q]

\* Only the place of the parser changes.
LEMMA PosMoved ==
  ASSUME HeadersInv, NEW q \in Nat \ {0}, q <= In.last, buffer' = PosAt(q), UNCHANGED <<rconf, headerIn>>
  PROVE  /\ BuffersOK' /\ In'.pos = q /\ In'.last = In.last /\ In'.mem = In.mem
         /\ buffer'[headerIn].pos = q /\ buffer'[headerIn].mem = In.mem
         /\ \A d \in Buffers \ {headerIn} : buffer'[d] = buffer[d]
<1>1. /\ headerIn \in Buffers /\ In.last \in Nat \ {0} /\ In.last <= Size(headerIn) + 1
      /\ In.mem \in [1..Size(headerIn) -> Nat] /\ ReaderTypes /\ BuffersOK
      /\ In = [mem |-> In.mem, pos |-> In.pos, last |-> In.last]
  BY InKnown DEF HeadersInv
<1> DEFINE c == In m == c.mem l == c.last h == [mem |-> m, pos |-> q, last |-> l]
<1>2. buffer' = [buffer EXCEPT ![headerIn] = h]
  <2>1. PosAt(q) = [buffer EXCEPT ![headerIn] = [c EXCEPT !.pos = q]]
    BY DEF PosAt, In
  <2>2. [c EXCEPT !.pos = q] = h
    BY <1>1
  <2> QED BY <2>1, <2>2
<1> HIDE DEF m, l
<1>3. m \in [1..Size(headerIn) -> Nat] /\ l \in Nat \ {0} /\ q <= l /\ l <= Size(headerIn) + 1
  BY <1>1 DEF m, l
<1>4. h \in Chunks /\ ChunkOK(h, headerIn) /\ h.mem = m /\ h.pos = q /\ h.last = l
  BY <1>1, <1>3, ChunkMade
<1> HIDE DEF h
<1>5. /\ buffer' \in [Buffers -> Chunks] /\ buffer'[headerIn] = h
      /\ \A d \in Buffers \ {headerIn} : buffer'[d] = buffer[d]
  BY <1>1, <1>2, <1>4 DEF BuffersOK
<1>6. \A d \in Buffers : ChunkOK(buffer'[d], d)
  BY <1>1, <1>4, <1>5 DEF BuffersOK
<1>7. BuffersOK'
  BY <1>5, <1>6 DEF BuffersOK, ChunkOK, Size, Buffers
<1>8. In' = h
  BY <1>5 DEF In
<1> QED BY <1>4, <1>5, <1>7, <1>8 DEF m, l

\* A line goes on in the next buffer, or in the next bytes of this one.
LEMMA PartParsed ==
  ASSUME HeadersInv, doing \in {"line", "headers"}, Ends = {}, buffer' = PosAt(In.last),
         mid' = (LineStart < In.last), start' = LineStart, taken' = taken + Unparsed,
         UNCHANGED <<rconf, doing, serving, received, headerIn, busyBufs, freeBufs, lines, rb>>
  PROVE  HeadersInv'
<1>1. ReaderTypes /\ BuffersOK /\ ListsOK /\ StreamOK /\ PlaceOK /\ LinesOK
  BY DEF HeadersInv
<1> DEFINE p == In.pos o == In.last s == LineStart
<1>2. /\ headerIn \in Buffers /\ p \in Nat \ {0} /\ o \in Nat \ {0} /\ p <= o /\ taken \in Nat /\ received \in Nat
      /\ received = taken + o - p /\ Unparsed = o - p /\ Unparsed \in Nat /\ LineFrom \in Nat \ {0} /\ LineFrom <= p
      /\ \A i \in LineFrom..(o - 1) : In.mem[i] = taken + i - p + 1
  BY InKnown
<1>3. s \in Nat \ {0} /\ LineFrom <= s /\ s <= o /\ (~mid => p <= s) /\ (mid => s = start)
  <2>1. o \in p..o /\ Blanks \in SUBSET (p..(o - 1))
    BY <1>2 DEF Blanks
  <2> QED BY <2>1, LineStarts
<1>4. /\ Before \in Nat /\ BodyAt \in Nat /\ Before <= taken /\ taken + Unparsed < BodyAt
  BY HeaderEnds, LineEnds DEF Parsing
<1>5. /\ BuffersOK' /\ In'.pos = o /\ In'.last = o /\ In'.mem = In.mem
      /\ buffer'[headerIn].pos = o /\ buffer'[headerIn].mem = In.mem
      /\ \A d \in Buffers \ {headerIn} : buffer'[d] = buffer[d]
  <2>1. o \in Nat \ {0} /\ o <= In.last /\ buffer' = PosAt(o)
    BY <1>2
  <2>2. /\ BuffersOK' /\ In'.pos = o /\ In'.last = In.last /\ In'.mem = In.mem
        /\ buffer'[headerIn].pos = o /\ buffer'[headerIn].mem = In.mem
        /\ \A d \in Buffers \ {headerIn} : buffer'[d] = buffer[d]
    <3> HIDE DEF o
    <3> QED BY <2>1, PosMoved
  <2> QED BY <2>2
<1> HIDE DEF p, o, s
<1>6. ReaderTypes'
  <2>1. taken' \in Nat /\ mid' \in BOOLEAN /\ start' \in Nat \ {0}
    BY <1>2, <1>3 DEF s
  <2> QED BY <1>1, <2>1 DEF ReaderTypes, Buffers, wire
<1>7. ListsOK'
  <2>1. \A d \in (1..rconf.num) \ ToSet(busyBufs) : buffer'[d].pos = 1 /\ buffer'[d].last = 1
    BY <1>1, <1>5, OthersEmpty DEF ListsOK
  <2> QED BY <1>1, <2>1 DEF ListsOK
<1>8. StreamOK'
  <2>1. received' = taken' + In'.last - In'.pos
    BY <1>2, <1>5
  <2>2. mid' => start' < In'.pos
    BY <1>5 DEF s, o
  <2>3. ASSUME NEW i \in LineFrom'..(In'.last - 1) PROVE In'.mem[i] = taken' + i - In'.pos + 1
    <3>1. LineFrom' = IF mid' THEN s ELSE o
      BY <1>5 DEF LineFrom, s
    <3>2. i \in LineFrom..(o - 1) /\ i \in Nat
      BY <1>2, <1>3, <1>5, <2>3, <3>1
    <3>3. In.mem[i] = taken + i - p + 1
      BY <1>2, <3>2
    <3> QED BY <1>2, <1>5, <3>2, <3>3
  <2> QED BY <2>1, <2>2, <2>3 DEF StreamOK, Parsing
<1>9. PlaceOK'
  <2>1. Before' = Before /\ BodyAt' = BodyAt /\ Current' = Current
    BY DEF Before, BytesBefore, BodyAt, Current, wire
  <2>2. Before <= taken' /\ taken' < BodyAt
    BY <1>2, <1>4
  <2>3. mid' => In'.pos - start' <= taken' - Before
    <3>1. p - s <= taken - Before
      <4>1. CASE mid
        BY <1>1, <1>3, <4>1 DEF PlaceOK, Parsing, p
      <4>2. CASE ~mid
        BY <1>2, <1>3, <1>4, <4>2
      <4> QED BY <4>1, <4>2
    <3>2. taken' - Before = (taken - Before) + (o - p) /\ In'.pos - start' = (p - s) + (o - p)
      BY <1>2, <1>3, <1>4, <1>5 DEF s
    <3> QED BY <1>2, <1>3, <1>4, <3>1, <3>2
  <2>4. Len(busyBufs) >= 2 => In'.pos - 1 <= taken' - Before
    <3> SUFFICES ASSUME Len(busyBufs) >= 2 PROVE In'.pos - 1 <= taken' - Before
      OBVIOUS
    <3>1. p - 1 <= taken - Before
      BY <1>1 DEF PlaceOK, Parsing, p
    <3>2. o - 1 <= (taken + (o - p)) - Before
      <4>1. p \in Int /\ o \in Int /\ taken \in Int /\ Before \in Int
        BY <1>2, <1>4
      <4> QED BY <3>1, <4>1
    <3> QED BY <1>2, <1>4, <1>5, <3>2
  <2> QED BY <1>1, <2>1, <2>2, <2>3, <2>4 DEF PlaceOK, Parsing
<1>10. LinesOK'
  <2>1. SUFFICES ASSUME NEW l \in lines
                 PROVE  /\ l.from + l.len <= buffer'[l.buf].pos
                        /\ buffer'[l.buf].mem = buffer[l.buf].mem
    BY <1>1 DEF LinesOK
  <2>2. l.buf \in Buffers /\ l.from + l.len <= buffer[l.buf].pos /\ l.from + l.len \in Nat
    BY LinePlaces
  <2>3. CASE l.buf = headerIn
    BY <1>2, <1>5, <2>2, <2>3 DEF In, p
  <2>4. CASE l.buf # headerIn
    BY <1>5, <2>2, <2>4
  <2> QED BY <2>3, <2>4
<1> QED BY <1>5, <1>6, <1>7, <1>8, <1>9, <1>10 DEF HeadersInv

\* A line ends.
LEMMA LineParsed ==
  ASSUME HeadersInv, doing \in {"line", "headers"}, Ends # {}, buffer' = PosAt(FirstEnd + 1),
         mid' = FALSE, start' = FirstEnd + 1, taken' = taken + FirstEnd + 1 - In.pos,
         lines' = lines \cup {[buf |-> headerIn, from |-> LineStart, len |-> FirstEnd + 1 - LineStart,
                               first |-> taken' - (FirstEnd - LineStart)]},
         doing' = IF wire[In.mem[FirstEnd]] = "eoh" THEN "handler" ELSE "headers",
         UNCHANGED <<rconf, serving, received, headerIn, busyBufs, freeBufs, rb>>
  PROVE  HeadersInv'
<1>1. ReaderTypes /\ BuffersOK /\ ListsOK /\ StreamOK /\ PlaceOK /\ LinesOK
  BY DEF HeadersInv
<1> DEFINE p == In.pos o == In.last s == LineStart e == FirstEnd
<1>2. /\ headerIn \in Buffers /\ p \in Nat \ {0} /\ o \in Nat \ {0} /\ p <= o /\ taken \in Nat /\ received \in Nat
      /\ received = taken + o - p /\ LineFrom \in Nat \ {0} /\ LineFrom <= p
      /\ \A i \in LineFrom..(o - 1) : In.mem[i] = taken + i - p + 1
  BY InKnown
<1>3. /\ e \in Nat /\ p <= e /\ e < o /\ \A i \in Ends : e <= i
      /\ In.mem[e] = taken + e + 1 - p
      /\ IF wire[In.mem[e]] = "eoh" THEN taken + e + 1 - p = BodyAt ELSE taken + e + 1 - p < BodyAt
      /\ Before \in Nat /\ BodyAt \in Nat /\ Before <= taken
  BY LineEnds, HeaderEnds DEF Parsing
<1>4. s \in Nat \ {0} /\ LineFrom <= s /\ s <= e /\ (~mid => p <= s) /\ (mid => s = start)
  <2>1. e \in p..o
    BY <1>2, <1>3
  <2>2. ASSUME NEW i \in Blanks PROVE i \in p..(e - 1)
    <3>1. i \in p..(o - 1) /\ \A j \in p..i : wire[In.mem[j]] = "blank"
      BY <2>2 DEF Blanks
    <3>2. e \in p..i => wire[In.mem[e]] = "blank"
      BY <3>1
    <3>3. FirstEnd \in Ends
      <4>1. Ends \in SUBSET Nat
        BY <1>2 DEF Ends
      <4>2. \E x \in Ends : \A y \in Ends : x <= y
        BY <4>1, LeastNatural
      <4> QED BY <4>2 DEF FirstEnd
    <3>4. wire[In.mem[e]] \in {"eol", "eoh"}
      BY <3>3 DEF Ends
    <3>5. ~(e <= i)
      BY <1>2, <1>3, <3>1, <3>2, <3>4
    <3> QED BY <1>2, <1>3, <3>1, <3>5
  <2> QED BY <2>1, <2>2, LineStarts
<1>5. /\ BuffersOK' /\ In'.pos = e + 1 /\ In'.last = o /\ In'.mem = In.mem
      /\ buffer'[headerIn].pos = e + 1 /\ buffer'[headerIn].mem = In.mem
      /\ \A d \in Buffers \ {headerIn} : buffer'[d] = buffer[d]
  <2> DEFINE q == e + 1
  <2>1. q \in Nat \ {0} /\ q <= In.last /\ buffer' = PosAt(q)
    BY <1>2, <1>3
  <2> HIDE DEF q
  <2>2. /\ BuffersOK' /\ In'.pos = q /\ In'.last = In.last /\ In'.mem = In.mem
        /\ buffer'[headerIn].pos = q /\ buffer'[headerIn].mem = In.mem
        /\ \A d \in Buffers \ {headerIn} : buffer'[d] = buffer[d]
    BY <2>1, PosMoved
  <2> QED BY <2>2 DEF q
<1> HIDE DEF p, o
<1>6. start' = e + 1 /\ taken' = taken + e + 1 - p /\ taken' \in Nat /\ Before <= taken' /\ taken <= taken'
  BY <1>2, <1>3 DEF p
<1>7. p - s <= taken - Before
  <2>1. CASE mid
    BY <1>1, <1>4, <2>1 DEF PlaceOK, Parsing, p
  <2>2. CASE ~mid
    BY <1>2, <1>3, <1>4, <2>2
  <2> QED BY <2>1, <2>2
<1> DEFINE n == e + 1 - s f == taken' - (e - s) new == [buf |-> headerIn, from |-> s, len |-> n, first |-> f]
<1>8. lines' = lines \cup {new}
  OBVIOUS
<1> HIDE DEF s, e
<1>9. n \in Nat /\ f \in Nat /\ s + n = e + 1
  BY <1>2, <1>3, <1>4, <1>6, <1>7
<1>10. \A i \in 1..n : In.mem[s + i - 1] = f + i - 1
  <2> SUFFICES ASSUME NEW i \in 1..n PROVE In.mem[s + i - 1] = f + i - 1
    OBVIOUS
  <2>1. s + i - 1 \in LineFrom..(o - 1) /\ i \in Nat
    BY <1>2, <1>3, <1>4, <1>9
  <2>2. In.mem[s + i - 1] = taken + (s + i - 1) - p + 1
    BY <1>2, <2>1
  <2> QED BY <1>2, <1>3, <1>4, <1>6, <2>1, <2>2
<1> HIDE DEF n, f
<1>11. new.buf = headerIn /\ new.from = s /\ new.len = n /\ new.first = f
  OBVIOUS
<1>12. new \in Lines
  BY <1>1, <1>2, <1>4, <1>9, BufferSizes DEF Lines
<1> HIDE DEF new
<1>13. ReaderTypes'
  <2>1. doing' \in Doings /\ start' \in Nat \ {0} /\ mid' \in BOOLEAN
    <3>1. doing' \in Doings /\ mid' \in BOOLEAN
      BY DEF Doings
    <3>2. e + 1 \in Nat \ {0}
      BY <1>3
    <3> QED BY <1>6, <3>1, <3>2
  <2> QED BY <1>1, <1>6, <2>1 DEF ReaderTypes, Buffers, wire
<1>14. ListsOK'
  <2>1. \A d \in (1..rconf.num) \ ToSet(busyBufs) : buffer'[d].pos = 1 /\ buffer'[d].last = 1
    BY <1>1, <1>5, OthersEmpty DEF ListsOK
  <2> QED BY <1>1, <2>1 DEF ListsOK
<1>15. StreamOK'
  <2>1. received' = taken' + In'.last - In'.pos
    BY <1>2, <1>3, <1>5, <1>6
  <2>2. ASSUME NEW i \in LineFrom'..(In'.last - 1) PROVE In'.mem[i] = taken' + i - In'.pos + 1
    <3>1. LineFrom' = e + 1
      BY <1>5 DEF LineFrom
    <3>2. i \in LineFrom..(o - 1) /\ i \in Nat
      BY <1>2, <1>3, <1>5, <2>2, <3>1
    <3>3. In.mem[i] = taken + i - p + 1
      BY <1>2, <3>2
    <3> QED BY <1>2, <1>3, <1>5, <1>6, <3>2, <3>3
  <2> QED BY <2>1, <2>2 DEF StreamOK
<1>16. PlaceOK'
  <2>1. Before' = Before /\ BodyAt' = BodyAt /\ Current' = Current
    BY DEF Before, BytesBefore, BodyAt, Current, wire
  <2>2. (doing' = "handler" /\ taken' = BodyAt) \/ (doing' = "headers" /\ taken' < BodyAt)
    <3> USE DEF e
    <3>1. taken' = taken + e + 1 - p
      BY <1>6
    <3>2. CASE wire[In.mem[e]] = "eoh"
      BY <1>3, <3>1, <3>2
    <3>3. CASE wire[In.mem[e]] # "eoh"
      BY <1>3, <3>1, <3>3
    <3> QED BY <3>2, <3>3
  <2>3. Len(busyBufs) >= 2 => In'.pos - 1 <= taken' - Before
    <3> SUFFICES ASSUME Len(busyBufs) >= 2 PROVE In'.pos - 1 <= taken' - Before
      OBVIOUS
    <3>1. p - 1 <= taken - Before
      BY <1>1 DEF PlaceOK, Parsing, p
    <3>2. e <= taken' - Before
      BY <1>2, <1>3, <1>6, <3>1
    <3>3. In'.pos - 1 = e
      BY <1>3, <1>5
    <3> QED BY <3>2, <3>3
  <2>4. serving \in DOMAIN rconf.requests /\ serving <= Len(rconf.requests) + 1
    BY <1>1 DEF PlaceOK
  <2> QED BY <1>6, <2>1, <2>2, <2>3, <2>4 DEF PlaceOK, Parsing
<1>17. LinesOK'
  <2>1. ASSUME NEW l \in lines
        PROVE  /\ l.from + l.len <= buffer'[l.buf].pos
               /\ buffer'[l.buf].mem = buffer[l.buf].mem
    <3>1. l.buf \in Buffers /\ l.from + l.len <= buffer[l.buf].pos /\ l.from + l.len \in Nat
      BY LinePlaces
    <3>2. CASE l.buf = headerIn
      BY <1>2, <1>3, <1>5, <3>1, <3>2 DEF In, p
    <3>3. CASE l.buf # headerIn
      BY <1>5, <3>1, <3>3
    <3> QED BY <3>2, <3>3
  <2>2. /\ new.buf \in {Small} \cup ToSet(busyBufs) /\ new.from + new.len <= buffer'[new.buf].pos
        /\ \A i \in 1..new.len : buffer'[new.buf].mem[new.from + i - 1] = new.first + i - 1
    <3>1. headerIn \in {Small} \cup ToSet(busyBufs)
      <4>1. busyBufs # <<>> => busyBufs[Len(busyBufs)] \in ToSet(busyBufs)
        BY <1>1, EmptySeq, InDomain DEF ReaderTypes
      <4> QED BY <1>1, <4>1 DEF ListsOK
    <3>2. new.from + new.len <= buffer'[new.buf].pos
      BY <1>3, <1>5, <1>9, <1>11
    <3> QED BY <1>5, <1>10, <1>11, <3>1, <3>2
  <2>3. doing' \notin {"init", "line", "keepalive"}
    OBVIOUS
  <2> HIDE DEF new
  <2>4. \A l \in lines' : /\ l.buf \in {Small} \cup ToSet(busyBufs)
                          /\ l.from + l.len <= buffer'[l.buf].pos
                          /\ \A i \in 1..l.len : buffer'[l.buf].mem[l.from + i - 1] = l.first + i - 1
    BY <1>1, <1>8, <2>1, <2>2 DEF LinesOK
  <2> QED BY <1>1, <1>8, <1>12, <2>3, <2>4 DEF LinesOK
<1> QED BY <1>5, <1>13, <1>14, <1>15, <1>16, <1>17 DEF HeadersInv

\* The buffer that the header goes on in is in use by nothing else.
LEMMA LargeFresh ==
  ASSUME ReaderTypes, ListsOK, TakesFree \/ MayCreate,
         NEW f, f = IF TakesFree THEN Front(freeBufs) ELSE freeBufs
  PROVE  /\ Large \in 1..rconf.num /\ Large \notin ToSet(busyBufs)
         /\ f \in Seq(1..rconf.num) /\ IsInjective(f) /\ ToSet(f) \in SUBSET (ToSet(freeBufs) \ {Large})
<1>1. /\ busyBufs \in Seq(1..rconf.num) /\ freeBufs \in Seq(1..rconf.num) /\ rconf.num \in Nat
      /\ IsInjective(busyBufs) /\ IsInjective(freeBufs) /\ ToSet(busyBufs) \cap ToSet(freeBufs) = {}
  BY ReaderConstants DEF ReaderTypes, ListsOK
<1>2. CASE TakesFree
  <2>1. freeBufs # <<>> /\ Large = Last(freeBufs) /\ f = Front(freeBufs)
    BY <1>2 DEF TakesFree, Large
  <2>2. /\ Front(freeBufs) \in Seq(1..rconf.num) /\ IsInjective(Front(freeBufs)) /\ Len(Front(freeBufs)) = Len(freeBufs) - 1
        /\ Last(freeBufs) = freeBufs[Len(freeBufs)] /\ Last(freeBufs) \in ToSet(freeBufs)
        /\ ToSet(Front(freeBufs)) = ToSet(freeBufs) \ {Last(freeBufs)}
    BY <1>1, <2>1, ListFront
  <2>3. ToSet(freeBufs) \in SUBSET (1..rconf.num)
    BY <1>1, InDomain
  <2> QED BY <1>1, <2>1, <2>2, <2>3
<1>3. CASE ~TakesFree
  <2>1. Len(busyBufs) < rconf.num /\ freeBufs = <<>> /\ f = freeBufs
    BY <1>3 DEF TakesFree, MayCreate
  <2>2. IsFiniteSet(ToSet(busyBufs)) /\ Len(busyBufs) = Cardinality(ToSet(busyBufs)) /\ ToSet(busyBufs) \in SUBSET (1..rconf.num)
    BY <1>1, ListLength, InDomain
  <2>3. Cardinality(1..rconf.num) = rconf.num
    <3> DEFINE n == rconf.num a == 1
    <3>1. a \in Int /\ n \in Int /\ n >= 0
      BY <1>1
    <3> HIDE DEF a, n
    <3>2. Cardinality(a..n) = IF a > n THEN 0 ELSE n - a + 1
      BY <3>1, FS_Interval
    <3> QED BY <3>1, <3>2 DEF a, n
  <2>4. ToSet(busyBufs) # 1..rconf.num
    <3>1. Len(busyBufs) \in Nat
      BY <1>1, LenProperties
    <3> QED BY <1>1, <2>1, <2>2, <2>3, <3>1
  <2>5. \E b \in 1..rconf.num : b \notin ToSet(busyBufs)
    BY <2>2, <2>4
  <2>6. Large \in 1..rconf.num /\ Large \notin ToSet(busyBufs)
    BY <1>3, <2>5 DEF Large
  <2>7. ToSet(freeBufs) = {}
    BY <2>1 DEF ToSet
  <2> QED BY <1>1, <2>1, <2>6, <2>7
<1> QED BY <1>2, <1>3

\* Nothing but blank lines was in the buffer.
LEMMA BlanksDropped ==
  ASSUME HeadersInv, doing = "line", ~mid, Unparsed = 0,
         buffer' = [buffer EXCEPT ![headerIn] = [mem |-> In.mem, pos |-> 1, last |-> 1]],
         UNCHANGED <<rconf, doing, serving, received, taken, heads, rb>>
  PROVE  HeadersInv'
<1>1. ReaderTypes /\ BuffersOK /\ ListsOK /\ StreamOK /\ PlaceOK /\ LinesOK
  BY DEF HeadersInv
<1>2. UNCHANGED <<headerIn, busyBufs, freeBufs, mid, start, lines>>
  BY DEF heads
<1>3. /\ headerIn \in Buffers /\ In.pos \in Nat \ {0} /\ In.last \in Nat \ {0}
      /\ Size(headerIn) \in Nat \ {0} /\ taken \in Nat /\ received = taken
      /\ In.mem \in [1..Size(headerIn) -> Nat]
  BY InKnown
<1> DEFINE m == In.mem h == [mem |-> m, pos |-> 1, last |-> 1]
<1>4. buffer' = [buffer EXCEPT ![headerIn] = h]
  OBVIOUS
<1> HIDE DEF m
<1>5. m \in [1..Size(headerIn) -> Nat]
  BY <1>3 DEF m
<1>6. h \in Chunks /\ ChunkOK(h, headerIn) /\ h.mem = m /\ h.pos = 1 /\ h.last = 1
  <2> DEFINE n == 1
  <2>1. n \in Nat \ {0} /\ n <= n /\ n <= Size(headerIn) + 1
    BY <1>3
  <2>2. h = [mem |-> m, pos |-> n, last |-> n]
    OBVIOUS
  <2> HIDE DEF n, h
  <2>3. h \in Chunks /\ ChunkOK(h, headerIn) /\ h.mem = m /\ h.pos = n /\ h.last = n
    BY <1>1, <1>3, <1>5, <2>1, <2>2, ChunkMade
  <2> QED BY <2>3 DEF n
<1> HIDE DEF h
<1>7. /\ buffer' \in [Buffers -> Chunks] /\ buffer'[headerIn] = h
      /\ \A d \in Buffers \ {headerIn} : buffer'[d] = buffer[d]
  BY <1>1, <1>3, <1>4, <1>6 DEF BuffersOK
<1>8. \A d \in Buffers : ChunkOK(buffer'[d], d)
  BY <1>1, <1>6, <1>7 DEF BuffersOK
<1>9. BuffersOK'
  BY <1>2, <1>7, <1>8 DEF BuffersOK, ChunkOK, Size, Buffers
<1>10. In'.pos = 1 /\ In'.last = 1
  BY <1>2, <1>6, <1>7 DEF In
<1>11. ReaderTypes'
  BY <1>1, <1>2 DEF ReaderTypes, Buffers, wire
<1>12. ListsOK'
  <2>1. \A d \in (1..rconf.num) \ ToSet(busyBufs) : buffer'[d].pos = 1 /\ buffer'[d].last = 1
    BY <1>1, <1>7, OthersEmpty DEF ListsOK
  <2> QED BY <1>1, <1>2, <2>1 DEF ListsOK
<1>13. StreamOK'
  <2>1. received' = taken' + In'.last - In'.pos
    BY <1>3, <1>10
  <2>2. LineFrom' = 1
    BY <1>2, <1>10 DEF LineFrom
  <2>3. \A i \in LineFrom'..(In'.last - 1) : FALSE
    BY <1>10, <2>2
  <2> QED BY <1>2, <2>1, <2>3 DEF StreamOK
<1>14. PlaceOK'
  <2>1. Before' = Before /\ BodyAt' = BodyAt /\ Current' = Current
    BY DEF Before, BytesBefore, BodyAt, Current, wire
  <2>2. Before \in Nat /\ Before <= taken
    BY HeaderEnds DEF Parsing
  <2>3. In'.pos - 1 <= taken' - Before
    BY <1>3, <1>10, <2>2
  <2> QED BY <1>1, <1>2, <2>1, <2>3 DEF PlaceOK, Parsing
<1>15. LinesOK'
  BY <1>1, <1>2 DEF LinesOK
<1> QED BY <1>9, <1>11, <1>12, <1>13, <1>14, <1>15 DEF HeadersInv

\* How much of a line there is in header_in.
PartOf == IF mid THEN Incomplete ELSE 0

\* The line that did not end goes to the beginning of another buffer.
LEMMA MovedFields ==
  ASSUME HeadersInv, ~TooLong, NEW b \in 1..rconf.num, b # headerIn, buffer[b].pos = 1, buffer[b].last = 1
  PROVE  /\ MovedTo(b) \in [Buffers -> Chunks] /\ \A d \in Buffers : ChunkOK(MovedTo(b)[d], d)
         /\ MovedTo(b)[b].pos = PartOf + 1 /\ MovedTo(b)[b].last = PartOf + 1
         /\ \A i \in 1..PartOf : MovedTo(b)[b].mem[i] = In.mem[start + i - 1]
         /\ \A d \in Buffers \ {b} : MovedTo(b)[d] = buffer[d]
         /\ PartOf \in Nat /\ (mid => PartOf = In.pos - start /\ PartOf > 0) /\ PartOf < rconf.large
<1>1. ReaderTypes /\ BuffersOK /\ StreamOK
  BY DEF HeadersInv
<1>2. /\ In.pos \in Nat \ {0} /\ In.last \in Nat \ {0} /\ In.pos <= In.last /\ In.last <= Size(headerIn) + 1
      /\ Size(headerIn) \in Nat \ {0} /\ start \in Nat \ {0} /\ In.mem \in [1..Size(headerIn) -> Nat]
  BY InKnown
<1>3. b \in Buffers /\ Size(b) = rconf.large /\ rconf.large \in Nat \ {0} /\ mid \in BOOLEAN
  <2>1. rconf.large \in Nat \ {0} /\ b \in Buffers /\ b # Small
    BY <1>1, BufferSizes, ReaderConstants
  <2> QED BY <1>1, <2>1 DEF Size, ReaderTypes
<1>4. PartOf \in Nat /\ (mid => PartOf = In.pos - start /\ PartOf > 0) /\ PartOf < rconf.large
  <2>1. CASE mid
    <3>1. start < In.pos /\ ~(In.pos - start >= rconf.large) /\ PartOf = In.pos - start
      BY <1>1, <2>1 DEF StreamOK, TooLong, PartOf, Incomplete
    <3> QED BY <1>2, <1>3, <3>1
  <2>2. CASE ~mid
    BY <1>3, <2>2 DEF PartOf
  <2> QED BY <2>1, <2>2
<1> DEFINE m == [i \in 1..rconf.large |-> IF mid /\ i <= Incomplete THEN In.mem[start + i - 1] ELSE buffer[b].mem[i]]
           w == PartOf + 1
           h == [mem |-> m, pos |-> w, last |-> w]
           g == [buffer EXCEPT ![b] = h]
<1>5. MovedTo(b) = g
  <2>1. (IF mid THEN Incomplete + 1 ELSE buffer[b].pos) = w /\ (IF mid THEN Incomplete + 1 ELSE buffer[b].last) = w
    BY DEF PartOf
  <2> QED BY <2>1 DEF MovedTo
<1>6. m \in [1..Size(b) -> Nat] /\ \A i \in 1..PartOf : m[i] = In.mem[start + i - 1]
  <2>1. buffer[b].mem \in [1..rconf.large -> Nat]
    BY <1>1, <1>3, ChunkKnown
  <2>2. ASSUME NEW i \in 1..rconf.large, mid, i <= Incomplete PROVE In.mem[start + i - 1] \in Nat
    <3>1. PartOf = Incomplete /\ PartOf = In.pos - start
      BY <1>4, <2>2 DEF PartOf
    <3>2. start + i - 1 \in 1..Size(headerIn)
      BY <1>2, <1>4, <2>2, <3>1
    <3> QED BY <1>2, <3>2
  <2>3. m \in [1..rconf.large -> Nat]
    BY <2>1, <2>2
  <2>4. ASSUME NEW i \in 1..PartOf PROVE m[i] = In.mem[start + i - 1]
    <3>1. mid /\ i <= Incomplete /\ i \in 1..rconf.large
      BY <1>3, <1>4 DEF PartOf
    <3> QED BY <3>1
  <2> HIDE DEF m
  <2> QED BY <1>3, <2>3, <2>4
<1> HIDE DEF m
<1>7. w \in Nat \ {0} /\ w <= w /\ w <= Size(b) + 1
  BY <1>3, <1>4
<1>8. h \in Chunks /\ ChunkOK(h, b) /\ h.mem = m /\ h.pos = w /\ h.last = w
  <2> HIDE DEF w
  <2>1. h = [mem |-> m, pos |-> w, last |-> w]
    OBVIOUS
  <2> HIDE DEF h
  <2> QED BY <1>1, <1>3, <1>6, <1>7, <2>1, ChunkMade
<1> HIDE DEF h
<1>9. g \in [Buffers -> Chunks] /\ g[b] = h /\ \A d \in Buffers \ {b} : g[d] = buffer[d]
  BY <1>1, <1>3, <1>8 DEF BuffersOK
<1> HIDE DEF g
<1>10. \A d \in Buffers : ChunkOK(g[d], d)
  BY <1>1, <1>8, <1>9 DEF BuffersOK
<1> QED BY <1>4, <1>5, <1>6, <1>8, <1>9, <1>10

\* The header goes on in a large buffer.
LEMMA LineMoved ==
  ASSUME HeadersInv, doing \in {"line", "headers"}, doing = "headers" \/ mid, Unparsed = 0, ~TooLong, TakesFree \/ MayCreate,
         buffer' = MovedTo(Large), freeBufs' = IF TakesFree THEN Front(freeBufs) ELSE freeBufs,
         busyBufs' = Append(busyBufs, Large), headerIn' = Large, start' = 1,
         UNCHANGED <<rconf, doing, serving, received, taken, mid, lines, rb>>
  PROVE  HeadersInv'
<1>1. ReaderTypes /\ BuffersOK /\ ListsOK /\ StreamOK /\ PlaceOK /\ LinesOK
  BY DEF HeadersInv
<1> DEFINE b == Large p == In.pos
<1>2. /\ b \in 1..rconf.num /\ b \notin ToSet(busyBufs) /\ freeBufs' \in Seq(1..rconf.num) /\ IsInjective(freeBufs')
      /\ ToSet(freeBufs') \in SUBSET (ToSet(freeBufs) \ {b})
  BY <1>1, LargeFresh
<1>3. b \in Buffers \ {headerIn} /\ buffer[b].pos = 1 /\ buffer[b].last = 1 /\ b # Small
  BY <1>1, <1>2, OthersEmpty, BufferSizes DEF ListsOK
<1>4. buffer' = MovedTo(b) /\ headerIn' = b /\ busyBufs' = Append(busyBufs, b)
  OBVIOUS
<1> HIDE DEF b
<1>5. /\ buffer' \in [Buffers -> Chunks] /\ \A d \in Buffers : ChunkOK(buffer'[d], d)
      /\ buffer'[b].pos = PartOf + 1 /\ buffer'[b].last = PartOf + 1
      /\ \A i \in 1..PartOf : buffer'[b].mem[i] = In.mem[start + i - 1]
      /\ \A d \in Buffers \ {b} : buffer'[d] = buffer[d]
      /\ PartOf \in Nat /\ (mid => PartOf = p - start /\ PartOf > 0) /\ PartOf < rconf.large
  <2>1. /\ MovedTo(b) \in [Buffers -> Chunks] /\ \A d \in Buffers : ChunkOK(MovedTo(b)[d], d)
        /\ MovedTo(b)[b].pos = PartOf + 1 /\ MovedTo(b)[b].last = PartOf + 1
        /\ \A i \in 1..PartOf : MovedTo(b)[b].mem[i] = In.mem[start + i - 1]
        /\ \A d \in Buffers \ {b} : MovedTo(b)[d] = buffer[d]
        /\ PartOf \in Nat /\ (mid => PartOf = In.pos - start /\ PartOf > 0) /\ PartOf < rconf.large
    BY <1>2, <1>3, MovedFields
  <2> QED BY <1>4, <2>1
<1>6. /\ busyBufs \in Seq(1..rconf.num) /\ IsInjective(busyBufs)
      /\ busyBufs' \in Seq(1..rconf.num) /\ IsInjective(busyBufs') /\ ToSet(busyBufs') = ToSet(busyBufs) \cup {b}
      /\ Len(busyBufs') = Len(busyBufs) + 1 /\ busyBufs'[Len(busyBufs) + 1] = b /\ Len(busyBufs) \in Nat
  <2>1. busyBufs \in Seq(1..rconf.num) /\ IsInjective(busyBufs)
    BY <1>1 DEF ReaderTypes, ListsOK
  <2>2. /\ Append(busyBufs, b) \in Seq(1..rconf.num) /\ IsInjective(Append(busyBufs, b))
        /\ ToSet(Append(busyBufs, b)) = ToSet(busyBufs) \cup {b}
        /\ Len(Append(busyBufs, b)) = Len(busyBufs) + 1 /\ Append(busyBufs, b)[Len(busyBufs) + 1] = b
    <3> DEFINE q == busyBufs T == 1..rconf.num
    <3>1. q \in Seq(T) /\ IsInjective(q) /\ b \in T /\ b \notin ToSet(q)
      BY <1>2, <2>1
    <3> HIDE DEF q, T
    <3>2. /\ Append(q, b) \in Seq(T) /\ IsInjective(Append(q, b)) /\ ToSet(Append(q, b)) = ToSet(q) \cup {b}
          /\ Len(Append(q, b)) = Len(q) + 1 /\ Append(q, b)[Len(q) + 1] = b
      BY <3>1, ListAppended
    <3> QED BY <3>2 DEF q, T
  <2> QED BY <1>4, <2>1, <2>2, LenProperties
<1>7. /\ p \in Nat \ {0} /\ taken \in Nat /\ received = taken /\ start \in Nat \ {0} /\ LineFrom <= p
      /\ \A i \in LineFrom..(p - 1) : In.mem[i] = taken + i - p + 1
  <2>1. /\ p \in Nat \ {0} /\ In.last \in Nat \ {0} /\ taken \in Nat /\ received = taken + In.last - p
        /\ start \in Nat \ {0} /\ Unparsed = In.last - p /\ LineFrom <= p
        /\ \A i \in LineFrom..(In.last - 1) : In.mem[i] = taken + i - p + 1
    BY InKnown
  <2>2. In.last = p
    BY <2>1
  <2> QED BY <2>1, <2>2
<1>8. In' = buffer'[b] /\ In'.pos = PartOf + 1 /\ In'.last = PartOf + 1
  BY <1>4, <1>5 DEF In
<1> HIDE DEF p
<1>9. ReaderTypes'
  BY <1>1, <1>2, <1>3, <1>4, <1>6 DEF ReaderTypes, Buffers, wire
<1>10. BuffersOK'
  BY <1>5 DEF BuffersOK, ChunkOK, Size, Buffers
<1>11. ListsOK'
  <2>1. \A d \in (1..rconf.num) \ ToSet(busyBufs') : buffer'[d].pos = 1 /\ buffer'[d].last = 1
    <3>1. SUFFICES ASSUME NEW d \in (1..rconf.num) \ ToSet(busyBufs'), d # b, d \in (1..rconf.num) \ ToSet(busyBufs)
                   PROVE buffer'[d].pos = 1 /\ buffer'[d].last = 1
      BY <1>6
    <3>2. d \in Buffers /\ buffer[d].pos = 1 /\ buffer[d].last = 1
      BY <1>1, <3>1, OthersEmpty DEF ListsOK
    <3> QED BY <1>5, <3>1, <3>2
  <2>2. busyBufs' # <<>>
    BY <1>6, EmptySeq
  <2>3. ToSet(busyBufs') \cap ToSet(freeBufs') = {}
    BY <1>1, <1>2, <1>6 DEF ListsOK
  <2> QED BY <1>2, <1>4, <1>6, <2>1, <2>2, <2>3 DEF ListsOK
<1>12. StreamOK'
  <2>1. received' = taken' + In'.last - In'.pos
    BY <1>5, <1>7, <1>8
  <2>2. mid' => doing' \in Parsing /\ start' < In'.pos
    BY <1>5, <1>8 DEF Parsing
  <2>3. ASSUME NEW i \in LineFrom'..(In'.last - 1) PROVE In'.mem[i] = taken' + i - In'.pos + 1
    <3>1. LineFrom' = (IF mid THEN 1 ELSE PartOf + 1) /\ In'.last - 1 = PartOf
      BY <1>5, <1>8 DEF LineFrom
    <3>2. mid /\ i \in 1..PartOf
      BY <1>5, <2>3, <3>1
    <3>3. PartOf = p - start /\ start + i - 1 \in LineFrom..(p - 1)
      BY <1>5, <1>7, <3>2 DEF LineFrom
    <3>4. In'.mem[i] = taken + (start + i - 1) - p + 1
      BY <1>5, <1>7, <1>8, <3>2, <3>3
    <3> QED BY <1>5, <1>7, <1>8, <3>2, <3>3, <3>4
  <2> QED BY <2>1, <2>2, <2>3 DEF StreamOK, Parsing
<1>13. PlaceOK'
  <2>1. Before' = Before /\ BodyAt' = BodyAt /\ Current' = Current
    BY DEF Before, BytesBefore, BodyAt, Current, wire
  <2>2. Before \in Nat /\ Before <= taken /\ (mid => p - start <= taken - Before)
    BY <1>1, HeaderEnds DEF Parsing, PlaceOK, p
  <2>3. PartOf <= taken - Before
    <3>1. ~mid => PartOf = 0
      BY DEF PartOf
    <3> QED BY <1>5, <1>7, <2>2, <3>1
  <2>4. In'.pos - 1 = PartOf /\ (mid => In'.pos - start' = PartOf)
    <3>1. PartOf \in Nat /\ In'.pos = PartOf + 1
      BY <1>5, <1>8
    <3> HIDE DEF PartOf
    <3> QED BY <3>1
  <2> QED BY <1>1, <2>1, <2>3, <2>4 DEF PlaceOK, Parsing
<1>14. LinesOK'
  <2>1. SUFFICES ASSUME NEW l \in lines PROVE buffer'[l.buf] = buffer[l.buf] /\ l.buf \in {Small} \cup ToSet(busyBufs')
    BY <1>1 DEF LinesOK
  <2>2. l.buf \in {Small} \cup ToSet(busyBufs) /\ l.buf \in Buffers
    BY <1>1, LinePlaces DEF LinesOK
  <2>3. l.buf # b
    BY <1>2, <1>3, <2>2
  <2> QED BY <1>5, <1>6, <2>2, <2>3
<1> QED BY <1>9, <1>10, <1>11, <1>12, <1>13, <1>14 DEF HeadersInv

\* A request is refused when its header is too long for the large buffers.
LEMMA HeaderRefused ==
  ASSUME HeadersInv, doing \in {"line", "headers"}, Unparsed = 0, Full, TooLong \/ ~(TakesFree \/ MayCreate),
         doing' = "refused", UNCHANGED <<rconf, serving, received, taken, buffer, heads, rb>>
  PROVE  HeadersInv'
<1>1. ReaderTypes /\ BuffersOK /\ ListsOK /\ StreamOK /\ PlaceOK /\ LinesOK
  BY DEF HeadersInv
<1>2. UNCHANGED <<headerIn, busyBufs, freeBufs, mid, start, lines>> /\ doing' \in Doings
  BY DEF heads, Doings
<1>3. /\ Before \in Nat /\ BodyAt \in Nat /\ Before <= taken /\ taken < BodyAt /\ taken \in Nat
      /\ serving \in DOMAIN rconf.requests
  BY <1>1, HeaderEnds DEF Parsing, PlaceOK, ReaderTypes
<1>4. BodyAt = Before + Current.header /\ Current.header \in Nat
  BY <1>1, <1>3, RequestLies
<1>5. taken - Before < Current.header
  BY <1>3, <1>4
<1>6. rconf.large \in Nat /\ rconf.num \in Nat /\ In.pos \in Nat
  BY <1>1, InKnown, ReaderConstants
<1>7. ~ShortHeader(Current)
  <2> SUFFICES ASSUME Current.header <= rconf.large, rconf.num >= 2 PROVE FALSE
    BY DEF ShortHeader
  <2>1. CASE TooLong
    <3>1. In.pos - start >= rconf.large /\ In.pos - start <= taken - Before /\ start \in Nat
      BY <1>1, <2>1, InKnown DEF TooLong, Incomplete, PlaceOK, Parsing
    <3> QED BY <1>3, <1>4, <1>5, <1>6, <3>1
  <2>2. CASE ~(TakesFree \/ MayCreate)
    <3>1. ~(Len(busyBufs) < rconf.num) /\ Len(busyBufs) \in Nat /\ busyBufs \in Seq(1..rconf.num)
      BY <1>1, <2>2, LenProperties DEF MayCreate, ReaderTypes
    <3>2. Len(busyBufs) >= 2
      BY <1>6, <3>1
    <3>3. headerIn # Small
      <4>1. busyBufs # <<>> /\ busyBufs[Len(busyBufs)] \in 1..rconf.num
        <5>1. Len(busyBufs) \in 1..Len(busyBufs) /\ Len(busyBufs) # 0
          BY <3>1, <3>2
        <5>2. busyBufs # <<>>
          BY <5>1, EmptySeq
        <5> QED BY <3>1, <5>1, <5>2, ElementOfSeq
      <4> QED BY <1>1, <4>1 DEF ListsOK, Small
    <3>4. In.pos - 1 <= taken - Before
      BY <1>1, <3>2 DEF PlaceOK, Parsing
    <3>5. In.pos = rconf.large + 1
      BY <3>3 DEF Full, Size
    <3> QED BY <1>3, <1>4, <1>5, <1>6, <3>4, <3>5
  <2> QED BY <2>1, <2>2
<1>8. ReaderTypes'
  BY <1>1, <1>2 DEF ReaderTypes, Buffers, wire
<1>9. BuffersOK'
  BY <1>1, <1>2 DEF BuffersOK, ChunkOK, Size, Buffers
<1>10. ListsOK'
  BY <1>1, <1>2 DEF ListsOK
<1>11. StreamOK'
  BY <1>1, <1>2 DEF StreamOK, In, LineFrom, Parsing
<1>12. PlaceOK'
  <2>1. Before' = Before /\ BodyAt' = BodyAt /\ Current' = Current /\ ShortHeader(Current)' = ShortHeader(Current)
    BY DEF Before, BytesBefore, BodyAt, Current, wire, ShortHeader
  <2>2. In' = In
    BY <1>2 DEF In
  <2> QED BY <1>1, <1>2, <1>7, <2>1, <2>2 DEF PlaceOK, Parsing
<1>13. LinesOK'
  BY <1>1, <1>2 DEF LinesOK
<1> QED BY <1>8, <1>9, <1>10, <1>11, <1>12, <1>13 DEF HeadersInv

\* A request without a body, and a buffer without bytes.
LEMMA NothingYet ==
  ASSUME ReaderTypes
  PROVE  /\ NoBody \in Bodies
         /\ [b \in Buffers |-> Unused(Size(b))] \in [Buffers -> Chunks]
         /\ \A b \in Buffers : ChunkOK(Unused(Size(b)), b) /\ Unused(Size(b)).pos = 1 /\ Unused(Size(b)).last = 1
<1>1. NoBody \in Bodies
  <2>1. /\ [buf |-> Small, from |-> 1, len |-> 0] \in [buf : Nat, from : Nat \ {0}, len : Nat]
        /\ <<>> \in Seq(Nat) /\ <<>> \in Seq({"pre", "buf", "file"})
    BY EmptySeq DEF Small
  <2> QED BY <2>1 DEF NoBody, Bodies
<1>2. ASSUME NEW b \in Buffers
      PROVE  Unused(Size(b)) \in Chunks /\ ChunkOK(Unused(Size(b)), b) /\ Unused(Size(b)).pos = 1 /\ Unused(Size(b)).last = 1
  <2> DEFINE m == [i \in 1..Size(b) |-> 0] n == 1 h == [mem |-> m, pos |-> n, last |-> n]
  <2>1. Size(b) \in Nat \ {0} /\ m \in [1..Size(b) -> Nat]
    BY BufferSizes
  <2>2. n \in Nat \ {0} /\ n <= n /\ n <= Size(b) + 1
    BY <2>1
  <2>3. h = [mem |-> m, pos |-> n, last |-> n] /\ Unused(Size(b)) = h
    BY DEF Unused
  <2> HIDE DEF m, n, h
  <2>4. h \in Chunks /\ ChunkOK(h, b) /\ h.mem = m /\ h.pos = n /\ h.last = n
    BY <2>1, <2>2, <2>3, ChunkMade
  <2> QED BY <2>3, <2>4 DEF n
<1> QED BY <1>1, <1>2

\* A request begins where the one before it ended, in the buffer that it is in.
LEMMA RequestBegins ==
  ASSUME HeadersInv, InitRequest
  PROVE  HeadersInv'
<1>1. ReaderTypes /\ BuffersOK /\ ListsOK /\ StreamOK /\ PlaceOK /\ LinesOK
  BY DEF HeadersInv
<1>2. /\ doing = "init" /\ doing' = "line" /\ mid' = FALSE /\ lines' = {} /\ rb' = NoBody
      /\ headerIn' = (IF busyBufs # <<>> THEN busyBufs[1] ELSE Small) /\ start' = buffer[headerIn'].pos
      /\ UNCHANGED <<rconf, serving, received, taken, buffer, busyBufs, freeBufs>> /\ ~mid
  BY <1>1 DEF InitRequest, StreamOK, Parsing
<1>3. headerIn' = headerIn
  <2>1. Len(busyBufs) <= 1 /\ busyBufs \in Seq(1..rconf.num)
    BY <1>1, <1>2 DEF ListsOK, ReaderTypes
  <2>2. Len(busyBufs) \in Nat /\ (busyBufs # <<>> => Len(busyBufs) # 0)
    BY <2>1, LenProperties, EmptySeq
  <2> DEFINE n == Len(busyBufs)
  <2>3. n \in Nat /\ n <= 1 /\ (busyBufs # <<>> => n # 0)
    BY <2>1, <2>2
  <2> HIDE DEF n
  <2>4. busyBufs # <<>> => n = 1
    BY <2>3
  <2> QED BY <1>1, <1>2, <2>4 DEF ListsOK, n
<1>4. In' = In /\ start' = In.pos
  BY <1>2, <1>3 DEF In
<1>5. In.pos \in Nat \ {0} /\ headerIn \in Buffers /\ LineFrom = In.pos /\ LineFrom' = In.pos
  BY <1>2, <1>4, InKnown DEF LineFrom
<1>6. ReaderTypes'
  <2>1. doing' \in Doings /\ NoBody \in Bodies
    BY <1>1, <1>2, NothingYet DEF Doings
  <2> QED BY <1>1, <1>2, <1>3, <1>4, <1>5, <2>1 DEF ReaderTypes, Buffers, wire
<1>7. BuffersOK'
  BY <1>1, <1>2 DEF BuffersOK, ChunkOK, Size, Buffers
<1>8. ListsOK'
  BY <1>1, <1>2, <1>3 DEF ListsOK
<1>9. StreamOK'
  BY <1>1, <1>2, <1>4, <1>5 DEF StreamOK
<1>10. PlaceOK'
  <2>1. Before' = Before /\ BodyAt' = BodyAt /\ Current' = Current
    BY <1>2 DEF Before, BytesBefore, BodyAt, Current, wire
  <2>2. serving \in DOMAIN rconf.requests /\ taken = Before
    BY <1>1, <1>2 DEF PlaceOK
  <2>3. Before \in Nat /\ Current.header \in Nat \ {0} /\ BodyAt = Before + Current.header
    BY <1>1, <2>2, RequestLies
  <2>4. taken < BodyAt /\ Before <= taken
    BY <2>2, <2>3
  <2>5. ~(Len(busyBufs) >= 2)
    <3>1. Len(busyBufs) <= 1 /\ Len(busyBufs) \in Nat
      BY <1>1, <1>2, LenProperties DEF ListsOK, ReaderTypes
    <3> QED BY <3>1
  <2> QED BY <1>1, <1>2, <2>1, <2>2, <2>4, <2>5 DEF PlaceOK, Parsing
<1>11. LinesOK'
  BY <1>2 DEF LinesOK
<1> QED BY <1>6, <1>7, <1>8, <1>9, <1>10, <1>11 DEF HeadersInv

\* A request that is over: the next one begins behind it.
LEMMA RequestOver ==
  ASSUME HeadersInv, doing = "done"
  PROVE  /\ ~mid /\ serving \in 1..Len(rconf.requests) /\ Len(rconf.requests) \in Nat /\ taken \in Nat
         /\ taken = BytesBefore(serving + 1)
         /\ received > taken => serving + 1 \in DOMAIN rconf.requests
<1>1. ReaderTypes /\ StreamOK /\ PlaceOK
  BY DEF HeadersInv
<1>2. /\ ~mid /\ serving \in DOMAIN rconf.requests /\ taken \in Nat /\ received \in Nat /\ received <= Len(wire)
      /\ taken = BodyAt + Current.body
  BY <1>1 DEF StreamOK, PlaceOK, ReaderTypes, Parsing
<1>3. taken = BytesBefore(serving + 1)
  BY <1>1, <1>2, RequestLies
<1>4. DOMAIN rconf.requests = 1..Len(rconf.requests) /\ Len(rconf.requests) \in Nat /\ Len(wire) \in Nat
  BY <1>1, ReaderConstants
<1>5. received > taken => serving + 1 \in DOMAIN rconf.requests
  <2>1. ~(serving + 1 <= Len(rconf.requests)) => taken = Len(wire)
    BY <1>3 DEF BytesBefore
  <2>2. received > taken => serving + 1 <= Len(rconf.requests)
    BY <1>2, <1>4, <2>1
  <2> QED BY <1>2, <1>4, <2>2
<1> QED BY <1>2, <1>3, <1>4, <1>5

\* Nothing of the next request is there: the connection waits with an empty buffer.
LEMMA ConnectionIdle ==
  ASSUME HeadersInv, Idle
  PROVE  HeadersInv'
<1>1. ReaderTypes /\ BuffersOK /\ ListsOK /\ StreamOK /\ PlaceOK /\ LinesOK
  BY DEF HeadersInv
<1>2. /\ doing = "done" /\ Unparsed = 0 /\ headerIn' = Small /\ busyBufs' = <<>> /\ freeBufs' = <<>> /\ lines' = {}
      /\ rb' = NoBody /\ doing' = "keepalive" /\ serving' = serving + 1
      /\ UNCHANGED <<rconf, received, taken, mid, start>>
      /\ buffer' = [b \in Buffers |-> Unused(Size(b))]
  BY <1>1 DEF Idle, BuffersOK
<1>3. /\ ~mid /\ serving \in 1..Len(rconf.requests) /\ Len(rconf.requests) \in Nat /\ taken \in Nat
      /\ taken = BytesBefore(serving + 1)
  BY <1>2, RequestOver
<1>4. received = taken /\ received \in Nat
  <2>1. received = taken + In.last - In.pos /\ Unparsed = In.last - In.pos /\ In.last \in Nat /\ In.pos \in Nat
    BY InKnown
  <2> QED BY <1>2, <1>3, <2>1
<1>5. /\ NoBody \in Bodies /\ buffer' \in [Buffers -> Chunks]
      /\ \A b \in Buffers : ChunkOK(buffer'[b], b) /\ buffer'[b].pos = 1 /\ buffer'[b].last = 1
  BY <1>1, <1>2, NothingYet
<1>6. ReaderTypes'
  <2>1. doing' \in Doings /\ serving' \in Nat \ {0} /\ Small \in Buffers
    BY <1>2, <1>3 DEF Doings, Buffers
  <2>2. <<>> \in Seq(1..rconf.num)
    BY EmptySeq
  <2> QED BY <1>1, <1>2, <1>5, <2>1, <2>2 DEF ReaderTypes, Buffers, wire
<1>7. BuffersOK'
  BY <1>2, <1>5 DEF BuffersOK, ChunkOK, Size, Buffers
<1>8. ListsOK'
  <2>1. Len(<<>>) = 0 /\ DOMAIN <<>> = {}
    BY EmptySeq
  <2>2. IsInjective(<<>>) /\ ToSet(<<>>) = {}
    BY <2>1 DEF IsInjective, ToSet
  <2>3. Small \in Buffers /\ 1..rconf.num \in SUBSET Buffers
    BY <1>1, BufferSizes
  <2> QED BY <1>2, <1>5, <2>1, <2>2, <2>3 DEF ListsOK
<1>9. StreamOK'
  <2>1. In'.pos = 1 /\ In'.last = 1
    BY <1>2, <1>5 DEF In, Buffers
  <2>2. received' = taken' + In'.last - In'.pos
    BY <1>2, <1>3, <1>4, <2>1
  <2>3. \A i \in LineFrom'..(In'.last - 1) : FALSE
    BY <1>2, <1>3, <2>1 DEF LineFrom
  <2> QED BY <1>2, <1>3, <2>2, <2>3 DEF StreamOK
<1>10. PlaceOK'
  <2>1. taken' = Before'
    BY <1>2, <1>3 DEF Before, BytesBefore, wire
  <2>2. serving' <= Len(rconf'.requests) + 1
    BY <1>2, <1>3
  <2> QED BY <1>2, <2>1, <2>2 DEF PlaceOK, Parsing
<1>11. LinesOK'
  BY <1>2 DEF LinesOK
<1> QED BY <1>6, <1>7, <1>8, <1>9, <1>10, <1>11 DEF HeadersInv

\* The next request is in the buffer: of the large buffers only that one stays in use.
LEMMA BuffersReleased ==
  ASSUME ReaderTypes, BuffersOK, ListsOK, headerIn # Small, buffer' = Reset(Released),
         freeBufs' = freeBufs \o Front(busyBufs), busyBufs' = <<headerIn>>, UNCHANGED <<rconf, headerIn>>
  PROVE  /\ BuffersOK' /\ buffer'[headerIn] = buffer[headerIn]
         /\ freeBufs' \in Seq(1..rconf.num) /\ busyBufs' \in Seq(1..rconf.num)
         /\ IsInjective(busyBufs') /\ IsInjective(freeBufs') /\ ToSet(busyBufs') \cap ToSet(freeBufs') = {}
         /\ \A b \in (1..rconf.num) \ ToSet(busyBufs') : buffer'[b].pos = 1 /\ buffer'[b].last = 1
         /\ Len(busyBufs') = 1 /\ busyBufs'[1] = headerIn
<1>1. /\ busyBufs # <<>> /\ headerIn = busyBufs[Len(busyBufs)] /\ IsInjective(busyBufs) /\ IsInjective(freeBufs)
      /\ busyBufs \in Seq(1..rconf.num) /\ freeBufs \in Seq(1..rconf.num) /\ ToSet(busyBufs) \cap ToSet(freeBufs) = {}
  BY DEF ListsOK, ReaderTypes
<1>2. /\ Front(busyBufs) \in Seq(1..rconf.num) /\ IsInjective(Front(busyBufs)) /\ Len(Front(busyBufs)) = Len(busyBufs) - 1
      /\ Last(busyBufs) = busyBufs[Len(busyBufs)] /\ Last(busyBufs) \in ToSet(busyBufs)
      /\ ToSet(Front(busyBufs)) = ToSet(busyBufs) \ {Last(busyBufs)}
  BY <1>1, ListFront
<1> DEFINE f == Front(busyBufs)
<1>3. f \in Seq(1..rconf.num) /\ IsInjective(f) /\ ToSet(f) = ToSet(busyBufs) \ {headerIn} /\ headerIn \in ToSet(busyBufs)
      /\ Released = ToSet(f) /\ freeBufs' = freeBufs \o f
  BY <1>1, <1>2 DEF Released
<1> HIDE DEF f
<1>4. ToSet(freeBufs) \cap ToSet(f) = {}
  BY <1>1, <1>3
<1>5. freeBufs \o f \in Seq(1..rconf.num) /\ IsInjective(freeBufs \o f) /\ ToSet(freeBufs \o f) = ToSet(freeBufs) \cup ToSet(f)
  BY <1>1, <1>3, <1>4, ListsJoined
<1>6. headerIn \in 1..rconf.num /\ headerIn \in Buffers
  <2>1. ToSet(busyBufs) \in SUBSET (1..rconf.num)
    BY <1>1, InDomain
  <2> QED BY <1>3, <2>1 DEF ReaderTypes
<1>7. /\ busyBufs' \in Seq(1..rconf.num) /\ Len(busyBufs') = 1 /\ busyBufs'[1] = headerIn
      /\ IsInjective(busyBufs') /\ ToSet(busyBufs') = {headerIn}
  <2>1. Len(<<headerIn>>) = 1 /\ <<headerIn>>[1] = headerIn /\ <<headerIn>> \in Seq(1..rconf.num)
    BY <1>6
  <2>2. DOMAIN <<headerIn>> = {1}
    OBVIOUS
  <2> QED BY <2>1, <2>2 DEF IsInjective, ToSet
<1>8. /\ DOMAIN buffer = Buffers /\ \A b \in Buffers \ Released : buffer'[b] = buffer[b]
      /\ \A b \in Released : b \in Buffers /\ buffer'[b] = [mem |-> buffer[b].mem, pos |-> 1, last |-> 1]
      /\ buffer' = [b \in Buffers |-> buffer'[b]]
  <2>1. DOMAIN buffer = Buffers
    BY DEF BuffersOK
  <2>2. Released \in SUBSET Buffers
    <3>1. ToSet(f) \in SUBSET (1..rconf.num)
      BY <1>3, InDomain
    <3> QED BY <1>3, <3>1, BufferSizes
  <2> QED BY <2>1, <2>2 DEF Reset
<1>9. ASSUME NEW b \in Released
      PROVE  buffer'[b] \in Chunks /\ ChunkOK(buffer'[b], b) /\ buffer'[b].pos = 1 /\ buffer'[b].last = 1
  <2> DEFINE m == buffer[b].mem n == 1 h == buffer'[b]
  <2>1. b \in Buffers /\ h = [mem |-> m, pos |-> n, last |-> n]
    BY <1>8
  <2>2. m \in [1..Size(b) -> Nat] /\ Size(b) \in Nat
    BY <2>1, ChunkKnown, BufferSizes
  <2>3. n \in Nat \ {0} /\ n <= n /\ n <= Size(b) + 1
    BY <2>2
  <2> HIDE DEF m, n, h
  <2>4. h \in Chunks /\ ChunkOK(h, b) /\ h.mem = m /\ h.pos = n /\ h.last = n
    BY <2>1, <2>2, <2>3, ChunkMade
  <2> QED BY <2>4 DEF n, h
<1>10. buffer' \in [Buffers -> Chunks] /\ \A b \in Buffers : ChunkOK(buffer'[b], b)
  <2>1. ASSUME NEW b \in Buffers PROVE buffer'[b] \in Chunks /\ ChunkOK(buffer'[b], b)
    BY <1>8, <1>9 DEF BuffersOK
  <2> QED BY <1>8, <2>1
<1>11. BuffersOK'
  BY <1>10 DEF BuffersOK, ChunkOK, Size, Buffers
<1>12. buffer'[headerIn] = buffer[headerIn]
  BY <1>3, <1>6, <1>8
<1>13. ASSUME NEW b \in (1..rconf.num) \ ToSet(busyBufs') PROVE buffer'[b].pos = 1 /\ buffer'[b].last = 1
  <2>1. CASE b \in Released
    BY <1>9, <2>1
  <2>2. CASE b \notin Released
    <3>1. b \in (1..rconf.num) \ ToSet(busyBufs)
      BY <1>3, <1>7, <2>2
    <3>2. buffer[b].pos = 1 /\ buffer[b].last = 1 /\ b \in Buffers
      BY <3>1, BufferSizes DEF ListsOK
    <3> QED BY <1>8, <2>2, <3>2
  <2> QED BY <2>1, <2>2
<1>14. ToSet(busyBufs') \cap ToSet(freeBufs') = {}
  BY <1>1, <1>3, <1>5, <1>7
<1> QED BY <1>3, <1>5, <1>7, <1>11, <1>12, <1>13, <1>14

\* The next request is in header_in already.
LEMMA RequestFollows ==
  ASSUME HeadersInv, Pipelined
  PROVE  HeadersInv'
<1>1. ReaderTypes /\ BuffersOK /\ ListsOK /\ StreamOK /\ PlaceOK /\ LinesOK
  BY DEF HeadersInv
<1>2. /\ doing = "done" /\ Unparsed > 0 /\ doing' = "init" /\ serving' = serving + 1 /\ lines' = {} /\ rb' = NoBody
      /\ UNCHANGED <<rconf, received, taken, headerIn, mid, start>>
  BY DEF Pipelined
<1>3. /\ ~mid /\ serving \in 1..Len(rconf.requests) /\ Len(rconf.requests) \in Nat /\ taken \in Nat
      /\ taken = BytesBefore(serving + 1)
      /\ received > taken => serving + 1 \in DOMAIN rconf.requests
  BY <1>2, RequestOver
<1>4. received > taken
  <2>1. received = taken + In.last - In.pos /\ Unparsed = In.last - In.pos /\ In.last \in Nat /\ In.pos \in Nat
    BY InKnown
  <2> QED BY <1>2, <1>3, <2>1
<1>5. /\ BuffersOK' /\ buffer'[headerIn] = buffer[headerIn]
      /\ freeBufs' \in Seq(1..rconf.num) /\ busyBufs' \in Seq(1..rconf.num) /\ ListsOK'
  <2>1. CASE headerIn = Small /\ UNCHANGED <<buffer, busyBufs, freeBufs>>
    <3>1. busyBufs = <<>>
      <4>1. busyBufs # <<>> => busyBufs[Len(busyBufs)] \in 1..rconf.num
        <5> SUFFICES ASSUME busyBufs # <<>> PROVE busyBufs[Len(busyBufs)] \in 1..rconf.num
          OBVIOUS
        <5>1. busyBufs \in Seq(1..rconf.num) /\ Len(busyBufs) \in Nat /\ Len(busyBufs) # 0
          BY <1>1, EmptySeq, LenProperties DEF ReaderTypes
        <5>2. Len(busyBufs) \in 1..Len(busyBufs)
          BY <5>1
        <5> QED BY <5>1, <5>2, ElementOfSeq
      <4> QED BY <1>1, <2>1, <4>1 DEF ListsOK, Small
    <3>2. Len(busyBufs) <= 1
      <4>1. Len(<<>>) = 0
        BY EmptySeq
      <4> QED BY <3>1, <4>1
    <3>3. ListsOK'
      BY <1>1, <1>2, <2>1, <3>2 DEF ListsOK
    <3> QED BY <1>1, <1>2, <2>1, <3>3 DEF BuffersOK, ChunkOK, Size, Buffers, ReaderTypes
  <2>2. CASE headerIn # Small /\ buffer' = Reset(Released) /\ freeBufs' = freeBufs \o Front(busyBufs) /\ busyBufs' = <<headerIn>>
    <3>1. /\ BuffersOK' /\ buffer'[headerIn] = buffer[headerIn]
          /\ freeBufs' \in Seq(1..rconf.num) /\ busyBufs' \in Seq(1..rconf.num)
          /\ IsInjective(busyBufs') /\ IsInjective(freeBufs') /\ ToSet(busyBufs') \cap ToSet(freeBufs') = {}
          /\ \A b \in (1..rconf.num) \ ToSet(busyBufs') : buffer'[b].pos = 1 /\ buffer'[b].last = 1
          /\ Len(busyBufs') = 1 /\ busyBufs'[1] = headerIn
      BY <1>1, <1>2, <2>2, BuffersReleased
    <3>2. busyBufs' # <<>>
      BY <2>2
    <3>3. ListsOK'
      BY <1>2, <3>1, <3>2 DEF ListsOK
    <3> QED BY <3>1, <3>3
  <2> QED BY <2>1, <2>2 DEF Pipelined
<1>6. In' = In
  BY <1>2, <1>5 DEF In
<1>7. ReaderTypes'
  <2>1. doing' \in Doings /\ serving' \in Nat \ {0} /\ NoBody \in Bodies
    BY <1>1, <1>2, <1>3, NothingYet DEF Doings
  <2> QED BY <1>1, <1>2, <1>5, <2>1 DEF ReaderTypes, Buffers, wire
<1>8. StreamOK'
  BY <1>1, <1>2, <1>3, <1>6 DEF StreamOK, LineFrom
<1>9. PlaceOK'
  <2>1. taken' = Before'
    BY <1>2, <1>3 DEF Before, BytesBefore, wire
  <2>2. serving' \in DOMAIN rconf'.requests /\ serving' <= Len(rconf'.requests) + 1
    BY <1>2, <1>3, <1>4
  <2> QED BY <1>2, <2>1, <2>2 DEF PlaceOK, Parsing
<1>10. LinesOK'
  BY <1>2 DEF LinesOK
<1> QED BY <1>5, <1>7, <1>8, <1>9, <1>10 DEF HeadersInv

\* The kinds of values in the bodies of requests.
LEMMA BodyKnown ==
  ASSUME NEW body \in Bodies
  PROVE  /\ body = [pre |-> body.pre, inHeader |-> body.inHeader, buf |-> body.buf, cap |-> body.cap, rest |-> body.rest,
                    bufs |-> body.bufs, toWrite |-> body.toWrite, file |-> body.file, hasFile |-> body.hasFile]
         /\ body.pre = [buf |-> body.pre.buf, from |-> body.pre.from, len |-> body.pre.len]
         /\ body.pre.buf \in Nat /\ body.pre.from \in Nat \ {0} /\ body.pre.len \in Nat
         /\ body.inHeader \in BOOLEAN /\ body.buf \in Seq(Nat) /\ body.cap \in Nat /\ body.rest \in Nat
         /\ body.bufs \in Seq({"pre", "buf", "file"}) /\ body.toWrite \in Seq({"pre", "buf", "file"})
         /\ body.file \in Seq(Nat) /\ body.hasFile \in BOOLEAN
BY DEF Bodies

\* Fields of the right kinds make a body.
LEMMA BodyMade ==
  ASSUME NEW body, NEW slice, NEW b \in Nat, NEW f \in Nat \ {0}, NEW l \in Nat, slice = [buf |-> b, from |-> f, len |-> l],
         NEW i \in BOOLEAN, NEW q \in Seq(Nat), NEW c \in Nat, NEW r \in Nat,
         NEW s \in Seq({"pre", "buf", "file"}), NEW w \in Seq({"pre", "buf", "file"}), NEW t \in Seq(Nat), NEW h \in BOOLEAN,
         body = [pre |-> slice, inHeader |-> i, buf |-> q, cap |-> c, rest |-> r, bufs |-> s, toWrite |-> w, file |-> t,
                 hasFile |-> h]
  PROVE  /\ body \in Bodies /\ body.pre = slice /\ body.pre.buf = b /\ body.pre.from = f /\ body.pre.len = l
         /\ body.inHeader = i /\ body.buf = q /\ body.cap = c /\ body.rest = r /\ body.bufs = s /\ body.toWrite = w
         /\ body.file = t /\ body.hasFile = h
<1>1. slice \in [buf : Nat, from : Nat \ {0}, len : Nat] /\ slice.buf = b /\ slice.from = f /\ slice.len = l
  OBVIOUS
<1>2. /\ body.pre = slice
      /\ body.inHeader = i /\ body.buf = q /\ body.cap = c /\ body.rest = r /\ body.bufs = s /\ body.toWrite = w
      /\ body.file = t /\ body.hasFile = h
  OBVIOUS
<1>3. body \in Bodies
  BY <1>1 DEF Bodies
<1> QED BY <1>1, <1>2, <1>3

\* What is in the buffers of a body, one behind the other.
ChainOf(p, b, f, chain) ==
  FlattenSeq([i \in DOMAIN chain |-> CASE chain[i] = "pre" -> p [] chain[i] = "buf" -> b [] chain[i] = "file" -> f])

\* Chains of one buffer and of two.
LEMMA Chained ==
  ASSUME NEW p, NEW b, NEW f
  PROVE  /\ ChainOf(p, b, f, <<>>) = <<>>
         /\ ChainOf(p, b, f, <<"pre">>) = p /\ ChainOf(p, b, f, <<"buf">>) = b /\ ChainOf(p, b, f, <<"file">>) = f
         /\ ChainOf(p, b, f, <<"pre", "buf">>) = p \o b /\ ChainOf(p, b, f, <<"pre", "file">>) = p \o f
<1> DEFINE of(x) == CASE x = "pre" -> p [] x = "buf" -> b [] x = "file" -> f
<1>1. of("pre") = p /\ of("buf") = b /\ of("file") = f
  OBVIOUS
<1>2. \A chain : ChainOf(p, b, f, chain) = FlattenSeq([i \in DOMAIN chain |-> of(chain[i])])
  BY DEF ChainOf
<1> HIDE DEF of
<1>3. ASSUME NEW x PROVE ChainOf(p, b, f, <<x>>) = of(x)
  <2> DEFINE q == [i \in DOMAIN <<x>> |-> of(<<x>>[i])]
  <2>1. q = <<of(x)>>
    OBVIOUS
  <2>2. Len(q) = 1 /\ q[1] = of(x)
    BY <2>1
  <2> HIDE DEF q
  <2>3. FlattenSeq(q) = q[1]
    BY <2>2, FlattenOne
  <2> QED BY <1>2, <2>2, <2>3 DEF q
<1>4. ASSUME NEW x, NEW y PROVE ChainOf(p, b, f, <<x, y>>) = of(x) \o of(y)
  <2> DEFINE q == [i \in DOMAIN <<x, y>> |-> of(<<x, y>>[i])]
  <2>1. q = <<of(x), of(y)>>
    OBVIOUS
  <2>2. Len(q) = 2 /\ q[1] = of(x) /\ q[2] = of(y)
    BY <2>1
  <2> HIDE DEF q
  <2>3. FlattenSeq(q) = q[1] \o q[2]
    BY <2>2, FlattenTwo
  <2> QED BY <1>2, <2>2, <2>3 DEF q
<1>5. ChainOf(p, b, f, <<>>) = <<>>
  <2>1. [i \in DOMAIN <<>> |-> of(<<>>[i])] = <<>>
    OBVIOUS
  <2> QED BY <1>2, <2>1, FlattenNone
<1> QED BY <1>1, <1>3, <1>4, <1>5

\* Bytes in a buffer that are the stream.
SliceOf(m, f, n) == [i \in 1..n |-> m[f + i - 1]]
OnStream(m, f, n, k) == \A i \in 1..n : m[f + i - 1] = k + i

\* Such a slice is the bytes behind the first k.
LEMMA SliceBytes ==
  ASSUME NEW m, NEW f \in Nat \ {0}, NEW n \in Nat, NEW k \in Nat, NEW w, w = k + n
  PROVE  SliceOf(m, f, n) = Bytes(k, w) <=> OnStream(m, f, n, k)
<1>1. w - k = n
  OBVIOUS
<1>2. Bytes(k, w) = [i \in 1..n |-> k + i]
  BY <1>1 DEF Bytes
<1>3. [i \in 1..n |-> m[f + i - 1]] = [i \in 1..n |-> k + i] <=> \A i \in 1..n : m[f + i - 1] = k + i
  OBVIOUS
<1> QED BY <1>2, <1>3 DEF SliceOf, OnStream

\* A body is a record.
IsBody(b) ==
  b = [pre |-> b.pre, inHeader |-> b.inHeader, buf |-> b.buf, cap |-> b.cap, rest |-> b.rest, bufs |-> b.bufs,
       toWrite |-> b.toWrite, file |-> b.file, hasFile |-> b.hasFile]

\* A request without a body, as a record.
LEMMA NoBodyIs ==
  /\ IsBody(NoBody) /\ NoBody.pre = [buf |-> Small, from |-> 1, len |-> 0] /\ NoBody.inHeader = FALSE /\ NoBody.buf = <<>>
  /\ NoBody.cap = 0 /\ NoBody.rest = 0 /\ NoBody.bufs = <<>> /\ NoBody.toWrite = <<>> /\ NoBody.file = <<>>
  /\ NoBody.hasFile = FALSE
BY DEF IsBody, NoBody

\* Bytes on their way from the header buffer to the body.
LEMMA HandlerKnown ==
  ASSUME HeadersInv, doing = "handler"
  PROVE  /\ headerIn \in Buffers /\ In.pos \in Nat \ {0} /\ In.last \in Nat /\ Size(headerIn) \in Nat
         /\ In.last <= Size(headerIn) + 1 /\ In.mem \in [1..Size(headerIn) -> Nat]
         /\ BodyAt \in Nat /\ ContentLength = Current.body /\ ContentLength \in Nat /\ taken = BodyAt
         /\ Preread \in Nat /\ Preread <= ContentLength /\ In.pos + Preread <= In.last
         /\ Preread < ContentLength => In.pos + Preread = In.last
         /\ \A i \in 1..Preread : In.mem[In.pos + i - 1] = BodyAt + i
         /\ headerIn \in Nat
<1>1. ReaderTypes /\ PlaceOK /\ StreamOK
  BY DEF HeadersInv
<1>2. /\ headerIn \in Buffers /\ In.pos \in Nat \ {0} /\ In.last \in Nat \ {0} /\ Size(headerIn) \in Nat
      /\ In.last <= Size(headerIn) + 1 /\ In.pos <= In.last /\ Unparsed = In.last - In.pos /\ Unparsed \in Nat
      /\ In.mem \in [1..Size(headerIn) -> Nat]
      /\ \A i \in LineFrom..(In.last - 1) : In.mem[i] = taken + i - In.pos + 1
  BY InKnown
<1>3. serving \in DOMAIN rconf.requests /\ taken = BodyAt /\ ~mid
  BY <1>1 DEF PlaceOK, StreamOK, Parsing
<1>4. BodyAt \in Nat /\ ContentLength = Current.body /\ ContentLength \in Nat
  BY <1>1, <1>3, RequestLies
<1>5. /\ Preread \in Nat /\ Preread <= ContentLength /\ In.pos + Preread <= In.last
      /\ Preread < ContentLength => In.pos + Preread = In.last
  BY <1>2, <1>4 DEF Preread, SmallerOf
<1>6. ASSUME NEW i \in 1..Preread PROVE In.mem[In.pos + i - 1] = BodyAt + i
  <2>1. In.pos + i - 1 \in LineFrom..(In.last - 1)
    BY <1>2, <1>3, <1>5 DEF LineFrom
  <2>2. In.mem[In.pos + i - 1] = taken + (In.pos + i - 1) - In.pos + 1
    BY <1>2, <2>1
  <2> QED BY <1>2, <1>3, <1>4, <1>5, <2>2
<1>7. headerIn \in Nat
  BY <1>1, <1>2, BufferSizes
<1> QED BY <1>2, <1>3, <1>4, <1>5, <1>6, <1>7

\* What the buffer has of the body.
LEMMA PrereadIs ==
  ASSUME HeadersInv, doing = "handler"
  PROVE  SliceOf(In.mem, In.pos, Preread) = Bytes(BodyAt, BodyAt + Preread)
<1> DEFINE w == BodyAt + Preread m == In.mem f == In.pos n == Preread
<1>1. OnStream(m, f, n, BodyAt) /\ n \in Nat /\ w = BodyAt + n /\ f \in Nat \ {0} /\ BodyAt \in Nat
  BY HandlerKnown DEF OnStream
<1> HIDE DEF n, m, w, f
<1>2. SliceOf(m, f, n) = Bytes(BodyAt, w)
  BY <1>1, SliceBytes
<1> QED BY <1>2 DEF n, m, w, f

\* The body came with the header: it stays in the buffer, and goes to the file if it has to.
LEMMA WholeBodyIs ==
  ASSUME HeadersInv, doing = "handler", Preread = ContentLength
  PROVE  /\ WholeBody \in Bodies /\ WholeBody.pre.buf = headerIn /\ WholeBody.pre.from = In.pos
         /\ WholeBody.pre.len = ContentLength
         /\ WholeBody.bufs = IF ContentLength = 0 THEN <<>> ELSE <<"pre">>
         /\ rconf.only /\ ContentLength > 0 => WholeBody.file = Bytes(BodyAt, BodyAt + ContentLength)
<1>1. /\ In.pos \in Nat \ {0} /\ ContentLength \in Nat /\ BodyAt \in Nat /\ headerIn \in Nat
      /\ \A i \in 1..ContentLength : In.mem[In.pos + i - 1] = BodyAt + i
  BY HandlerKnown
<1> DEFINE n == ContentLength f == In.pos
           s == [buf |-> headerIn, from |-> f, len |-> n]
           y == IF n = 0 THEN <<>> ELSE <<"pre">>
           z == <<"pre">>
           b == [NoBody EXCEPT !.pre = s, !.bufs = y, !.toWrite = z]
           whole == Bytes(BodyAt, BodyAt + n)
<1>2. WholeBody = IF rconf.only /\ n > 0 THEN Written(b) ELSE b
  BY DEF WholeBody
<1>3. b = [NoBody EXCEPT !.pre = s, !.bufs = y, !.toWrite = z]
  OBVIOUS
<1>4. y \in Seq({"pre", "buf", "file"}) /\ z \in Seq({"pre", "buf", "file"}) /\ <<>> \in Seq(Nat)
  <2>1. <<>> \in Seq({"pre", "buf", "file"}) /\ <<"pre">> \in Seq({"pre", "buf", "file"}) /\ <<>> \in Seq(Nat)
    OBVIOUS
  <2> HIDE DEF n
  <2> QED BY <2>1
<1> HIDE DEF s, y, z, b
<1>5. IsBody(NoBody)
  BY NoBodyIs
<1>6. b = [pre |-> s, inHeader |-> NoBody.inHeader, buf |-> NoBody.buf, cap |-> NoBody.cap, rest |-> NoBody.rest, bufs |-> y,
           toWrite |-> z, file |-> NoBody.file, hasFile |-> NoBody.hasFile]
  BY <1>3, <1>5 DEF IsBody
<1>7. b = [pre |-> s, inHeader |-> FALSE, buf |-> <<>>, cap |-> 0, rest |-> 0, bufs |-> y,
           toWrite |-> z, file |-> <<>>, hasFile |-> FALSE]
  BY <1>6, NoBodyIs
<1>8. s = [buf |-> headerIn, from |-> f, len |-> n] /\ f \in Nat \ {0} /\ n \in Nat
  BY <1>1 DEF s
<1> HIDE DEF f, n
<1>9. /\ b \in Bodies /\ b.pre = s /\ b.pre.buf = headerIn /\ b.pre.from = f /\ b.pre.len = n
      /\ b.inHeader = FALSE /\ b.buf = <<>> /\ b.cap = 0 /\ b.rest = 0 /\ b.bufs = y /\ b.toWrite = z
      /\ b.file = <<>> /\ b.hasFile = FALSE
  <2> DEFINE o == 0
  <2>1. /\ b = [pre |-> s, inHeader |-> FALSE, buf |-> <<>>, cap |-> o, rest |-> o, bufs |-> y,
                toWrite |-> z, file |-> <<>>, hasFile |-> FALSE]
        /\ o \in Nat /\ FALSE \in BOOLEAN
    BY <1>7
  <2> HIDE DEF o
  <2>2. /\ b \in Bodies /\ b.pre = s /\ b.pre.buf = headerIn /\ b.pre.from = f /\ b.pre.len = n
        /\ b.inHeader = FALSE /\ b.buf = <<>> /\ b.cap = o /\ b.rest = o /\ b.bufs = y /\ b.toWrite = z
        /\ b.file = <<>> /\ b.hasFile = FALSE
    BY ZenonT(60), <1>1, <1>4, <1>8, <2>1, BodyMade
  <2> QED BY <2>2 DEF o
<1>10. Contents(b, b.toWrite) = whole
  <2>1. Contents(b, b.toWrite) = ChainOf(Slice(b.pre), b.buf, b.file, b.toWrite)
    BY DEF Contents, Held, ChainOf
  <2>2. Slice(b.pre) = SliceOf(In.mem, f, n)
    BY <1>9 DEF Slice, SliceOf, In
  <2>3. SliceOf(In.mem, f, n) = whole
    BY PrereadIs DEF f, n
  <2> QED BY <1>9, <2>1, <2>2, <2>3, Chained DEF z
<1>11. whole \in Seq(Nat) /\ <<>> \o whole = whole
  <2>1. whole \in Seq(Nat)
    <3> DEFINE w == BodyAt + n
    <3>1. w \in Nat /\ BodyAt <= w
      BY <1>1, <1>8
    <3> HIDE DEF w
    <3>2. Bytes(BodyAt, w) \in Seq(Nat)
      BY <1>1, <3>1, BytesSeq
    <3> QED BY <3>2 DEF w
  <2> QED BY <2>1, ConcatEmptySeq
<1>12. CASE rconf.only /\ n > 0
  <2> DEFINE c == Written(b)
  <2>1. c = [b EXCEPT !.file = @ \o whole, !.hasFile = TRUE]
    BY <1>10 DEF Written
  <2> HIDE DEF c, whole
  <2>2. IsBody(b)
    BY <1>9, BodyKnown DEF IsBody
  <2>3. c = [pre |-> b.pre, inHeader |-> b.inHeader, buf |-> b.buf, cap |-> b.cap, rest |-> b.rest, bufs |-> b.bufs,
             toWrite |-> b.toWrite, file |-> b.file \o whole, hasFile |-> TRUE]
    BY <2>1, <2>2 DEF IsBody
  <2> DEFINE o == 0
  <2>4. /\ c = [pre |-> s, inHeader |-> FALSE, buf |-> <<>>, cap |-> o, rest |-> o, bufs |-> y,
                toWrite |-> z, file |-> whole, hasFile |-> TRUE]
        /\ o \in Nat /\ FALSE \in BOOLEAN /\ TRUE \in BOOLEAN
    BY <1>9, <1>11, <2>3
  <2> HIDE DEF o
  <2>5. /\ c \in Bodies /\ c.pre = s /\ c.pre.buf = headerIn /\ c.pre.from = f /\ c.pre.len = n
        /\ c.inHeader = FALSE /\ c.buf = <<>> /\ c.cap = o /\ c.rest = o /\ c.bufs = y /\ c.toWrite = z
        /\ c.file = whole /\ c.hasFile = TRUE
    BY ZenonT(60), <1>1, <1>4, <1>8, <1>11, <2>4, BodyMade
  <2> QED BY <1>2, <1>12, <2>5 DEF c, y, f, n, whole
<1>13. CASE ~(rconf.only /\ n > 0)
  BY <1>2, <1>9, <1>13 DEF y, f, n
<1> QED BY <1>12, <1>13

\* The position of header_in when a part of the body is taken from it.
LEMMA PartTaken ==
  ASSUME HeadersInv, doing = "handler", buffer' = [buffer EXCEPT ![headerIn].pos = @ + Preread],
         UNCHANGED <<rconf, headerIn>>
  PROVE  buffer'[headerIn].mem = In.mem /\ Size(headerIn)' = Size(headerIn)
<1>1. In.pos + Preread \in Nat \ {0} /\ In.pos + Preread <= In.last
  BY HandlerKnown
<1> DEFINE q == In.pos + Preread
<1>2. buffer' = PosAt(q)
  BY DEF PosAt, In
<1> HIDE DEF q
<1>3. q \in Nat \ {0} /\ q <= In.last
  BY <1>1 DEF q
<1>4. /\ BuffersOK' /\ In'.pos = q /\ In'.last = In.last /\ In'.mem = In.mem
      /\ buffer'[headerIn].pos = q /\ buffer'[headerIn].mem = In.mem
      /\ \A d \in Buffers \ {headerIn} : buffer'[d] = buffer[d]
  BY <1>2, <1>3, PosMoved
<1> QED BY <1>4 DEF Size

\* The whole body is there.
LEMMA BodyAtOnce ==
  ASSUME HeadersInv, doing = "handler", buffer' = [buffer EXCEPT ![headerIn].pos = @ + Preread],
         taken' = taken + Preread, UNCHANGED <<rconf, serving, received, heads>>,
         Preread = ContentLength, rb' = WholeBody, doing' = "body"
  PROVE  HeadersInv' /\ BodyOK' /\ BodyWhole'
<1>1. /\ WholeBody \in Bodies /\ WholeBody.pre.buf = headerIn /\ WholeBody.pre.from = In.pos
      /\ WholeBody.pre.len = ContentLength
      /\ WholeBody.bufs = IF ContentLength = 0 THEN <<>> ELSE <<"pre">>
      /\ rconf.only /\ ContentLength > 0 => WholeBody.file = Bytes(BodyAt, BodyAt + ContentLength)
  BY WholeBodyIs
<1>2. HeadersInv'
  BY <1>1, HeadTaken
<1>3. BodyOK'
  BY DEF BodyOK
<1>4. /\ In.pos \in Nat \ {0} /\ ContentLength = Current.body /\ ContentLength \in Nat /\ BodyAt \in Nat
      /\ \A i \in 1..ContentLength : In.mem[In.pos + i - 1] = BodyAt + i
  BY HandlerKnown
<1>5. BodyAt' = BodyAt /\ Current' = Current /\ rconf' = rconf /\ UNCHANGED headerIn
  BY DEF Before, BytesBefore, BodyAt, Current, wire, heads
<1> DEFINE n == ContentLength whole == Bytes(BodyAt, BodyAt + n)
<1>6. buffer'[headerIn].mem = In.mem
  BY <1>5, PartTaken
<1>7. Slice(rb.pre)' = whole
  <2>1. Slice(rb.pre)' = SliceOf(In.mem, In.pos, n)
    BY <1>1, <1>6 DEF Slice, SliceOf
  <2> QED BY <2>1, PrereadIs
<1>8. Contents(rb, rb.bufs)' = ChainOf(Slice(rb.pre)', rb'.buf, rb'.file, rb'.bufs)
  BY DEF Contents, Held, ChainOf
<1>9. Contents(rb, rb.bufs)' = whole
  <2>1. CASE n = 0
    <3>1. whole = <<>>
      <4>1. Bytes(BodyAt, BodyAt) = <<>>
        <5>1. Bytes(BodyAt, BodyAt) \in Seq(Nat) /\ Len(Bytes(BodyAt, BodyAt)) = BodyAt - BodyAt
          BY <1>4, BytesSeq
        <5>2. BodyAt - BodyAt = 0
          BY <1>4
        <5> QED BY <5>1, <5>2, EmptySeq
      <4>2. BodyAt + n = BodyAt
        BY <1>4, <2>1
      <4> QED BY <4>1, <4>2
    <3> QED BY <1>1, <1>8, <2>1, <3>1, Chained
  <2>2. CASE n # 0
    BY <1>1, <1>7, <1>8, <2>2, Chained
  <2> QED BY <2>1, <2>2
<1>10. Len(rb'.bufs) <= 1
  <2>1. Len(<<>>) = 0 /\ Len(<<"pre">>) = 1
    OBVIOUS
  <2> QED BY <1>1, <2>1
<1>11. rconf.only /\ Current.body > 0 => rb'.file = whole
  BY <1>1, <1>4
<1> HIDE DEF whole
<1>12. BodyWhole'
  BY <1>4, <1>5, <1>9, <1>10, <1>11 DEF BodyWhole, whole
<1> QED BY <1>2, <1>3, <1>12

\* A part of the body came with the header.
LEMMA PrefixedIs ==
  ASSUME HeadersInv, doing = "handler"
  PROVE  Prefixed = [pre |-> [buf |-> headerIn, from |-> In.pos, len |-> Preread], inHeader |-> FALSE, buf |-> <<>>,
                     cap |-> 0, rest |-> ContentLength - Preread, bufs |-> <<>>, toWrite |-> <<>>, file |-> <<>>,
                     hasFile |-> FALSE]
<1> DEFINE s == [buf |-> headerIn, from |-> In.pos, len |-> Preread] r == ContentLength - Preread b == Prefixed
<1>1. b = [NoBody EXCEPT !.pre = s, !.rest = r] /\ IsBody(NoBody)
  BY NoBodyIs DEF Prefixed
<1> HIDE DEF s, r, b
<1>2. b = [pre |-> s, inHeader |-> NoBody.inHeader, buf |-> NoBody.buf, cap |-> NoBody.cap, rest |-> r, bufs |-> NoBody.bufs,
           toWrite |-> NoBody.toWrite, file |-> NoBody.file, hasFile |-> NoBody.hasFile]
  BY <1>1 DEF IsBody
<1>3. b = [pre |-> s, inHeader |-> FALSE, buf |-> <<>>, cap |-> 0, rest |-> r, bufs |-> <<>>, toWrite |-> <<>>, file |-> <<>>,
           hasFile |-> FALSE]
  BY <1>2, NoBodyIs
<1> QED BY <1>3 DEF s, r, b

\* The body when its rest fits into header_in.
LEMMA InHeaderInIs ==
  ASSUME HeadersInv, doing = "handler", Preread < ContentLength, FitsHeaderIn
  PROVE  /\ InHeaderIn \in Bodies /\ InHeaderIn.pre = [buf |-> headerIn, from |-> In.pos, len |-> Preread]
         /\ InHeaderIn.inHeader = TRUE /\ InHeaderIn.rest = ContentLength - Preread /\ InHeaderIn.file = <<>>
         /\ InHeaderIn.bufs = <<"pre">> /\ InHeaderIn.toWrite = <<"pre">> /\ InHeaderIn.hasFile = FALSE
         /\ InHeaderIn.cap \in Nat /\ InHeaderIn.cap >= ContentLength /\ In.pos + InHeaderIn.cap = Size(headerIn) + 1
<1> DEFINE b == InHeaderIn c == Preread + (Size(headerIn) + 1 - In.last) r == ContentLength - Preread z == <<"pre">>
           f == In.pos n == Preread s == [buf |-> headerIn, from |-> f, len |-> n]
<1>1. /\ f \in Nat \ {0} /\ In.last \in Nat /\ Size(headerIn) \in Nat /\ In.last <= Size(headerIn) + 1
      /\ ContentLength \in Nat /\ n \in Nat /\ f + n = In.last /\ headerIn \in Nat
  BY HandlerKnown
<1>2. c \in Nat /\ r \in Nat /\ c >= ContentLength /\ f + c = Size(headerIn) + 1
  <2>1. ContentLength - n <= Size(headerIn) + 1 - In.last
    BY DEF FitsHeaderIn
  <2> DEFINE g == Size(headerIn) l == ContentLength o == In.last
  <2>2. /\ f \in Nat /\ o \in Nat /\ g \in Nat /\ o <= g + 1 /\ l \in Nat /\ n \in Nat /\ f + n = o /\ n < l
        /\ l - n <= g + 1 - o /\ c = n + (g + 1 - o) /\ r = l - n
    BY <1>1, <2>1
  <2> HIDE DEF n, f, g, l, o, c, r
  <2>3. c \in Nat /\ r \in Nat /\ c >= l /\ f + c = g + 1
    BY <2>2
  <2> QED BY <2>3 DEF g, l
<1>3. z \in Seq({"pre", "buf", "file"}) /\ <<>> \in Seq(Nat) /\ TRUE \in BOOLEAN /\ FALSE \in BOOLEAN
  OBVIOUS
<1>4. Prefixed = [pre |-> s, inHeader |-> FALSE, buf |-> <<>>, cap |-> 0, rest |-> r, bufs |-> <<>>, toWrite |-> <<>>,
                  file |-> <<>>, hasFile |-> FALSE]
  BY PrefixedIs
<1>5. b = [Prefixed EXCEPT !.inHeader = TRUE, !.cap = c, !.bufs = z, !.toWrite = z]
  BY DEF InHeaderIn
<1>6. s = [buf |-> headerIn, from |-> f, len |-> n]
  OBVIOUS
<1> HIDE DEF s, r, z, c, b, f, n
<1>7. b = [pre |-> s, inHeader |-> TRUE, buf |-> <<>>, cap |-> c, rest |-> r, bufs |-> z, toWrite |-> z, file |-> <<>>,
           hasFile |-> FALSE]
  BY <1>4, <1>5
<1>8. /\ b \in Bodies /\ b.pre = s /\ b.pre.buf = headerIn /\ b.pre.from = f /\ b.pre.len = n
      /\ b.inHeader = TRUE /\ b.buf = <<>> /\ b.cap = c /\ b.rest = r /\ b.bufs = z /\ b.toWrite = z
      /\ b.file = <<>> /\ b.hasFile = FALSE
  BY <1>1, <1>2, <1>3, <1>6, <1>7, BodyMade
<1> QED BY <1>2, <1>8 DEF b, c, r, z, f, n, s

\* The buffer that the rest gets.
Copied == Fits(ContentLength - Preread) /\ rconf.single /\ Preread > 0

\* The body when its rest gets a buffer of its own.
LEMMA OwnBufferIs ==
  ASSUME HeadersInv, doing = "handler", Preread < ContentLength
  PROVE  /\ OwnBuffer \in Bodies /\ OwnBuffer.pre = [buf |-> headerIn, from |-> In.pos, len |-> Preread]
         /\ OwnBuffer.inHeader = FALSE /\ OwnBuffer.rest = ContentLength - Preread /\ OwnBuffer.file = <<>>
         /\ OwnBuffer.bufs = Chain(Copied) /\ OwnBuffer.toWrite = ToWrite(Chain(Copied)) /\ OwnBuffer.hasFile = FALSE
         /\ OwnBuffer.buf = IF Copied THEN Bytes(BodyAt, BodyAt + Preread) ELSE <<>>
         /\ Len(OwnBuffer.buf) = IF Copied THEN Preread ELSE 0
         /\ OwnBuffer.cap = IF ~Fits(ContentLength - Preread) THEN rconf.size
                            ELSE ContentLength - Preread + IF rconf.single THEN Preread ELSE 0
<1> DEFINE b == OwnBuffer r == ContentLength - Preread f == In.pos n == Preread
           s == [buf |-> headerIn, from |-> f, len |-> n]
           c == IF ~Fits(r) THEN rconf.size ELSE r + IF rconf.single THEN n ELSE 0
           y == Chain(Copied) z == ToWrite(Chain(Copied))
           q == IF Copied THEN Bytes(BodyAt, BodyAt + n) ELSE <<>>
<1>1. /\ f \in Nat \ {0} /\ ContentLength \in Nat /\ n \in Nat /\ headerIn \in Nat /\ BodyAt \in Nat
  BY HandlerKnown
<1>2. rconf.size \in Nat /\ rconf.single \in BOOLEAN
  BY ReaderConstants DEF HeadersInv
<1>3. r \in Nat
  BY <1>1
<1>4. c \in Nat
  <2> HIDE DEF r, n
  <2> QED BY <1>1, <1>2, <1>3
<1>5. y \in Seq({"pre", "buf", "file"}) /\ z \in Seq({"pre", "buf", "file"})
  <2>1. y \in {<<"pre", "buf">>, <<"buf">>}
    BY DEF Chain
  <2>2. z \in {y, Tail(y)} /\ (y = <<"buf">> => z = y)
    <3>1. Len(<<"buf">>) = 1
      OBVIOUS
    <3> HIDE DEF y
    <3>2. z = ToWrite(y)
      BY DEF y
    <3> QED BY <3>1, <3>2 DEF ToWrite
  <2>3. <<"pre", "buf">> \in Seq({"pre", "buf", "file"}) /\ <<"buf">> \in Seq({"pre", "buf", "file"})
        /\ Tail(<<"pre", "buf">>) = <<"buf">>
    OBVIOUS
  <2> HIDE DEF y, z
  <2> QED BY <2>1, <2>2, <2>3
<1>6. q \in Seq(Nat) /\ Len(q) = IF Copied THEN n ELSE 0
  <2> DEFINE w == BodyAt + n
  <2>1. w \in Nat /\ BodyAt <= w /\ w - BodyAt = n
    BY <1>1
  <2> HIDE DEF w, n
  <2>2. Bytes(BodyAt, w) \in Seq(Nat) /\ Len(Bytes(BodyAt, w)) = w - BodyAt
    BY <1>1, <2>1, BytesSeq
  <2>3. <<>> \in Seq(Nat) /\ Len(<<>>) = 0
    OBVIOUS
  <2> QED BY <2>1, <2>2, <2>3 DEF w
<1>7. Prefixed = [pre |-> s, inHeader |-> FALSE, buf |-> <<>>, cap |-> 0, rest |-> r, bufs |-> <<>>, toWrite |-> <<>>,
                  file |-> <<>>, hasFile |-> FALSE]
  BY PrefixedIs
<1>8. b = [Prefixed EXCEPT !.buf = q, !.cap = c, !.bufs = y, !.toWrite = z]
  <2>1. Slice(Prefixed.pre) = Bytes(BodyAt, BodyAt + n)
    <3>1. Prefixed.pre = s
      BY <1>7
    <3>2. Slice(s) = SliceOf(In.mem, In.pos, Preread)
      BY DEF Slice, SliceOf, In
    <3> QED BY <3>1, <3>2, PrereadIs
  <2>2. OwnBuffer = [Prefixed EXCEPT !.buf = IF Copied THEN Slice(Prefixed.pre) ELSE <<>>, !.cap = c, !.bufs = y, !.toWrite = z]
    BY DEF OwnBuffer, Copied
  <2> QED BY <2>1, <2>2
<1>9. s = [buf |-> headerIn, from |-> f, len |-> n] /\ FALSE \in BOOLEAN
  OBVIOUS
<1> HIDE DEF s, r, y, z, c, q, b, f, n
<1>10. b = [pre |-> s, inHeader |-> FALSE, buf |-> q, cap |-> c, rest |-> r, bufs |-> y, toWrite |-> z, file |-> <<>>,
           hasFile |-> FALSE]
  BY <1>7, <1>8
<1>11. <<>> \in Seq(Nat)
  OBVIOUS
<1>12. /\ b \in Bodies /\ b.pre = s /\ b.pre.buf = headerIn /\ b.pre.from = f /\ b.pre.len = n
      /\ b.inHeader = FALSE /\ b.buf = q /\ b.cap = c /\ b.rest = r /\ b.bufs = y /\ b.toWrite = z
      /\ b.file = <<>> /\ b.hasFile = FALSE
  BY <1>1, <1>3, <1>4, <1>5, <1>6, <1>9, <1>10, <1>11, BodyMade
<1> QED BY <1>6, <1>12 DEF b, c, r, y, z, q, f, n, s

\* What of a body is in header_in when the rest of it is read.
LEMMA PartRead ==
  ASSUME HeadersInv, doing = "handler", buffer' = [buffer EXCEPT ![headerIn].pos = @ + Preread],
         UNCHANGED <<rconf, serving, heads>>, rb'.pre = [buf |-> headerIn, from |-> In.pos, len |-> Preread]
  PROVE  /\ rb'.pre.buf = headerIn' /\ rb'.pre.from = In.pos /\ rb'.pre.len = Preread
         /\ Slice(rb.pre)' = Bytes(BodyAt', BodyAt' + rb'.pre.len)
         /\ rb'.pre.from + rb'.pre.len <= Size(headerIn)' + 1
         /\ \A l \in lines' : l.buf = headerIn' => l.from + l.len <= rb'.pre.from
         /\ BodyAt' = BodyAt /\ Current' = Current /\ Size(headerIn)' = Size(headerIn)
<1>1. BodyAt' = BodyAt /\ Current' = Current /\ UNCHANGED <<headerIn, lines, rconf>>
  BY DEF Before, BytesBefore, BodyAt, Current, wire, heads
<1>2. buffer'[headerIn].mem = In.mem /\ Size(headerIn)' = Size(headerIn)
  BY <1>1, PartTaken
<1>3. /\ In.pos \in Nat \ {0} /\ In.last \in Nat /\ Size(headerIn) \in Nat /\ In.last <= Size(headerIn) + 1
      /\ Preread \in Nat /\ In.pos + Preread <= In.last
  BY HandlerKnown
<1>4. rb'.pre.buf = headerIn /\ rb'.pre.from = In.pos /\ rb'.pre.len = Preread
  OBVIOUS
<1>5. Slice(rb.pre)' = Bytes(BodyAt, BodyAt + Preread)
  <2>1. Slice(rb.pre)' = SliceOf(In.mem, In.pos, Preread)
    BY <1>2, <1>4 DEF Slice, SliceOf
  <2> QED BY <2>1, PrereadIs
<1>6. In.pos + Preread <= Size(headerIn) + 1
  BY <1>3
<1>7. \A l \in lines : l.buf = headerIn => l.from + l.len <= In.pos
  BY DEF HeadersInv, LinesOK, In
<1> QED BY <1>1, <1>2, <1>4, <1>5, <1>6, <1>7

\* The rest is read into header_in.
LEMMA RestInHeaderIn ==
  ASSUME HeadersInv, doing = "handler", buffer' = [buffer EXCEPT ![headerIn].pos = @ + Preread],
         taken' = taken + Preread, UNCHANGED <<rconf, serving, received, heads>>,
         Preread < ContentLength, FitsHeaderIn, rb' = InHeaderIn, doing' = "reading"
  PROVE  HeadersInv' /\ BodyOK'
<1>1. /\ rb' \in Bodies /\ rb'.pre = [buf |-> headerIn, from |-> In.pos, len |-> Preread]
      /\ rb'.inHeader = TRUE /\ rb'.rest = ContentLength - Preread /\ rb'.file = <<>>
      /\ rb'.bufs = <<"pre">> /\ rb'.toWrite = <<"pre">> /\ rb'.hasFile = FALSE
      /\ rb'.cap \in Nat /\ rb'.cap >= ContentLength /\ In.pos + rb'.cap = Size(headerIn) + 1
  BY InHeaderInIs
<1>2. HeadersInv'
  BY <1>1, HeadTaken
<1>3. /\ rb'.pre.buf = headerIn' /\ rb'.pre.from = In.pos /\ rb'.pre.len = Preread
      /\ Slice(rb.pre)' = Bytes(BodyAt', BodyAt' + rb'.pre.len)
      /\ rb'.pre.from + rb'.pre.len <= Size(headerIn)' + 1
      /\ \A l \in lines' : l.buf = headerIn' => l.from + l.len <= rb'.pre.from
      /\ BodyAt' = BodyAt /\ Current' = Current /\ Size(headerIn)' = Size(headerIn)
  BY <1>1, PartRead
<1>4. ContentLength = Current.body /\ ContentLength \in Nat /\ Preread \in Nat
  BY HandlerKnown
<1>5. rb'.pre.len = Current'.body - rb'.rest /\ Current'.body <= rb'.cap
  BY <1>1, <1>3, <1>4
<1>6. HeaderOK'
  BY <1>1, <1>3, <1>5 DEF HeaderOK
<1>7. BodyOK'
  BY <1>1, <1>3, <1>6 DEF BodyOK
<1> QED BY <1>2, <1>7

\* Or into a buffer of its own.
LEMMA RestInOwn ==
  ASSUME HeadersInv, doing = "handler", buffer' = [buffer EXCEPT ![headerIn].pos = @ + Preread],
         taken' = taken + Preread, UNCHANGED <<rconf, serving, received, heads>>,
         Preread < ContentLength, rb' = OwnBuffer, doing' = "reading"
  PROVE  HeadersInv' /\ BodyOK'
<1>1. /\ rb' \in Bodies /\ rb'.pre = [buf |-> headerIn, from |-> In.pos, len |-> Preread]
      /\ rb'.inHeader = FALSE /\ rb'.rest = ContentLength - Preread /\ rb'.file = <<>>
      /\ rb'.bufs = Chain(Copied) /\ rb'.toWrite = ToWrite(Chain(Copied)) /\ rb'.hasFile = FALSE
      /\ rb'.buf = IF Copied THEN Bytes(BodyAt, BodyAt + Preread) ELSE <<>>
      /\ Len(rb'.buf) = IF Copied THEN Preread ELSE 0
      /\ rb'.cap = IF ~Fits(ContentLength - Preread) THEN rconf.size
                   ELSE ContentLength - Preread + IF rconf.single THEN Preread ELSE 0
  BY OwnBufferIs
<1>2. HeadersInv'
  BY <1>1, HeadTaken
<1>3. /\ rb'.pre.buf = headerIn' /\ rb'.pre.from = In.pos /\ rb'.pre.len = Preread
      /\ Slice(rb.pre)' = Bytes(BodyAt', BodyAt' + rb'.pre.len)
      /\ rb'.pre.from + rb'.pre.len <= Size(headerIn)' + 1
      /\ \A l \in lines' : l.buf = headerIn' => l.from + l.len <= rb'.pre.from
      /\ BodyAt' = BodyAt /\ Current' = Current /\ Size(headerIn)' = Size(headerIn)
  BY <1>1, PartRead
<1>4. ContentLength = Current.body /\ ContentLength \in Nat /\ Preread \in Nat /\ BodyAt \in Nat /\ taken' = BodyAt + Preread
  BY HandlerKnown
<1> DEFINE n == Preread r == ContentLength - Preread
<1>5. n \in Nat /\ r \in Nat \ {0} /\ rconf.size \in Nat \ {0} /\ rconf.single \in BOOLEAN /\ rconf.only \in BOOLEAN
  <2>1. r \in Nat \ {0}
    BY <1>4
  <2> QED BY <1>4, <2>1, ReaderConstants DEF HeadersInv
<1>6. rb'.rest = r /\ rb'.pre.len = n /\ rb'.pre.len = Current'.body - rb'.rest
  BY <1>1, <1>3, <1>4
<1>7. /\ Chain(Copied) = IF n > 0 /\ ~Copied THEN <<"pre", "buf">> ELSE <<"buf">>
      /\ Copied <=> Fits(r) /\ rconf.single /\ n > 0
  BY DEF Chain, Copied
<1>8. rb'.cap = IF ~Fits(r) THEN rconf.size ELSE r + IF rconf.single THEN n ELSE 0
  BY <1>1
<1>9. rb'.buf = (IF Copied THEN Bytes(BodyAt, BodyAt + n) ELSE <<>>) /\ Len(rb'.buf) = IF Copied THEN n ELSE 0
  BY <1>1
<1>10. <<"pre", "buf">> # <<"buf">> /\ Len(<<"pre", "buf">>) = 2 /\ Len(<<"buf">>) = 1 /\ Tail(<<"pre", "buf">>) = <<"buf">>
  OBVIOUS
<1> HIDE DEF n, r
<1>11. Split' <=> n > 0 /\ ~Copied
  BY <1>1, <1>7, <1>10 DEF Split
<1>12. Split' \/ rb'.bufs = <<"buf">>
  BY <1>1, <1>7, <1>11
<1>13. Len(rb'.buf) <= rb'.cap
  BY <1>5, <1>7, <1>8, <1>9
<1>14. rb'.pre.len <= Current'.body - rb'.rest
  <2>1. rb'.pre.len \in Nat
    BY <1>5, <1>6
  <2> QED BY <1>6, <2>1
<1>15. rb'.buf = Bytes(OwnFirst', taken')
  <2>1. OwnFirst' = IF Split' THEN BodyAt + n ELSE BodyAt
    BY <1>1, <1>3, <1>6 DEF OwnFirst
  <2>2. taken' = BodyAt + n
    BY <1>4 DEF n
  <2>3. \A k \in Nat : Bytes(k, k) = <<>>
    <3> SUFFICES ASSUME NEW k \in Nat PROVE Bytes(k, k) = <<>>
      OBVIOUS
    <3>1. Bytes(k, k) \in Seq(Nat) /\ Len(Bytes(k, k)) = k - k
      BY BytesSeq
    <3>2. k - k = 0
      OBVIOUS
    <3> QED BY <3>1, <3>2, EmptySeq
  <2>4. CASE Copied
    BY <1>9, <1>11, <2>1, <2>2, <2>4
  <2>5. CASE ~Copied /\ n > 0
    <3>1. BodyAt + n \in Nat
      BY <1>4, <1>5
    <3> QED BY <1>9, <1>11, <2>1, <2>2, <2>3, <2>5, <3>1
  <2>6. CASE ~Copied /\ ~(n > 0)
    <3>1. BodyAt + n = BodyAt
      BY <1>4, <1>5, <2>6
    <3> QED BY <1>4, <1>9, <1>11, <2>1, <2>2, <2>3, <2>6, <3>1
  <2> QED BY <2>4, <2>5, <2>6
<1>16. rb'.toWrite = IF Split' /\ ~Together' THEN <<"buf">> ELSE rb'.bufs
  <2>1. Together' = (rconf.only \/ rconf.single)
    BY DEF Together
  <2>2. CASE Split'
    <3>1. Chain(Copied) = <<"pre", "buf">>
      BY <1>7, <1>11, <2>2
    <3>2. ToWrite(<<"pre", "buf">>) = IF rconf.only \/ rconf.single THEN <<"pre", "buf">> ELSE <<"buf">>
      BY <1>10 DEF ToWrite
    <3>3. rb'.bufs = <<"pre", "buf">> /\ rb'.toWrite = ToWrite(<<"pre", "buf">>)
      BY <1>1, <3>1
    <3> QED BY <2>1, <2>2, <3>2, <3>3
  <2>3. CASE ~Split'
    <3>1. Chain(Copied) = <<"buf">>
      BY <1>7, <1>11, <2>3
    <3>2. ToWrite(<<"buf">>) = <<"buf">>
      BY <1>10 DEF ToWrite
    <3> QED BY <1>1, <2>3, <3>1, <3>2
  <2> QED BY <2>2, <2>3
<1>17. QuarterBuffer' /\ rconf'.single /\ Split' => rb'.rest + Len(rb'.buf) > rb'.cap
  <2> SUFFICES ASSUME QuarterBuffer', rconf.single, Split' PROVE rb'.rest + Len(rb'.buf) > rb'.cap
    OBVIOUS
  <2>1. rconf.size >= 4
    BY DEF QuarterBuffer
  <2>2. ~Copied /\ ~Fits(r)
    BY <1>7, <1>11
  <2>3. ~(r < rconf.size + rconf.size \div 4)
    BY <2>2 DEF Fits
  <2> DEFINE size == rconf.size d == size \div 4
  <2>4. d \in Nat /\ d >= 1
    <3>1. size \in Nat /\ size >= 4
      BY <1>5, <2>1
    <3> HIDE DEF size
    <3> QED BY <3>1
  <2>5. ~(r < size + d) /\ size \in Nat
    BY <1>5, <2>3
  <2> HIDE DEF size, d
  <2>6. r > size
    BY <1>5, <2>4, <2>5
  <2>7. rb'.cap = size /\ Len(rb'.buf) = 0
    BY <1>8, <1>9, <2>2 DEF size
  <2> QED BY <1>5, <1>6, <2>6, <2>7
<1>18. OwnBufferOK'
  BY <1>1, <1>12, <1>13, <1>14, <1>15, <1>16, <1>17 DEF OwnBufferOK
<1>19. BodyOK'
  BY <1>1, <1>3, <1>18 DEF BodyOK
<1> QED BY <1>2, <1>19

\* A body of which a part has still to come.
LEMMA ReadingKnown ==
  ASSUME HeadersInv, BodyOK, doing = "reading"
  PROVE  /\ rb \in Bodies /\ IsBody(rb) /\ taken \in Nat /\ received = taken /\ BodyAt \in Nat /\ Current.body \in Nat
         /\ rb.rest \in Nat /\ rb.rest <= Current.body /\ taken = BodyAt + Current.body - rb.rest
         /\ rb.pre.buf = headerIn /\ Slice(rb.pre) = Bytes(BodyAt, BodyAt + rb.pre.len)
         /\ rb.pre.from + rb.pre.len <= Size(headerIn) + 1
         /\ \A l \in lines : l.buf = headerIn => l.from + l.len <= rb.pre.from
         /\ IF rb.inHeader THEN HeaderOK ELSE OwnBufferOK
         /\ headerIn \in Buffers /\ Size(headerIn) \in Nat
<1>1. ReaderTypes /\ StreamOK /\ PlaceOK
  BY DEF HeadersInv
<1>2. /\ rb \in Bodies /\ taken \in Nat /\ headerIn \in Buffers /\ received = taken + In.last - In.pos /\ In.pos = In.last
      /\ rb.rest \in 0..Current.body /\ taken = BodyAt + Current.body - rb.rest /\ serving \in DOMAIN rconf.requests
  BY <1>1 DEF ReaderTypes, StreamOK, PlaceOK
<1>3. BodyAt \in Nat /\ Current.body \in Nat
  BY <1>1, <1>2, RequestLies
<1>4. In.pos \in Nat /\ Size(headerIn) \in Nat
  BY InKnown
<1>5. received = taken
  BY <1>2, <1>4
<1>6. IsBody(rb) /\ rb.rest \in Nat
  BY <1>2, BodyKnown DEF IsBody
<1>7. rb.rest <= Current.body
  BY <1>2, <1>3
<1> QED BY <1>2, <1>3, <1>4, <1>5, <1>6, <1>7 DEF BodyOK

\* What the temporary file has when the buffers were written to it.
WrittenFirst == IF Split /\ ~Together THEN BodyAt + rb.pre.len ELSE BodyAt

\* With what its buffers hold, the file has all that is taken from there on.
LEMMA OwnWritten ==
  ASSUME HeadersInv, BodyOK, doing = "reading", ~rb.inHeader
  PROVE  /\ rb.file \o Contents(rb, rb.toWrite) = Bytes(WrittenFirst, taken)
         /\ WrittenFirst \in Nat /\ WrittenFirst <= taken
<1>1. /\ rb \in Bodies /\ taken \in Nat /\ BodyAt \in Nat /\ Current.body \in Nat /\ OwnBufferOK
      /\ rb.rest \in Nat /\ taken = BodyAt + Current.body - rb.rest
      /\ Slice(rb.pre) = Bytes(BodyAt, BodyAt + rb.pre.len)
  BY ReadingKnown
<1> DEFINE n == rb.pre.len u == BodyAt + n
<1>2. n \in Nat /\ rb.buf \in Seq(Nat) /\ rb.file \in Seq(Nat)
  BY <1>1, BodyKnown
<1>3. u \in Nat /\ BodyAt <= u /\ u <= taken /\ BodyAt <= taken
  <2>1. n <= Current.body - rb.rest
    BY <1>1 DEF OwnBufferOK
  <2> HIDE DEF n
  <2> QED BY <1>1, <1>2, <2>1
<1>4. Contents(rb, rb.toWrite) = ChainOf(Slice(rb.pre), rb.buf, rb.file, rb.toWrite)
  BY DEF Contents, Held, ChainOf
<1>5. Slice(rb.pre) = Bytes(BodyAt, u)
  BY <1>1
<1>6. WrittenFirst = IF Split /\ ~Together THEN u ELSE BodyAt
  BY DEF WrittenFirst
<1>7. OwnFirst = IF Split /\ ~(rb.hasFile /\ Together) THEN u ELSE BodyAt
  BY DEF OwnFirst
<1> HIDE DEF u, n
<1>8. WrittenFirst \in Nat /\ WrittenFirst <= taken
  BY <1>1, <1>3, <1>6
<1>9. CASE ~rb.hasFile
  <2>1. /\ rb.file = <<>> /\ rb.buf = Bytes(OwnFirst, taken) /\ OwnFirst = IF Split THEN u ELSE BodyAt
        /\ rb.toWrite = IF Split /\ ~Together THEN <<"buf">> ELSE rb.bufs
        /\ rb.bufs = IF Split THEN <<"pre", "buf">> ELSE <<"buf">>
    BY <1>1, <1>7, <1>9 DEF OwnBufferOK, Split
  <2>2. Contents(rb, rb.toWrite) = Bytes(WrittenFirst, taken)
    <3>1. CASE Split /\ ~Together
      BY <1>4, <1>6, <2>1, <3>1, Chained
    <3>2. CASE Split /\ Together
      <4>1. Contents(rb, rb.toWrite) = Bytes(BodyAt, u) \o Bytes(u, taken)
        BY <1>4, <1>5, <2>1, <3>2, Chained
      <4>2. Bytes(BodyAt, u) \o Bytes(u, taken) = Bytes(BodyAt, taken)
        BY <1>1, <1>3, BytesJoined
      <4> QED BY <1>6, <3>2, <4>1, <4>2
    <3>3. CASE ~Split
      BY <1>4, <1>6, <2>1, <3>3, Chained
    <3> QED BY <3>1, <3>2, <3>3
  <2>3. Bytes(WrittenFirst, taken) \in Seq(Nat)
    BY <1>1, <1>8, BytesSeq
  <2>4. <<>> \o Bytes(WrittenFirst, taken) = Bytes(WrittenFirst, taken)
    BY <2>3, ConcatEmptySeq
  <2> QED BY <1>8, <2>1, <2>2, <2>4
<1>10. CASE rb.hasFile
  <2>1. rb.toWrite = <<"buf">> /\ \E m \in OwnFirst..taken : rb.file = Bytes(OwnFirst, m) /\ rb.buf = Bytes(m, taken)
    BY <1>1, <1>10 DEF OwnBufferOK
  <2>2. OwnFirst = WrittenFirst
    BY <1>6, <1>7, <1>10
  <2>3. PICK m \in OwnFirst..taken : rb.file = Bytes(OwnFirst, m) /\ rb.buf = Bytes(m, taken)
    BY <2>1
  <2>4. Contents(rb, rb.toWrite) = rb.buf
    BY <1>4, <2>1, Chained
  <2> DEFINE f == WrittenFirst
  <2>5. f \in Nat /\ m \in Nat /\ f <= m /\ m <= taken /\ rb.file = Bytes(f, m)
    <3>1. m \in f..taken /\ rb.file = Bytes(f, m) /\ f \in Nat
      BY <1>8, <2>2, <2>3
    <3> HIDE DEF f
    <3> QED BY <1>1, <3>1
  <2> HIDE DEF f
  <2>6. Bytes(f, m) \o Bytes(m, taken) = Bytes(f, taken)
    BY <1>1, <2>5, BytesJoined
  <2> QED BY <1>8, <2>3, <2>4, <2>5, <2>6 DEF f
<1> QED BY <1>9, <1>10

\* A full buffer goes to the temporary file.
LEMMA BufferWritten ==
  ASSUME HeadersInv, BodyOK, WriteFull
  PROVE  HeadersInv' /\ BodyOK'
<1>1. /\ doing = "reading" /\ rb.rest > 0 /\ Fill = rb.cap /\ doing' = "reading"
      /\ rb' = [Written(rb) EXCEPT !.toWrite = IF Len(rb.bufs) > 1 THEN Tail(rb.bufs) ELSE rb.bufs, !.buf = <<>>]
      /\ UNCHANGED <<rconf, doing, serving, received, taken, buffer, heads>>
  BY DEF WriteFull
<1>2. /\ rb \in Bodies /\ IsBody(rb) /\ taken \in Nat /\ BodyAt \in Nat /\ Current.body \in Nat
      /\ rb.rest \in Nat /\ rb.rest <= Current.body /\ taken = BodyAt + Current.body - rb.rest
      /\ rb.pre.buf = headerIn /\ Slice(rb.pre) = Bytes(BodyAt, BodyAt + rb.pre.len)
      /\ rb.pre.from + rb.pre.len <= Size(headerIn) + 1
      /\ \A l \in lines : l.buf = headerIn => l.from + l.len <= rb.pre.from
      /\ IF rb.inHeader THEN HeaderOK ELSE OwnBufferOK
  BY <1>1, ReadingKnown
<1>3. /\ rb.pre = [buf |-> rb.pre.buf, from |-> rb.pre.from, len |-> rb.pre.len]
      /\ rb.pre.buf \in Nat /\ rb.pre.from \in Nat \ {0} /\ rb.pre.len \in Nat
      /\ rb.inHeader \in BOOLEAN /\ rb.cap \in Nat
      /\ rb.bufs \in Seq({"pre", "buf", "file"})
  BY <1>2, BodyKnown
<1>4. ~rb.inHeader
  <2> SUFFICES ASSUME rb.inHeader PROVE FALSE
    OBVIOUS
  <2>1. rb.pre.len = rb.cap /\ rb.pre.len = Current.body - rb.rest /\ Current.body <= rb.cap
    BY <1>1, <1>2 DEF Fill, HeaderOK
  <2> QED BY <1>1, <1>2, <1>3, <2>1
<1>5. OwnBufferOK
  BY <1>2, <1>4
<1> DEFINE file == Bytes(WrittenFirst, taken)
<1>6. rb.file \o Contents(rb, rb.toWrite) = file /\ WrittenFirst \in Nat /\ WrittenFirst <= taken
  BY <1>1, <1>4, OwnWritten
<1>7. file \in Seq(Nat)
  BY <1>2, <1>6, BytesSeq
<1> DEFINE w == IF Len(rb.bufs) > 1 THEN Tail(rb.bufs) ELSE rb.bufs
<1>8. w = <<"buf">> /\ w \in Seq({"pre", "buf", "file"})
  <2>1. rb.bufs = <<"pre", "buf">> \/ rb.bufs = <<"buf">>
    BY <1>5 DEF OwnBufferOK, Split
  <2>2. /\ Len(<<"pre", "buf">>) = 2 /\ Len(<<"buf">>) = 1 /\ Tail(<<"pre", "buf">>) = <<"buf">>
        /\ <<"buf">> \in Seq({"pre", "buf", "file"})
    OBVIOUS
  <2>3. \A q : q = <<"pre", "buf">> \/ q = <<"buf">> => (IF Len(q) > 1 THEN Tail(q) ELSE q) = <<"buf">>
    <3> DEFINE V(q) == IF Len(q) > 1 THEN Tail(q) ELSE q
    <3>1. V(<<"pre", "buf">>) = <<"buf">> /\ V(<<"buf">>) = <<"buf">>
      BY <2>2
    <3> HIDE DEF V
    <3>2. \A q : q = <<"pre", "buf">> \/ q = <<"buf">> => V(q) = <<"buf">>
      BY <3>1
    <3> QED BY <3>2 DEF V
  <2>4. w = <<"buf">>
    BY <2>1, <2>3
  <2> HIDE DEF w
  <2> QED BY <2>2, <2>4
<1>9. rb' = [pre |-> rb.pre, inHeader |-> rb.inHeader, buf |-> <<>>, cap |-> rb.cap, rest |-> rb.rest, bufs |-> rb.bufs,
             toWrite |-> w, file |-> file, hasFile |-> TRUE]
  <2> DEFINE c == Written(rb) t == Contents(rb, rb.toWrite)
  <2>1. c = [rb EXCEPT !.file = @ \o t, !.hasFile = TRUE]
    BY DEF Written
  <2>2. rb' = [c EXCEPT !.toWrite = w, !.buf = <<>>]
    BY <1>1
  <2> HIDE DEF c, t, w
  <2>3. c = [pre |-> rb.pre, inHeader |-> rb.inHeader, buf |-> rb.buf, cap |-> rb.cap, rest |-> rb.rest, bufs |-> rb.bufs,
             toWrite |-> rb.toWrite, file |-> rb.file \o t, hasFile |-> TRUE]
    BY <1>2, <2>1 DEF IsBody
  <2>4. rb' = [pre |-> rb.pre, inHeader |-> rb.inHeader, buf |-> <<>>, cap |-> rb.cap, rest |-> rb.rest, bufs |-> rb.bufs,
               toWrite |-> w, file |-> rb.file \o t, hasFile |-> TRUE]
    BY <2>2, <2>3
  <2> QED BY <1>6, <2>4 DEF t
<1> DEFINE s == rb.pre i == rb.inHeader k == rb.cap r == rb.rest y == rb.bufs b == rb.pre.buf f == rb.pre.from l == rb.pre.len
           e == <<>>
<1>10. /\ s = [buf |-> b, from |-> f, len |-> l] /\ b \in Nat /\ f \in Nat \ {0} /\ l \in Nat /\ i \in BOOLEAN /\ k \in Nat
       /\ r \in Nat /\ y \in Seq({"pre", "buf", "file"}) /\ e \in Seq(Nat) /\ TRUE \in BOOLEAN
       /\ rb' = [pre |-> s, inHeader |-> i, buf |-> e, cap |-> k, rest |-> r, bufs |-> y, toWrite |-> w, file |-> file,
                 hasFile |-> TRUE]
  BY <1>2, <1>3, <1>9
<1> DEFINE c == rb'
<1> HIDE DEF c, s, i, k, r, y, b, f, l, w, file, e
<1>11. /\ rb' \in Bodies /\ rb'.pre = s /\ rb'.pre.buf = b /\ rb'.pre.from = f /\ rb'.pre.len = l
       /\ rb'.inHeader = i /\ rb'.buf = e /\ rb'.cap = k /\ rb'.rest = r /\ rb'.bufs = y /\ rb'.toWrite = w
       /\ rb'.file = file /\ rb'.hasFile = TRUE
  <2>1. /\ s = [buf |-> b, from |-> f, len |-> l] /\ b \in Nat /\ f \in Nat \ {0} /\ l \in Nat /\ i \in BOOLEAN /\ k \in Nat
        /\ r \in Nat /\ y \in Seq({"pre", "buf", "file"}) /\ e \in Seq(Nat) /\ TRUE \in BOOLEAN
        /\ c = [pre |-> s, inHeader |-> i, buf |-> e, cap |-> k, rest |-> r, bufs |-> y, toWrite |-> w, file |-> file,
                hasFile |-> TRUE]
        /\ w \in Seq({"pre", "buf", "file"}) /\ file \in Seq(Nat)
    BY <1>7, <1>8, <1>10 DEF c
  <2>2. /\ c \in Bodies /\ c.pre = s /\ c.pre.buf = b /\ c.pre.from = f /\ c.pre.len = l
        /\ c.inHeader = i /\ c.buf = e /\ c.cap = k /\ c.rest = r /\ c.bufs = y /\ c.toWrite = w
        /\ c.file = file /\ c.hasFile = TRUE
    BY ZenonT(60), <2>1, BodyMade
  <2> QED BY <2>2 DEF c
<1>12. /\ rb' \in Bodies /\ rb'.pre = rb.pre /\ rb'.inHeader = rb.inHeader /\ rb'.buf = <<>> /\ rb'.cap = rb.cap
       /\ rb'.rest = rb.rest /\ rb'.bufs = rb.bufs /\ rb'.toWrite = <<"buf">> /\ rb'.file = file /\ rb'.hasFile = TRUE
  BY <1>8, <1>11 DEF s, i, k, r, y, e
<1>13. HeadersInv'
  BY <1>1, <1>12, HeadStill
<1>14. BodyAt' = BodyAt /\ Current' = Current /\ UNCHANGED <<headerIn, lines, rconf, taken>>
  BY <1>1 DEF Before, BytesBefore, BodyAt, Current, wire, heads
<1>15. Slice(rb.pre)' = Slice(rb.pre) /\ Size(headerIn)' = Size(headerIn)
  BY <1>1, <1>12, <1>14 DEF Slice, Size
<1>16. OwnBufferOK'
  <2>1. Split' = Split /\ Together' = Together
    BY <1>1, <1>12 DEF Split, Together
  <2>2. OwnFirst' = WrittenFirst
    BY <1>12, <1>14, <2>1 DEF OwnFirst, WrittenFirst
  <2>3. rb'.file = Bytes(OwnFirst', taken') /\ rb'.buf = Bytes(taken', taken')
    <3>0. taken \in Nat /\ taken <= taken
      BY <1>2
    <3>1. Bytes(taken, taken) \in Seq(Nat) /\ Len(Bytes(taken, taken)) = taken - taken
      BY <3>0, BytesSeq
    <3>2. taken - taken = 0
      BY <3>0
    <3>3. Bytes(taken, taken) = <<>>
      BY <3>1, <3>2, EmptySeq
    <3> QED BY <1>1, <1>12, <2>2, <3>3 DEF file
  <2>4. taken' \in OwnFirst'..taken'
    BY <1>1, <1>2, <1>6, <2>2
  <2>5. Len(rb'.buf) <= rb'.cap
    <3>1. Len(<<>>) = 0
      OBVIOUS
    <3> QED BY <1>3, <1>12, <3>1
  <2> QED BY <1>5, <1>12, <1>14, <2>1, <2>3, <2>4, <2>5 DEF OwnBufferOK
<1>17. BodyOK'
  BY <1>2, <1>4, <1>12, <1>14, <1>15, <1>16 DEF BodyOK
<1> QED BY <1>13, <1>17

\* How many bytes of the body may come.
LEMMA BytesCome ==
  ASSUME HeadersInv, BodyOK, NEW n \in Nat, RecvBody(n)
  PROVE  /\ doing = "reading" /\ n \in Nat \ {0} /\ n <= rb.rest /\ n <= rb.cap - Fill /\ received + n <= Len(wire)
         /\ Fill \in Nat /\ rb.cap \in Nat /\ rb.rest \in Nat /\ Len(wire) \in Nat
<1>1. doing = "reading" /\ n \in Available(SmallerOf(rb.rest, rb.cap - Fill)) /\ Fill < rb.cap
  BY DEF RecvBody
<1>2. rb \in Bodies /\ rb.rest \in Nat /\ taken \in Nat /\ received = taken
  BY <1>1, ReadingKnown
<1>3. rb.cap \in Nat /\ rb.pre.len \in Nat /\ rb.buf \in Seq(Nat) /\ rb.inHeader \in BOOLEAN
  BY <1>2, BodyKnown
<1>4. Fill \in Nat
  <2>1. Len(rb.buf) \in Nat
    BY <1>3, LenProperties
  <2> QED BY <1>3, <2>1 DEF Fill
<1>5. Len(wire) \in Nat
  BY ReaderConstants DEF HeadersInv
<1> DEFINE room == SmallerOf(rb.rest, rb.cap - Fill) left == Len(wire) - received
<1>6. room \in Int /\ room <= rb.rest /\ room <= rb.cap - Fill /\ left \in Int
  BY <1>2, <1>3, <1>4, <1>5 DEF SmallerOf
<1>7. n \in 1..(IF room < left THEN room ELSE left)
  BY <1>1 DEF Available
<1>8. n >= 1 /\ n <= room /\ n <= left
  <2> HIDE DEF room, left
  <2> QED BY <1>6, <1>7
<1>9. n <= rb.rest /\ n <= rb.cap - Fill
  <2> HIDE DEF room
  <2> QED BY <1>2, <1>3, <1>4, <1>6, <1>8
<1>10. received + n <= Len(wire)
  BY <1>2, <1>5, <1>8
<1> QED BY <1>1, <1>2, <1>3, <1>4, <1>5, <1>8, <1>9, <1>10

\* The memory of header_in with n more bytes of the body.
GrownMem(n) ==
  [i \in 1..Size(headerIn) |->
     IF i \in (rb.pre.from + Fill)..(rb.pre.from + Fill + n - 1)
     THEN received + i - (rb.pre.from + Fill) + 1 ELSE In.mem[i]]
MemAt(m) == [buffer EXCEPT ![headerIn].mem = m]

\* Only the bytes in header_in change.
LEMMA MemChanged ==
  ASSUME HeadersInv, NEW m \in [1..Size(headerIn) -> Nat], buffer' = MemAt(m), UNCHANGED <<rconf, headerIn>>
  PROVE  /\ buffer' \in [Buffers -> Chunks]
         /\ \A d \in Buffers : ChunkOK(buffer'[d], d) /\ buffer'[d].pos = buffer[d].pos /\ buffer'[d].last = buffer[d].last
         /\ buffer'[headerIn].mem = m
         /\ \A d \in Buffers \ {headerIn} : buffer'[d] = buffer[d]
<1>1. /\ headerIn \in Buffers /\ In.pos \in Nat \ {0} /\ In.last \in Nat \ {0} /\ In.pos <= In.last
      /\ In.last <= Size(headerIn) + 1 /\ ReaderTypes /\ BuffersOK
      /\ In = [mem |-> In.mem, pos |-> In.pos, last |-> In.last]
  BY InKnown DEF HeadersInv
<1> DEFINE c == In p == c.pos l == c.last h == [mem |-> m, pos |-> p, last |-> l]
<1>2. buffer' = [buffer EXCEPT ![headerIn] = h]
  <2>1. MemAt(m) = [buffer EXCEPT ![headerIn] = [c EXCEPT !.mem = m]]
    BY DEF MemAt, In
  <2>2. [c EXCEPT !.mem = m] = h
    BY <1>1
  <2> QED BY <2>1, <2>2
<1> HIDE DEF p, l
<1>3. p \in Nat \ {0} /\ l \in Nat \ {0} /\ p <= l /\ l <= Size(headerIn) + 1
  BY <1>1 DEF p, l
<1>4. h \in Chunks /\ ChunkOK(h, headerIn) /\ h.mem = m /\ h.pos = p /\ h.last = l
  BY <1>1, <1>3, ChunkMade
<1> HIDE DEF h
<1>5. /\ buffer' \in [Buffers -> Chunks] /\ buffer'[headerIn] = h
      /\ \A d \in Buffers \ {headerIn} : buffer'[d] = buffer[d]
  BY <1>1, <1>2, <1>4 DEF BuffersOK
<1>6. \A d \in Buffers : ChunkOK(buffer'[d], d)
  BY <1>1, <1>4, <1>5 DEF BuffersOK
<1>7. \A d \in Buffers : buffer'[d].pos = buffer[d].pos /\ buffer'[d].last = buffer[d].last
  BY <1>4, <1>5 DEF p, l, In
<1> QED BY <1>4, <1>5, <1>6, <1>7

\* Bytes of the body come into header_in.
LEMMA ReadIntoHeaderIn ==
  ASSUME HeadersInv, BodyOK, NEW n \in Nat, RecvBody(n), rb.inHeader
  PROVE  HeadersInv' /\ BodyOK'
<1>1. /\ doing = "reading" /\ n \in Nat \ {0} /\ n <= rb.rest /\ n <= rb.cap - Fill /\ received + n <= Len(wire)
      /\ Fill \in Nat /\ rb.cap \in Nat /\ rb.rest \in Nat /\ Len(wire) \in Nat
  BY BytesCome
<1>2. /\ rb \in Bodies /\ IsBody(rb) /\ taken \in Nat /\ received = taken /\ BodyAt \in Nat /\ Current.body \in Nat
      /\ rb.rest \in Nat /\ rb.rest <= Current.body /\ taken = BodyAt + Current.body - rb.rest
      /\ rb.pre.buf = headerIn /\ Slice(rb.pre) = Bytes(BodyAt, BodyAt + rb.pre.len)
      /\ rb.pre.from + rb.pre.len <= Size(headerIn) + 1
      /\ \A l \in lines : l.buf = headerIn => l.from + l.len <= rb.pre.from
      /\ HeaderOK /\ headerIn \in Buffers /\ Size(headerIn) \in Nat
  BY <1>1, ReadingKnown
<1>3. /\ rb.pre = [buf |-> rb.pre.buf, from |-> rb.pre.from, len |-> rb.pre.len]
      /\ rb.pre.buf \in Nat /\ rb.pre.from \in Nat \ {0} /\ rb.pre.len \in Nat
      /\ rb.buf \in Seq(Nat) /\ rb.file \in Seq(Nat) /\ rb.hasFile \in BOOLEAN
      /\ rb.bufs \in Seq({"pre", "buf", "file"}) /\ rb.toWrite \in Seq({"pre", "buf", "file"})
  BY <1>2, BodyKnown
<1>4. /\ received' = received + n /\ taken' = taken + n /\ UNCHANGED <<rconf, doing, serving, heads>>
      /\ buffer' = MemAt(GrownMem(n)) /\ rb' = [rb EXCEPT !.pre.len = @ + n, !.rest = @ - n]
  BY DEF RecvBody, MemAt, GrownMem
<1>5. BodyAt' = BodyAt /\ Current' = Current /\ UNCHANGED <<headerIn, lines, rconf>> /\ Size(headerIn)' = Size(headerIn)
  BY <1>4 DEF Before, BytesBefore, BodyAt, Current, wire, heads, Size
<1> DEFINE f == rb.pre.from k == rb.pre.len m == GrownMem(n) size == Size(headerIn)
<1>6. Fill = k /\ k = Current.body - rb.rest /\ Current.body <= rb.cap /\ f + rb.cap = size + 1
  BY <1>2 DEF Fill, HeaderOK
<1>7. f \in Nat \ {0} /\ k \in Nat /\ size \in Nat /\ f + k + n <= size + 1
  <2>1. f \in Nat \ {0} /\ k \in Nat /\ size \in Nat /\ n <= rb.cap - k
    BY <1>1, <1>2, <1>3, <1>6
  <2> HIDE DEF f, k, size
  <2> QED BY <1>1, <1>6, <2>1
<1>8. In.mem \in [1..size -> Nat]
  BY InKnown
<1>9. m = [i \in 1..size |-> IF i \in (f + k)..(f + k + n - 1) THEN received + i - (f + k) + 1 ELSE In.mem[i]]
  BY <1>6 DEF GrownMem
<1> HIDE DEF f, k, m, size
<1>10. m \in [1..size -> Nat]
  <2>1. ASSUME NEW i \in 1..size, i \in (f + k)..(f + k + n - 1) PROVE received + i - (f + k) + 1 \in Nat
    <3>1. received \in Nat
      BY <1>2
    <3> QED BY <1>7, <2>1, <3>1
  <2>2. \A i \in 1..size : (IF i \in (f + k)..(f + k + n - 1) THEN received + i - (f + k) + 1 ELSE In.mem[i]) \in Nat
    BY <1>8, <2>1
  <2> QED BY <1>9, <2>2
<1>11. /\ buffer' \in [Buffers -> Chunks]
       /\ \A d \in Buffers : ChunkOK(buffer'[d], d) /\ buffer'[d].pos = buffer[d].pos /\ buffer'[d].last = buffer[d].last
       /\ buffer'[headerIn].mem = m
       /\ \A d \in Buffers \ {headerIn} : buffer'[d] = buffer[d]
  <2>1. buffer' = MemAt(m) /\ m \in [1..Size(headerIn) -> Nat]
    BY <1>4, <1>10 DEF m, size
  <2> QED BY <1>5, <2>1, MemChanged
<1> DEFINE g == k + n r == rb.rest - n s == [buf |-> headerIn, from |-> f, len |-> g]
<1>12. g \in Nat /\ r \in Nat /\ headerIn \in Nat
  <2>1. g \in Nat
    BY <1>1, <1>7
  <2>2. r \in Nat
    <3> DEFINE x == rb.rest
    <3>1. x \in Nat /\ n \in Nat /\ n <= x
      BY <1>1
    <3> HIDE DEF x
    <3>2. x - n \in Nat
      BY <3>1
    <3> QED BY <3>2 DEF x
  <2>3. headerIn \in Nat
    BY <1>2, <1>3
  <2> QED BY <2>1, <2>2, <2>3
<1>13. rb' = [pre |-> s, inHeader |-> rb.inHeader, buf |-> rb.buf, cap |-> rb.cap, rest |-> r, bufs |-> rb.bufs,
              toWrite |-> rb.toWrite, file |-> rb.file, hasFile |-> rb.hasFile]
  <2> DEFINE p == rb.pre
  <2>1. p = [buf |-> headerIn, from |-> f, len |-> k]
    BY <1>2, <1>3 DEF f, k
  <2>2. [p EXCEPT !.len = @ + n] = s
    <3> HIDE DEF p
    <3> QED BY <2>1
  <2> DEFINE b == rb
  <2>3. rb' = [b EXCEPT !.pre.len = @ + n, !.rest = @ - n] /\ IsBody(b) /\ b.pre = p
    BY <1>2, <1>4
  <2> HIDE DEF b, p, s, g, r
  <2>4. rb' = [pre |-> [p EXCEPT !.len = @ + n], inHeader |-> b.inHeader, buf |-> b.buf, cap |-> b.cap, rest |-> b.rest - n,
               bufs |-> b.bufs, toWrite |-> b.toWrite, file |-> b.file, hasFile |-> b.hasFile]
    BY <2>3 DEF IsBody
  <2> QED BY <2>2, <2>4 DEF b, r
<1> HIDE DEF g, r, s
<1>14. /\ rb' \in Bodies /\ rb'.pre.buf = headerIn /\ rb'.pre.from = f /\ rb'.pre.len = g
       /\ rb'.inHeader = TRUE /\ rb'.cap = rb.cap /\ rb'.rest = r /\ rb'.bufs = rb.bufs /\ rb'.toWrite = rb.toWrite
       /\ rb'.file = rb.file /\ rb'.hasFile = rb.hasFile
  <2> DEFINE c == rb' q == rb.buf o == rb.cap y == rb.bufs z == rb.toWrite t == rb.file h == headerIn
  <2>1. /\ h \in Nat /\ f \in Nat \ {0} /\ g \in Nat /\ s = [buf |-> h, from |-> f, len |-> g]
        /\ TRUE \in BOOLEAN /\ FALSE \in BOOLEAN /\ q \in Seq(Nat) /\ o \in Nat /\ r \in Nat /\ y \in Seq({"pre", "buf", "file"})
        /\ z \in Seq({"pre", "buf", "file"}) /\ t \in Seq(Nat)
        /\ c = [pre |-> s, inHeader |-> TRUE, buf |-> q, cap |-> o, rest |-> r, bufs |-> y, toWrite |-> z, file |-> t,
                hasFile |-> FALSE]
    <3>1. rb.inHeader = TRUE /\ rb.hasFile = FALSE
      BY <1>2, BodyKnown DEF HeaderOK
    <3> QED BY <1>1, <1>3, <1>7, <1>12, <1>13, <3>1 DEF s
  <2>2. rb.hasFile = FALSE
    BY <1>2, BodyKnown DEF HeaderOK
  <2> HIDE DEF c, q, o, y, z, t, h
  <2>3. /\ c \in Bodies /\ c.pre = s /\ c.pre.buf = h /\ c.pre.from = f /\ c.pre.len = g
        /\ c.inHeader = TRUE /\ c.buf = q /\ c.cap = o /\ c.rest = r /\ c.bufs = y /\ c.toWrite = z
        /\ c.file = t /\ c.hasFile = FALSE
    BY ZenonT(60), <2>1, BodyMade
  <2> QED BY <2>2, <2>3 DEF c, o, y, z, t, h
<1>15. ASSUME NEW l \in lines, NEW i \in 1..l.len
       PROVE buffer'[l.buf].mem[l.from + i - 1] = buffer[l.buf].mem[l.from + i - 1]
  <2>1. l.buf \in Buffers /\ l.from \in Nat /\ l.len \in Nat /\ l.from + i - 1 \in 1..Size(l.buf)
    BY LinePlaces
  <2>2. CASE l.buf = headerIn
    <3>1. l.from + l.len <= f
      BY <1>2, <2>2 DEF f
    <3>2. l.from + i - 1 \in 1..size /\ l.from + i - 1 \notin (f + k)..(f + k + n - 1)
      <4>1. l.from + i - 1 < f
        BY <1>7, <2>1, <3>1
      <4> QED BY <1>7, <2>1, <2>2, <4>1 DEF size
    <3>3. m[l.from + i - 1] = In.mem[l.from + i - 1]
      BY <1>9, <3>2
    <3> QED BY <1>11, <2>2, <3>3 DEF In
  <2>3. CASE l.buf # headerIn
    BY <1>11, <2>1, <2>3
  <2> QED BY <2>2, <2>3
<1>16. HeadersInv'
  <2>1. rb'.rest = rb.rest - n /\ doing \in {"discard", "reading"}
    BY <1>1, <1>14 DEF r
  <2> QED BY <1>1, <1>4, <1>11, <1>14, <1>15, <2>1, HeadPassed
<1>17. Slice(rb.pre)' = Bytes(BodyAt, BodyAt + g)
  <2> DEFINE w == BodyAt + k v == BodyAt + g
  <2>1. OnStream(In.mem, f, k, BodyAt)
    <3> DEFINE o == In.mem
    <3>1. SliceOf(o, f, k) = Bytes(BodyAt, w)
      BY <1>2 DEF Slice, SliceOf, f, k, In
    <3>2. w = BodyAt + k /\ f \in Nat \ {0} /\ k \in Nat /\ BodyAt \in Nat
      BY <1>2, <1>7
    <3> HIDE DEF o, w
    <3>3. OnStream(o, f, k, BodyAt)
      BY <3>1, <3>2, SliceBytes
    <3> QED BY <3>3 DEF o
  <2>2. ASSUME NEW i \in 1..g PROVE m[f + i - 1] = BodyAt + i
    <3>1. f + i - 1 \in 1..size /\ i \in Nat /\ i <= k + n /\ i >= 1
      BY <1>1, <1>7, <2>2 DEF g
    <3>2. CASE i <= k
      <4>1. f + i - 1 \notin (f + k)..(f + k + n - 1)
        BY <1>7, <3>1, <3>2
      <4>2. i \in 1..k
        BY <1>7, <3>1, <3>2
      <4> QED BY <1>9, <2>1, <3>1, <4>1, <4>2 DEF OnStream
    <3>3. CASE ~(i <= k)
      <4>1. f + i - 1 \in (f + k)..(f + k + n - 1)
        BY <1>1, <1>7, <3>1, <3>3
      <4>2. m[f + i - 1] = received + (f + i - 1) - (f + k) + 1
        BY <1>9, <3>1, <4>1
      <4>3. received = BodyAt + k
        BY <1>2, <1>6
      <4>4. BodyAt \in Nat
        BY <1>2
      <4> QED BY <1>7, <3>1, <4>2, <4>3, <4>4
    <3> QED BY <3>2, <3>3
  <2>3. OnStream(m, f, g, BodyAt)
    BY <2>2 DEF OnStream
  <2>4. v = BodyAt + g /\ f \in Nat \ {0} /\ g \in Nat /\ BodyAt \in Nat
    BY <1>2, <1>7, <1>12
  <2> HIDE DEF v
  <2>5. SliceOf(m, f, g) = Bytes(BodyAt, v)
    BY <2>3, <2>4, SliceBytes
  <2>6. Slice(rb.pre)' = SliceOf(m, f, g)
    BY <1>11, <1>14 DEF Slice, SliceOf
  <2> QED BY <2>5, <2>6 DEF v
<1>18. g = Current.body - r /\ f + g <= size + 1
  <2> DEFINE x == rb.rest y == Current.body
  <2>1. y \in Nat /\ x \in Nat /\ n \in Nat /\ k = y - x
    BY <1>1, <1>2, <1>6
  <2> HIDE DEF x, y
  <2>2. k + n = y - (x - n)
    BY <2>1
  <2>3. f + (k + n) <= size + 1
    BY <1>7, <2>1
  <2> QED BY <2>2, <2>3 DEF g, r, x, y
<1>19. HeaderOK'
  BY <1>2, <1>5, <1>6, <1>14, <1>18 DEF HeaderOK, size
<1>20. BodyOK'
  <2>1. \A l \in lines : l.buf = headerIn => l.from + l.len <= f
    BY <1>2 DEF f
  <2> QED BY <1>5, <1>14, <1>17, <1>18, <1>19, <2>1 DEF BodyOK, size
<1> QED BY <1>16, <1>20

\* A body whose buffer and rest change.
LEMMA BodyRest ==
  ASSUME NEW body \in Bodies, NEW q \in Seq(Nat), NEW r \in Nat, NEW c,
         c = [pre |-> body.pre, inHeader |-> body.inHeader, buf |-> q, cap |-> body.cap, rest |-> r, bufs |-> body.bufs,
              toWrite |-> body.toWrite, file |-> body.file, hasFile |-> body.hasFile]
  PROVE  /\ c \in Bodies /\ c.pre = body.pre /\ c.inHeader = body.inHeader /\ c.buf = q /\ c.cap = body.cap /\ c.rest = r
         /\ c.bufs = body.bufs /\ c.toWrite = body.toWrite /\ c.file = body.file /\ c.hasFile = body.hasFile
<1> DEFINE s == body.pre k == body.cap y == body.bufs z == body.toWrite t == body.file i == body.inHeader h == body.hasFile
<1>1. /\ s = [buf |-> s.buf, from |-> s.from, len |-> s.len] /\ s.buf \in Nat /\ s.from \in Nat \ {0} /\ s.len \in Nat
      /\ k \in Nat /\ y \in Seq({"pre", "buf", "file"}) /\ z \in Seq({"pre", "buf", "file"}) /\ t \in Seq(Nat)
      /\ i \in BOOLEAN /\ h \in BOOLEAN
      /\ c = [pre |-> s, inHeader |-> i, buf |-> q, cap |-> k, rest |-> r, bufs |-> y, toWrite |-> z, file |-> t,
              hasFile |-> h]
  BY BodyKnown
<1> HIDE DEF s, k, y, z, t, i, h
<1>2. s \in [buf : Nat, from : Nat \ {0}, len : Nat]
  BY <1>1
<1>3. c \in Bodies
  BY <1>1, <1>2 DEF Bodies
<1> QED BY <1>1, <1>3 DEF s, k, y, z, t, i, h

\* n bytes of the stream that come next.
LEMMA BytesNext ==
  ASSUME NEW m \in Nat, NEW n \in Nat
  PROVE  [i \in 1..n |-> m + i] = Bytes(m, m + n)
<1>1. m + n - m = n
  OBVIOUS
<1> QED BY <1>1 DEF Bytes

\* Bytes of the body come into its own buffer.
LEMMA ReadIntoOwn ==
  ASSUME HeadersInv, BodyOK, NEW n \in Nat, RecvBody(n), ~rb.inHeader
  PROVE  HeadersInv' /\ BodyOK'
<1>1. /\ doing = "reading" /\ n \in Nat \ {0} /\ n <= rb.rest /\ n <= rb.cap - Fill /\ received + n <= Len(wire)
      /\ Fill \in Nat /\ rb.cap \in Nat /\ rb.rest \in Nat /\ Len(wire) \in Nat
  BY BytesCome
<1>2. /\ rb \in Bodies /\ IsBody(rb) /\ taken \in Nat /\ received = taken /\ BodyAt \in Nat /\ Current.body \in Nat
      /\ rb.rest \in Nat /\ rb.rest <= Current.body /\ taken = BodyAt + Current.body - rb.rest
      /\ rb.pre.buf = headerIn /\ Slice(rb.pre) = Bytes(BodyAt, BodyAt + rb.pre.len)
      /\ rb.pre.from + rb.pre.len <= Size(headerIn) + 1
      /\ \A l \in lines : l.buf = headerIn => l.from + l.len <= rb.pre.from
      /\ OwnBufferOK /\ headerIn \in Buffers
  BY <1>1, ReadingKnown
<1>3. /\ rb.pre.len \in Nat /\ rb.buf \in Seq(Nat) /\ rb.file \in Seq(Nat) /\ rb.hasFile \in BOOLEAN /\ rb.inHeader \in BOOLEAN
  BY <1>2, BodyKnown
<1>4. /\ received' = received + n /\ taken' = taken + n /\ UNCHANGED <<rconf, doing, serving, heads, buffer>>
      /\ rb' = [rb EXCEPT !.buf = @ \o [i \in 1..n |-> received + i], !.rest = @ - n]
  BY DEF RecvBody
<1>5. /\ BodyAt' = BodyAt /\ Current' = Current /\ UNCHANGED <<headerIn, lines, rconf>> /\ Size(headerIn)' = Size(headerIn)
  BY <1>4 DEF Before, BytesBefore, BodyAt, Current, wire, heads, Size
<1> DEFINE more == Bytes(taken, taken + n) q == rb.buf \o more r == rb.rest - n
<1>6. /\ more \in Seq(Nat) /\ Len(more) = n /\ [i \in 1..n |-> received + i] = more
  <2> DEFINE w == taken + n
  <2>1. w \in Nat /\ taken <= w /\ w - taken = n /\ taken \in Nat
    <3>1. taken \in Nat /\ n \in Nat
      BY <1>1, <1>2
    <3> QED BY <3>1
  <2> HIDE DEF w
  <2>2. Bytes(taken, w) \in Seq(Nat) /\ Len(Bytes(taken, w)) = w - taken
    BY <2>1, BytesSeq
  <2>3. [i \in 1..n |-> taken + i] = Bytes(taken, taken + n)
    BY <2>1, BytesNext
  <2> QED BY <1>2, <2>1, <2>2, <2>3 DEF w
<1>7. r \in Nat
  <2> DEFINE x == rb.rest
  <2>1. x \in Nat /\ n \in Nat /\ n <= x
    BY <1>1
  <2> HIDE DEF x
  <2>2. x - n \in Nat
    BY <2>1
  <2> QED BY <2>2 DEF x
<1> HIDE DEF more
<1>8. q \in Seq(Nat) /\ Len(q) = Len(rb.buf) + n /\ Len(rb.buf) \in Nat
  BY ZenonT(60), <1>3, <1>6, ConcatProperties, LenProperties
<1>9. /\ rb' \in Bodies /\ rb'.pre = rb.pre /\ rb'.inHeader = rb.inHeader /\ rb'.buf = q /\ rb'.cap = rb.cap /\ rb'.rest = r
      /\ rb'.bufs = rb.bufs /\ rb'.toWrite = rb.toWrite /\ rb'.file = rb.file /\ rb'.hasFile = rb.hasFile
  <2> DEFINE b == rb c == rb' u == [i \in 1..n |-> received + i]
  <2>1. c = [b EXCEPT !.buf = @ \o u, !.rest = @ - n] /\ IsBody(b)
    BY <1>2, <1>4
  <2> HIDE DEF b, c, u, q, r
  <2>2. c = [pre |-> b.pre, inHeader |-> b.inHeader, buf |-> b.buf \o u, cap |-> b.cap, rest |-> b.rest - n,
             bufs |-> b.bufs, toWrite |-> b.toWrite, file |-> b.file, hasFile |-> b.hasFile]
    BY <2>1 DEF IsBody
  <2>3. b.buf \o u = q /\ b.rest - n = r /\ b \in Bodies
    BY <1>2, <1>6 DEF b, u, q, r
  <2>4. c = [pre |-> b.pre, inHeader |-> b.inHeader, buf |-> q, cap |-> b.cap, rest |-> r,
             bufs |-> b.bufs, toWrite |-> b.toWrite, file |-> b.file, hasFile |-> b.hasFile]
    BY <2>2, <2>3
  <2>5. /\ c \in Bodies /\ c.pre = b.pre /\ c.inHeader = b.inHeader /\ c.buf = q /\ c.cap = b.cap /\ c.rest = r
        /\ c.bufs = b.bufs /\ c.toWrite = b.toWrite /\ c.file = b.file /\ c.hasFile = b.hasFile
    BY <1>7, <1>8, <2>3, <2>4, BodyRest
  <2> QED BY <2>5 DEF b, c
<1> HIDE DEF q
<1>10. HeadersInv'
  <2>1. buffer' \in [Buffers -> Chunks] /\ \A d \in Buffers : ChunkOK(buffer'[d], d)
    BY <1>4 DEF HeadersInv, BuffersOK
  <2>2. \A d \in Buffers : ChunkOK(buffer'[d], d) /\ buffer'[d].pos = buffer[d].pos /\ buffer'[d].last = buffer[d].last
    BY <1>4, <2>1
  <2>3. \A l \in lines : \A i \in 1..l.len : buffer'[l.buf].mem[l.from + i - 1] = buffer[l.buf].mem[l.from + i - 1]
    BY <1>4
  <2>4. rb'.rest = rb.rest - n /\ rb' \in Bodies /\ doing \in {"discard", "reading"} /\ doing' = doing
        /\ UNCHANGED <<rconf, serving, heads>>
    BY <1>1, <1>4, <1>9 DEF r
  <2> QED BY <1>1, <1>4, <2>1, <2>2, <2>3, <2>4, HeadPassed
<1>11. OwnFirst' = OwnFirst /\ Split' = Split /\ Together' = Together
  BY <1>4, <1>5, <1>9 DEF OwnFirst, Split, Together
<1>12. OwnFirst \in Nat /\ OwnFirst <= taken
  <2> DEFINE k == rb.pre.len w == rb.rest b == Current.body
  <2>1. k \in Nat /\ w \in Nat /\ b \in Nat /\ k <= b - w /\ taken = BodyAt + b - w /\ w <= b /\ BodyAt \in Nat
    BY <1>2, <1>3 DEF OwnBufferOK
  <2>2. OwnFirst = BodyAt + k \/ OwnFirst = BodyAt
    BY DEF OwnFirst
  <2> HIDE DEF k, w, b
  <2> QED BY <2>1, <2>2
<1>13. taken' \in Nat /\ taken <= taken'
  BY <1>1, <1>2, <1>4
<1>14. ASSUME NEW m \in Nat, m <= taken, rb.buf = Bytes(m, taken) PROVE rb'.buf = Bytes(m, taken')
  <2>1. taken + n = taken' /\ more = Bytes(taken, taken')
    BY <1>4 DEF more
  <2>2. Bytes(m, taken) \o Bytes(taken, taken') = Bytes(m, taken')
    BY <1>2, <1>13, <1>14, BytesJoined
  <2> QED BY <1>9, <1>14, <2>1, <2>2 DEF q
<1>15. Len(rb'.buf) <= rb'.cap /\ rb'.rest + Len(rb'.buf) = rb.rest + Len(rb.buf) /\ rb'.pre.len <= Current.body - rb'.rest
  <2> DEFINE k == rb.pre.len w == rb.rest b == Current.body p == rb.cap e == Len(rb.buf)
  <2>1. k \in Nat /\ w \in Nat /\ b \in Nat /\ k <= b - w /\ n <= p - e /\ p \in Nat /\ e \in Nat
    BY <1>1, <1>2, <1>3, <1>8 DEF OwnBufferOK, Fill
  <2>2. Len(rb'.buf) = e + n /\ rb'.cap = p /\ rb'.rest = w - n /\ rb'.pre.len = k
    BY <1>8, <1>9 DEF r
  <2> HIDE DEF k, w, b, p, e
  <2>3. e + n <= p /\ (w - n) + (e + n) = w + e /\ k <= b - (w - n)
    BY <1>1, <2>1
  <2> QED BY <2>2, <2>3 DEF w, b, e
<1>16. OwnBufferOK'
  <2>1. CASE ~rb.hasFile
    <3>1. rb'.buf = Bytes(OwnFirst', taken')
      BY <1>2, <1>11, <1>12, <1>14, <2>1 DEF OwnBufferOK
    <3>2. QuarterBuffer' = QuarterBuffer
      BY <1>4 DEF QuarterBuffer
    <3> QED BY <1>2, <1>5, <1>9, <1>11, <1>15, <2>1, <3>1, <3>2 DEF OwnBufferOK, Together, QuarterBuffer
  <2>2. CASE rb.hasFile
    <3>1. PICK m \in OwnFirst..taken : rb.file = Bytes(OwnFirst, m) /\ rb.buf = Bytes(m, taken)
      BY <1>2, <2>2 DEF OwnBufferOK
    <3>2. m \in Nat /\ m <= taken
      BY <1>2, <1>12, <3>1
    <3>3. m \in OwnFirst..taken'
      BY <1>2, <1>12, <1>13, <3>1
    <3>4. rb'.file = Bytes(OwnFirst', m) /\ rb'.buf = Bytes(m, taken') /\ m \in OwnFirst'..taken'
      BY <1>9, <1>11, <1>14, <3>1, <3>2, <3>3
    <3>5. \E k \in OwnFirst'..taken' : rb'.file = Bytes(OwnFirst', k) /\ rb'.buf = Bytes(k, taken')
      BY <3>4
    <3>6. rb'.toWrite = <<"buf">> /\ (Split' \/ rb'.bufs = <<"buf">>) /\ rb'.hasFile
      BY <1>2, <1>9, <1>11, <2>2 DEF OwnBufferOK
    <3> QED BY <1>5, <1>15, <3>5, <3>6 DEF OwnBufferOK
  <2> QED BY <2>1, <2>2
<1>17. Slice(rb.pre)' = Slice(rb.pre)
  BY <1>4, <1>9 DEF Slice
<1>18. BodyOK'
  BY <1>2, <1>5, <1>9, <1>16, <1>17 DEF BodyOK
<1> QED BY <1>10, <1>18

\* The buffers that a handler is given, when the body is read.
FileAtEnd == rb.hasFile \/ rconf.only
FiledChain(q) == IF FileAtEnd THEN Append(Front(q), "file") ELSE q
LastChain(q) == IF Len(FiledChain(q)) > 1 /\ Together THEN Tail(FiledChain(q)) ELSE FiledChain(q)

\* They are those of the body, with the file in the place of the last.
LEMMA LastChains ==
  /\ LastChain(<<"pre">>) = IF FileAtEnd THEN <<"file">> ELSE <<"pre">>
  /\ LastChain(<<"buf">>) = IF FileAtEnd THEN <<"file">> ELSE <<"buf">>
  /\ LastChain(<<"pre", "buf">>) =
       IF Together THEN (IF FileAtEnd THEN <<"file">> ELSE <<"buf">>)
       ELSE IF FileAtEnd THEN <<"pre", "file">> ELSE <<"pre", "buf">>
<1> DEFINE z == "file"
<1> HIDE DEF z
<1>1. ASSUME NEW x PROVE Append(Front(<<x>>), z) = <<z>> /\ Len(<<x>>) = 1
  <2>1. Front(<<x>>) = <<>>
    BY DEF Front
  <2>2. Append(<<>>, z) = <<z>>
    OBVIOUS
  <2> QED BY <2>1, <2>2
<1>2. ASSUME NEW x, NEW y
      PROVE  /\ Append(Front(<<x, y>>), z) = <<x, z>> /\ Len(<<x, y>>) = 2
             /\ Tail(<<x, y>>) = <<y>>
  <2> DEFINE S == {x, y, z} q == <<x, y>> f == Front(q) r == Append(f, z) o == <<x, z>>
  <2>1. q \in Seq(S) /\ Len(q) = 2 /\ q[1] = x /\ q[2] = y /\ Tail(q) = <<y>> /\ z \in S
        /\ o \in Seq(S) /\ Len(o) = 2 /\ o[1] = x /\ o[2] = z
    OBVIOUS
  <2>2. f = SubSeq(q, 1, Len(q) - 1)
    BY DEF Front
  <2> HIDE DEF S, q, f, o
  <2>3. f = SubSeq(q, 1, 1)
    BY <2>1, <2>2
  <2>4. f \in Seq(S) /\ Len(f) = 1 /\ f[1] = x
    <3>1. 1 \in Int /\ \A i \in 1..1 : q[i] \in S
      BY <2>1 DEF S
    <3>2. /\ f \in Seq(S) /\ Len(f) = (IF 1 <= 1 THEN 1 - 1 + 1 ELSE 0)
          /\ \A i \in 1..(1 - 1 + 1) : f[i] = q[1 + i - 1]
      BY <2>3, <3>1, SubSeqProperties
    <3> QED BY <2>1, <3>2
  <2>5. r \in Seq(S) /\ Len(r) = 2 /\ r[1] = x /\ r[2] = z
    <3>1. f \in Seq(S) /\ z \in S
      BY <2>1, <2>4
    <3>2. /\ r \in Seq(S) /\ r # << >> /\ Len(r) = Len(f) + 1
          /\ \A i \in 1..Len(f) : r[i] = f[i]
          /\ r[Len(f) + 1] = z
      BY <3>1, AppendProperties
    <3> HIDE DEF r
    <3> QED BY <2>4, <3>2
  <2> HIDE DEF r
  <2>6. \A i \in 1..Len(r) : r[i] = o[i]
    <3>1. \A i \in 1..2 : i = 1 \/ i = 2
      OBVIOUS
    <3> QED BY <2>1, <2>5, <3>1
  <2>7. r = o
    BY <2>1, <2>5, <2>6, SeqEqual
  <2> QED BY <2>1, <2>7 DEF q, f, r, o
<1>3. ASSUME NEW x PROVE LastChain(<<x>>) = IF FileAtEnd THEN <<z>> ELSE <<x>>
  <2> DEFINE q == FiledChain(<<x>>)
  <2>1. q = IF FileAtEnd THEN <<z>> ELSE <<x>>
    BY <1>1 DEF FiledChain, z
  <2>2. Len(q) = 1
    BY <1>1, <2>1
  <2>3. LastChain(<<x>>) = IF Len(q) > 1 /\ Together THEN Tail(q) ELSE q
    BY DEF LastChain
  <2> HIDE DEF q
  <2> QED BY <2>1, <2>2, <2>3
<1>4. ASSUME NEW x, NEW y
      PROVE  LastChain(<<x, y>>) = IF Together THEN (IF FileAtEnd THEN <<z>> ELSE <<y>>)
                                   ELSE IF FileAtEnd THEN <<x, z>> ELSE <<x, y>>
  <2> DEFINE q == FiledChain(<<x, y>>)
  <2>1. q = IF FileAtEnd THEN <<x, z>> ELSE <<x, y>>
    BY <1>2 DEF FiledChain, z
  <2>2. Len(q) = 2 /\ Tail(q) = IF FileAtEnd THEN <<z>> ELSE <<y>>
    BY <1>2, <2>1
  <2>3. LastChain(<<x, y>>) = IF Len(q) > 1 /\ Together THEN Tail(q) ELSE q
    BY DEF LastChain
  <2> HIDE DEF q
  <2> QED BY <2>1, <2>2, <2>3
<1> QED BY <1>3, <1>4 DEF z

\* A body that is read keeps what was read, and the temporary file has it if there is one.
LEMMA BodyEnds ==
  ASSUME HeadersInv, BodyOK, BodyRead
  PROVE  /\ rb' \in Bodies /\ rb'.pre = rb.pre /\ rb'.buf = rb.buf /\ rb'.bufs = LastChain(rb.bufs)
         /\ rb'.file = IF FileAtEnd THEN rb.file \o Contents(rb, rb.toWrite) ELSE rb.file
<1>1. /\ doing = "reading"
      /\ rb' = WithoutPre(IF rb.hasFile \/ rconf.only THEN WithFile(Written(rb)) ELSE rb)
  BY DEF BodyRead
<1>2. /\ rb \in Bodies /\ IsBody(rb) /\ taken \in Nat /\ BodyAt \in Nat
      /\ Slice(rb.pre) = Bytes(BodyAt, BodyAt + rb.pre.len)
      /\ IF rb.inHeader THEN HeaderOK ELSE OwnBufferOK
  BY <1>1, ReadingKnown
<1>3. rb.file \in Seq(Nat) /\ rb.inHeader \in BOOLEAN /\ rb.hasFile \in BOOLEAN /\ rb.pre.len \in Nat
  BY <1>2, BodyKnown
<1> DEFINE t == Contents(rb, rb.toWrite) file == IF FileAtEnd THEN rb.file \o t ELSE rb.file
           has == IF FileAtEnd THEN TRUE ELSE rb.hasFile y == FiledChain(rb.bufs) z == LastChain(rb.bufs)
           b == rb c == rb' d == IF FileAtEnd THEN WithFile(Written(rb)) ELSE rb
<1>4. rb.bufs \in {<<"pre">>, <<"buf">>, <<"pre", "buf">>}
  BY <1>2 DEF HeaderOK, OwnBufferOK, Split
<1>5. z \in Seq({"pre", "buf", "file"})
  <2>1. z \in {<<"pre">>, <<"buf">>, <<"file">>, <<"pre", "buf">>, <<"pre", "file">>}
    BY <1>4, LastChains
  <2>2. <<"pre">> \in Seq({"pre", "buf", "file"}) /\ <<"buf">> \in Seq({"pre", "buf", "file"})
        /\ <<"file">> \in Seq({"pre", "buf", "file"})
    OBVIOUS
  <2>3. <<"pre", "buf">> \in Seq({"pre", "buf", "file"}) /\ <<"pre", "file">> \in Seq({"pre", "buf", "file"})
    OBVIOUS
  <2> HIDE DEF z
  <2> QED BY <2>1, <2>2, <2>3
<1>6. file \in Seq(Nat)
  <2>1. CASE rb.inHeader
    <3>1. t = Slice(rb.pre) /\ rb.file = <<>>
      <4>1. t = ChainOf(Slice(rb.pre), rb.buf, rb.file, rb.toWrite)
        BY DEF Contents, Held, ChainOf
      <4> HIDE DEF t
      <4> QED BY <1>2, <2>1, <4>1, Chained DEF HeaderOK
    <3>2. Slice(rb.pre) \in Seq(Nat)
      <4> DEFINE w == BodyAt + rb.pre.len
      <4>1. w \in Nat /\ BodyAt <= w /\ BodyAt \in Nat
        BY <1>2, <1>3
      <4> HIDE DEF w
      <4>2. Bytes(BodyAt, w) \in Seq(Nat)
        BY <4>1, BytesSeq
      <4> QED BY <1>2, <4>2 DEF w
    <3> HIDE DEF t
    <3>3. rb.file \o t \in Seq(Nat)
      BY <1>3, <3>1, <3>2, ConcatProperties
    <3> QED BY <1>3, <3>3
  <2>2. CASE ~rb.inHeader
    <3>1. rb.file \o t = Bytes(WrittenFirst, taken) /\ WrittenFirst \in Nat /\ WrittenFirst <= taken
      BY <1>1, <2>2, OwnWritten
    <3>2. Bytes(WrittenFirst, taken) \in Seq(Nat)
      BY <1>2, <3>1, BytesSeq
    <3> HIDE DEF t
    <3> QED BY <1>3, <3>1, <3>2
  <2> QED BY <2>1, <2>2
<1>7. d = [pre |-> b.pre, inHeader |-> b.inHeader, buf |-> b.buf, cap |-> b.cap, rest |-> b.rest, bufs |-> y,
           toWrite |-> b.toWrite, file |-> file, hasFile |-> has]
  <2>1. CASE FileAtEnd
    <3> DEFINE e == Written(rb)
    <3>1. e = [b EXCEPT !.file = @ \o t, !.hasFile = TRUE] /\ IsBody(b)
      BY <1>2 DEF Written
    <3>2. d = [e EXCEPT !.bufs = Append(Front(@), "file")]
      BY <2>1 DEF WithFile
    <3>3. file = b.file \o t /\ has = TRUE /\ y = Append(Front(b.bufs), "file")
      BY <2>1 DEF FiledChain
    <3> HIDE DEF b, d, e, t, file, has, y
    <3>4. e = [pre |-> b.pre, inHeader |-> b.inHeader, buf |-> b.buf, cap |-> b.cap, rest |-> b.rest, bufs |-> b.bufs,
               toWrite |-> b.toWrite, file |-> b.file \o t, hasFile |-> TRUE]
      BY <3>1 DEF IsBody
    <3>5. d = [pre |-> b.pre, inHeader |-> b.inHeader, buf |-> b.buf, cap |-> b.cap, rest |-> b.rest,
               bufs |-> Append(Front(b.bufs), "file"), toWrite |-> b.toWrite, file |-> b.file \o t, hasFile |-> TRUE]
      BY <3>2, <3>4
    <3> QED BY <3>3, <3>5
  <2>2. CASE ~FileAtEnd
    <3>1. d = b /\ file = b.file /\ has = b.hasFile /\ y = b.bufs /\ IsBody(b)
      BY <1>2, <2>2 DEF FiledChain
    <3> HIDE DEF b, d, file, has, y
    <3> QED BY <3>1 DEF IsBody
  <2> QED BY <2>1, <2>2
<1>8. c = IF Len(d.bufs) > 1 /\ Together THEN [d EXCEPT !.bufs = Tail(@)] ELSE d
  BY <1>1 DEF WithoutPre, FileAtEnd, Together
<1>9. z = IF Len(y) > 1 /\ Together THEN Tail(y) ELSE y
  BY DEF LastChain
<1>10. b \in Bodies /\ has \in BOOLEAN
  BY <1>2, <1>3
<1> HIDE DEF b, c, d, file, has, y, z, t
<1>11. c = [pre |-> b.pre, inHeader |-> b.inHeader, buf |-> b.buf, cap |-> b.cap, rest |-> b.rest, bufs |-> z,
            toWrite |-> b.toWrite, file |-> file, hasFile |-> has]
  <2>1. d.bufs = y
    BY <1>7
  <2>2. CASE Len(y) > 1 /\ Together
    <3>1. c = [d EXCEPT !.bufs = Tail(@)] /\ z = Tail(y)
      BY <1>8, <1>9, <2>1, <2>2
    <3> QED BY <1>7, <3>1
  <2>3. CASE ~(Len(y) > 1 /\ Together)
    <3>1. c = d /\ z = y
      BY <1>8, <1>9, <2>1, <2>3
    <3> QED BY <1>7, <3>1
  <2> QED BY <2>2, <2>3
<1>12. c \in Bodies /\ c.pre = b.pre /\ c.buf = b.buf /\ c.bufs = z /\ c.file = file
  <2> DEFINE s == b.pre k == b.cap q == b.buf r == b.rest w == b.toWrite i == b.inHeader
  <2>1. /\ s = [buf |-> s.buf, from |-> s.from, len |-> s.len] /\ s.buf \in Nat /\ s.from \in Nat \ {0} /\ s.len \in Nat
        /\ k \in Nat /\ w \in Seq({"pre", "buf", "file"}) /\ q \in Seq(Nat)
        /\ i \in BOOLEAN /\ r \in Nat
        /\ c = [pre |-> s, inHeader |-> i, buf |-> q, cap |-> k, rest |-> r, bufs |-> z, toWrite |-> w, file |-> file,
                hasFile |-> has]
    BY <1>10, <1>11, BodyKnown
  <2> HIDE DEF s, k, q, r, w, i
  <2>2. s \in [buf : Nat, from : Nat \ {0}, len : Nat]
    BY <2>1
  <2>3. c \in Bodies
    BY <1>5, <1>6, <1>10, <2>1, <2>2 DEF Bodies
  <2> QED BY <2>1, <2>3 DEF s, q
<1> QED BY <1>12 DEF b, c, z, file, t

\* The handler is given the whole body.
LEMMA BodyGiven ==
  ASSUME HeadersInv, BodyOK, BodyRead
  PROVE  HeadersInv' /\ (QuarterBuffer' => BodyWhole')
<1>1. doing = "reading" /\ rb.rest = 0 /\ doing' = "body" /\ UNCHANGED <<rconf, serving, received, taken, buffer, heads>>
  BY DEF BodyRead
<1>2. /\ rb \in Bodies /\ taken \in Nat /\ BodyAt \in Nat /\ Current.body \in Nat
      /\ taken = BodyAt + Current.body - rb.rest
      /\ Slice(rb.pre) = Bytes(BodyAt, BodyAt + rb.pre.len)
      /\ IF rb.inHeader THEN HeaderOK ELSE OwnBufferOK
  BY <1>1, ReadingKnown
<1>3. /\ rb.file \in Seq(Nat) /\ rb.buf \in Seq(Nat) /\ rb.inHeader \in BOOLEAN /\ rb.hasFile \in BOOLEAN
      /\ rb.pre.len \in Nat /\ rb.cap \in Nat
  BY <1>2, BodyKnown
<1>4. /\ rb' \in Bodies /\ rb'.pre = rb.pre /\ rb'.buf = rb.buf /\ rb'.bufs = LastChain(rb.bufs)
      /\ rb'.file = IF FileAtEnd THEN rb.file \o Contents(rb, rb.toWrite) ELSE rb.file
  BY BodyEnds
<1>5. HeadersInv'
  BY <1>1, <1>4, HeadStill
<1>6. BodyAt' = BodyAt /\ Current' = Current /\ QuarterBuffer' = QuarterBuffer
  BY <1>1 DEF Before, BytesBefore, BodyAt, Current, wire, QuarterBuffer
<1> DEFINE whole == Bytes(BodyAt, taken) u == BodyAt + rb.pre.len
<1>7. taken = BodyAt + Current.body /\ u \in Nat /\ whole \in Seq(Nat)
  <2>1. taken = BodyAt + Current.body
    BY <1>1, <1>2
  <2>2. BodyAt <= taken
    BY <1>2, <2>1
  <2>3. whole \in Seq(Nat)
    BY <1>2, <2>2, BytesSeq
  <2> QED BY <1>2, <1>3, <2>1, <2>3
<1>8. SUFFICES ASSUME QuarterBuffer
               PROVE  /\ ChainOf(Slice(rb.pre), rb.buf, rb'.file, rb'.bufs) = whole
                      /\ rconf.only => rb'.file = whole
                      /\ rconf.single => Len(rb'.bufs) <= 1
  <2>1. Slice(rb.pre)' = Slice(rb.pre)
    BY <1>1, <1>4 DEF Slice
  <2>2. Contents(rb, rb.bufs)' = ChainOf(Slice(rb.pre)', rb'.buf, rb'.file, rb'.bufs)
    BY DEF Contents, Held, ChainOf
  <2>3. Contents(rb, rb.bufs)' = ChainOf(Slice(rb.pre), rb.buf, rb'.file, rb'.bufs)
    BY <1>4, <2>1, <2>2
  <2>4. Bytes(BodyAt', BodyAt' + Current'.body) = whole
    BY <1>6, <1>7
  <2> QED BY <1>1, <1>5, <1>6, <2>3, <2>4 DEF BodyWhole
<1>9. Len(<<"pre">>) = 1 /\ Len(<<"buf">>) = 1 /\ Len(<<"file">>) = 1
  OBVIOUS
<1>10. CASE rb.inHeader
  <2>1. rb.bufs = <<"pre">> /\ rb.toWrite = <<"pre">> /\ ~rb.hasFile /\ rb.file = <<>> /\ rb.pre.len = Current.body
    <3>1. /\ rb.bufs = <<"pre">> /\ rb.toWrite = <<"pre">> /\ ~rb.hasFile /\ rb.file = <<>>
          /\ rb.pre.len = Current.body - rb.rest
      BY <1>2, <1>10 DEF HeaderOK
    <3> QED BY <1>1, <1>2, <3>1
  <2>2. Slice(rb.pre) = whole
    BY <1>2, <1>7, <2>1
  <2>3. Contents(rb, rb.toWrite) = whole
    <3>1. Contents(rb, rb.toWrite) = ChainOf(Slice(rb.pre), rb.buf, rb.file, rb.toWrite)
      BY DEF Contents, Held, ChainOf
    <3> QED BY <2>1, <2>2, <3>1, Chained
  <2>4. rb'.bufs = IF FileAtEnd THEN <<"file">> ELSE <<"pre">>
    BY <1>4, <2>1, LastChains
  <2>5. FileAtEnd => rb'.file = whole
    <3>1. <<>> \o whole = whole
      BY <1>7, ConcatEmptySeq
    <3> QED BY <1>4, <2>1, <2>3, <3>1
  <2> HIDE DEF whole
  <2> QED BY <1>9, <2>2, <2>4, <2>5, Chained DEF FileAtEnd
<1>11. CASE ~rb.inHeader
  <2>1. OwnBufferOK /\ BodyAt <= u /\ u <= taken
    <3> DEFINE k == rb.pre.len
    <3>1. OwnBufferOK /\ k <= Current.body - rb.rest
      BY <1>2, <1>11 DEF OwnBufferOK
    <3>2. k <= Current.body /\ k \in Nat
      BY <1>1, <1>2, <1>3, <3>1
    <3> HIDE DEF k
    <3>3. BodyAt <= BodyAt + k /\ BodyAt + k <= taken
      BY <1>2, <1>7, <3>2
    <3> QED BY <3>1, <3>3 DEF k
  <2>2. rb.bufs = IF Split THEN <<"pre", "buf">> ELSE <<"buf">>
    BY <2>1 DEF OwnBufferOK, Split
  <2>3. Slice(rb.pre) \o Bytes(u, taken) = whole
    <3>1. Slice(rb.pre) = Bytes(BodyAt, u)
      BY <1>2
    <3> HIDE DEF u
    <3> QED BY ZenonT(60), <1>2, <1>7, <2>1, <3>1, BytesJoined
  <2>4. CASE FileAtEnd
    <3>1. rb'.file = Bytes(WrittenFirst, taken)
      BY <1>1, <1>4, <1>11, <2>4, OwnWritten
    <3>2. WrittenFirst = IF Split /\ ~Together THEN u ELSE BodyAt
      BY DEF WrittenFirst
    <3>3. rb'.bufs = IF Split /\ ~Together THEN <<"pre", "file">> ELSE <<"file">>
      BY <1>4, <2>2, <2>4, LastChains
    <3>4. CASE Split /\ ~Together
      <4>1. ChainOf(Slice(rb.pre), rb.buf, rb'.file, rb'.bufs) = Slice(rb.pre) \o rb'.file
        <5> DEFINE p == Slice(rb.pre) b == rb.buf f == rb'.file y == rb'.bufs
        <5>1. y = <<"pre", "file">>
          BY <3>3, <3>4
        <5> HIDE DEF p, b, f, y
        <5>2. ChainOf(p, b, f, <<"pre", "file">>) = p \o f
          BY Chained
        <5>3. ChainOf(p, b, f, y) = p \o f
          BY <5>1, <5>2
        <5> QED BY <5>3 DEF p, b, f, y
      <4> QED BY <2>3, <3>1, <3>2, <3>4, <4>1 DEF Together
    <3>5. CASE ~(Split /\ ~Together)
      BY <1>9, <3>1, <3>2, <3>3, <3>5, Chained
    <3> QED BY <3>4, <3>5
  <2>5. CASE ~FileAtEnd
    <3>1. ~rb.hasFile /\ ~rconf.only
      BY <2>5 DEF FileAtEnd
    <3>2. rb.buf = Bytes(OwnFirst, taken) /\ OwnFirst = IF Split THEN u ELSE BodyAt
      BY <2>1, <3>1 DEF OwnBufferOK, OwnFirst
    <3>3. Split => ~rconf.single
      <4> SUFFICES ASSUME Split, rconf.single PROVE FALSE
        OBVIOUS
      <4>1. rb.rest + Len(rb.buf) > rb.cap /\ Len(rb.buf) <= rb.cap
        BY <1>8, <2>1, <3>1 DEF OwnBufferOK
      <4>2. Len(rb.buf) \in Nat
        BY <1>3, LenProperties
      <4> QED BY <1>1, <1>3, <4>1, <4>2
    <3>4. rb'.bufs = rb.bufs
      BY <1>4, <2>2, <2>5, <3>1, <3>3, LastChains DEF Together
    <3>5. CASE Split
      <4>1. ChainOf(Slice(rb.pre), rb.buf, rb'.file, rb'.bufs) = Slice(rb.pre) \o rb.buf
        <5> DEFINE p == Slice(rb.pre) b == rb.buf f == rb'.file y == rb'.bufs
        <5>1. y = <<"pre", "buf">>
          BY <2>2, <3>4, <3>5
        <5> HIDE DEF p, b, f, y
        <5>2. ChainOf(p, b, f, <<"pre", "buf">>) = p \o b
          BY Chained
        <5>3. ChainOf(p, b, f, y) = p \o b
          BY <5>1, <5>2
        <5> QED BY <5>3 DEF p, b, f, y
      <4> QED BY <2>3, <3>1, <3>2, <3>3, <3>5, <4>1
    <3>6. CASE ~Split
      BY <1>9, <2>2, <3>1, <3>2, <3>4, <3>6, Chained
    <3> QED BY <3>5, <3>6
  <2> QED BY <2>4, <2>5
<1> QED BY <1>10, <1>11

\* A body that is not wanted: what is in the buffer is taken.
LEMMA BodyDiscarded ==
  ASSUME HeadersInv, Discard
  PROVE  HeadersInv'
<1>1. /\ doing = "handler" /\ buffer' = [buffer EXCEPT ![headerIn].pos = @ + Preread] /\ taken' = taken + Preread
      /\ rb' = [NoBody EXCEPT !.rest = ContentLength - Preread]
      /\ doing' = IF Preread = ContentLength THEN "done" ELSE "discard"
      /\ UNCHANGED <<rconf, serving, received, heads>>
  BY DEF Discard
<1>2. Preread \in Nat /\ ContentLength \in Nat /\ Preread <= ContentLength
  BY <1>1, HandlerKnown
<1> DEFINE r == ContentLength - Preread
<1>3. r \in Nat
  BY <1>2
<1>4. NoBody \in Bodies
  BY NothingYet DEF HeadersInv
<1>5. rb' \in Bodies /\ rb'.rest = r
  <2> DEFINE b == NoBody c == rb' q == b.buf
  <2>1. c = [b EXCEPT !.rest = r] /\ IsBody(b) /\ b \in Bodies /\ q \in Seq(Nat) /\ q = b.buf
    BY <1>1, <1>4, NoBodyIs, BodyKnown
  <2> HIDE DEF b, c, r, q
  <2>2. c = [pre |-> b.pre, inHeader |-> b.inHeader, buf |-> q, cap |-> b.cap, rest |-> r,
             bufs |-> b.bufs, toWrite |-> b.toWrite, file |-> b.file, hasFile |-> b.hasFile]
    BY <2>1 DEF IsBody
  <2>3. /\ c \in Bodies /\ c.pre = b.pre /\ c.inHeader = b.inHeader /\ c.buf = q /\ c.cap = b.cap /\ c.rest = r
        /\ c.bufs = b.bufs /\ c.toWrite = b.toWrite /\ c.file = b.file /\ c.hasFile = b.hasFile
    <3>1. /\ b \in Bodies /\ q \in Seq(Nat) /\ r \in Nat
          /\ c = [pre |-> b.pre, inHeader |-> b.inHeader, buf |-> q, cap |-> b.cap, rest |-> r,
                  bufs |-> b.bufs, toWrite |-> b.toWrite, file |-> b.file, hasFile |-> b.hasFile]
      BY <1>3, <2>1, <2>2
    <3> QED BY <3>1, BodyRest
  <2> QED BY <2>3 DEF c
<1>6. \/ Preread = ContentLength /\ doing' \in {"body", "done"}
      \/ Preread < ContentLength /\ doing' \in {"discard", "reading"} /\ rb'.rest = ContentLength - Preread
  BY <1>1, <1>2, <1>5
<1> QED BY <1>1, <1>5, <1>6, HeadTaken

\* Bytes that the kernel may give.
LEMMA AvailableIs ==
  ASSUME HeadersInv, NEW room \in Int, NEW n \in Available(room)
  PROVE  n \in Nat \ {0} /\ n <= room /\ received + n <= Len(wire)
<1>1. Len(wire) \in Nat /\ received \in Nat
  BY ReaderConstants DEF HeadersInv, ReaderTypes
<1> DEFINE left == Len(wire) - received
<1>2. left \in Int /\ n \in 1..(IF room < left THEN room ELSE left)
  BY <1>1 DEF Available
<1>3. n \in Nat \ {0} /\ n <= room /\ n <= left
  <2> HIDE DEF left
  <2> QED BY <1>2
<1> QED BY <1>1, <1>3

\* The rest of such a body is read and dropped.
LEMMA RestDiscarded ==
  ASSUME HeadersInv, NEW n, ReadDiscarded(n)
  PROVE  HeadersInv'
<1>1. /\ doing = "discard" /\ n \in Available(rb.rest)
      /\ received' = received + n /\ taken' = taken + n /\ rb' = [rb EXCEPT !.rest = @ - n]
      /\ doing' = IF n = rb.rest THEN "done" ELSE "discard"
      /\ UNCHANGED <<rconf, serving, buffer, heads>>
  BY DEF ReadDiscarded
<1>2. rb \in Bodies
  BY DEF HeadersInv, ReaderTypes
<1>3. rb.rest \in Nat /\ rb.buf \in Seq(Nat) /\ IsBody(rb)
  BY <1>2, BodyKnown DEF IsBody
<1>4. n \in Nat \ {0} /\ n <= rb.rest /\ received + n <= Len(wire)
  <2> DEFINE w == rb.rest
  <2>1. w \in Int /\ n \in Available(w)
    BY <1>1, <1>3
  <2> HIDE DEF w
  <2>2. n \in Nat \ {0} /\ n <= w /\ received + n <= Len(wire)
    BY <2>1, AvailableIs
  <2> QED BY <2>2 DEF w
<1>5. rb' \in Bodies /\ rb'.rest = rb.rest - n
  <2> DEFINE b == rb c == rb' q == b.buf w == b.rest r == w - n
  <2>1. c = [b EXCEPT !.rest = w - n] /\ IsBody(b) /\ b \in Bodies /\ q \in Seq(Nat) /\ q = b.buf /\ w \in Nat /\ n <= w
    BY <1>1, <1>2, <1>3, <1>4
  <2> HIDE DEF b, c, w, q
  <2>2. r \in Nat
    BY <1>4, <2>1
  <2> HIDE DEF r
  <2>3. c = [pre |-> b.pre, inHeader |-> b.inHeader, buf |-> q, cap |-> b.cap, rest |-> r,
             bufs |-> b.bufs, toWrite |-> b.toWrite, file |-> b.file, hasFile |-> b.hasFile]
    BY <2>1 DEF IsBody, r
  <2>4. /\ c \in Bodies /\ c.pre = b.pre /\ c.inHeader = b.inHeader /\ c.buf = q /\ c.cap = b.cap /\ c.rest = r
        /\ c.bufs = b.bufs /\ c.toWrite = b.toWrite /\ c.file = b.file /\ c.hasFile = b.hasFile
    <3>1. /\ b \in Bodies /\ q \in Seq(Nat) /\ r \in Nat
          /\ c = [pre |-> b.pre, inHeader |-> b.inHeader, buf |-> q, cap |-> b.cap, rest |-> r,
                  bufs |-> b.bufs, toWrite |-> b.toWrite, file |-> b.file, hasFile |-> b.hasFile]
      BY <2>1, <2>2, <2>3
    <3> QED BY <3>1, BodyRest
  <2> QED BY <2>4 DEF b, c, r, w
<1>6. buffer' \in [Buffers -> Chunks] /\ \A d \in Buffers : ChunkOK(buffer'[d], d)
  BY <1>1 DEF HeadersInv, BuffersOK
<1>7. \A d \in Buffers : ChunkOK(buffer'[d], d) /\ buffer'[d].pos = buffer[d].pos /\ buffer'[d].last = buffer[d].last
  BY <1>1, <1>6
<1>8. \A l \in lines : \A i \in 1..l.len : buffer'[l.buf].mem[l.from + i - 1] = buffer[l.buf].mem[l.from + i - 1]
  BY <1>1
<1>9. doing \in {"discard", "reading"} /\ (doing' = doing \/ (doing' = "done" /\ n = rb.rest)) /\ n \in Nat
  BY <1>1, <1>4
<1> QED BY <1>1, <1>4, <1>5, <1>6, <1>7, <1>8, <1>9, HeadPassed

\* Bytes of a header come.
LEMMA HeaderRead ==
  ASSUME HeadersInv, NEW n, ReadHeader(n)
  PROVE  HeadersInv'
<1>1. /\ doing \in {"line", "headers"} /\ Unparsed = 0 /\ n \in Available(Size(headerIn) + 1 - In.last)
      /\ buffer' = Filled(headerIn, n) /\ received' = received + n
      /\ UNCHANGED <<rconf, doing, serving, taken, heads, rb>>
  BY DEF ReadHeader
<1>2. In.pos \in Nat /\ In.last \in Nat /\ Size(headerIn) \in Nat /\ Unparsed = In.last - In.pos
  BY InKnown
<1> DEFINE room == Size(headerIn) + 1 - In.last
<1>3. In.pos = In.last /\ room \in Int
  BY <1>1, <1>2
<1>4. n \in Nat \ {0} /\ n <= room /\ received + n <= Len(wire)
  <2>1. room \in Int /\ n \in Available(room)
    BY <1>1, <1>3
  <2> HIDE DEF room
  <2> QED BY <2>1, AvailableIs
<1>5. In.last + n <= Size(headerIn) + 1
  BY <1>2, <1>4
<1> QED BY <1>1, <1>3, <1>4, <1>5, HeadFilled

\* Bytes come on an idle connection.
LEMMA NextComes ==
  ASSUME HeadersInv, NEW n, NextRequest(n)
  PROVE  HeadersInv'
<1>1. /\ doing = "keepalive" /\ n \in Available(rconf.small) /\ buffer' = Filled(Small, n) /\ received' = received + n
      /\ doing' = "init" /\ UNCHANGED <<rconf, serving, taken, heads, rb>>
  BY DEF NextRequest
<1>2. ReaderTypes /\ headerIn = Small /\ buffer[Small].pos = 1 /\ buffer[Small].last = 1
  BY <1>1 DEF HeadersInv, ListsOK
<1>3. rconf.small \in Nat /\ Size(headerIn) = rconf.small
  BY <1>2, ReaderConstants, BufferSizes
<1>4. n \in Nat \ {0} /\ n <= rconf.small /\ received + n <= Len(wire)
  <2> DEFINE room == rconf.small
  <2>1. room \in Int /\ n \in Available(room)
    BY <1>1, <1>3
  <2> HIDE DEF room
  <2>2. n \in Nat \ {0} /\ n <= room /\ received + n <= Len(wire)
    BY <2>1, AvailableIs
  <2> QED BY <2>2 DEF room
<1>5. In.pos = 1 /\ In.last = 1
  BY <1>2 DEF In
<1>6. In.last + n <= Size(headerIn) + 1 /\ In.pos = In.last
  BY <1>3, <1>4, <1>5
<1> QED BY <1>1, <1>2, <1>4, <1>6, HeadFilled

\* The parser takes what is there.
LEMMA HeaderParsed ==
  ASSUME HeadersInv, ParseLine
  PROVE  HeadersInv'
<1>1. doing \in {"line", "headers"} /\ UNCHANGED <<rconf, serving, received, headerIn, busyBufs, freeBufs, rb>>
  BY DEF ParseLine
<1>2. CASE Ends = {}
  <2>1. /\ buffer' = PosAt(In.last) /\ mid' = (LineStart < In.last) /\ start' = LineStart /\ taken' = taken + Unparsed
        /\ UNCHANGED <<doing, lines>>
    BY <1>2 DEF ParseLine, PosAt
  <2> QED BY <1>1, <1>2, <2>1, PartParsed
<1>3. CASE Ends # {}
  <2>1. /\ buffer' = PosAt(FirstEnd + 1) /\ mid' = FALSE /\ start' = FirstEnd + 1
        /\ taken' = taken + FirstEnd + 1 - In.pos
        /\ lines' = lines \cup {[buf |-> headerIn, from |-> LineStart, len |-> FirstEnd + 1 - LineStart,
                                 first |-> taken' - (FirstEnd - LineStart)]}
        /\ doing' = IF wire[In.mem[FirstEnd]] = "eoh" THEN "handler" ELSE "headers"
    BY <1>3 DEF ParseLine, PosAt
  <2> QED BY <1>1, <1>3, <2>1, LineParsed
<1> QED BY <1>2, <1>3

\* The buffer is full.
LEMMA LargeTaken ==
  ASSUME HeadersInv, AllocLarge
  PROVE  HeadersInv'
<1>1. /\ doing \in {"line", "headers"} /\ Unparsed = 0 /\ Full /\ UNCHANGED <<rconf, serving, received, taken, rb>>
  BY DEF AllocLarge
<1>2. CASE /\ doing = "line" /\ ~mid
           /\ buffer' = [buffer EXCEPT ![headerIn] = [mem |-> In.mem, pos |-> 1, last |-> 1]]
           /\ UNCHANGED <<doing, heads>>
  BY <1>1, <1>2, BlanksDropped
<1>3. CASE /\ doing = "headers" \/ mid
           /\ ~TooLong
           /\ TakesFree \/ MayCreate
           /\ buffer' = MovedTo(Large)
           /\ freeBufs' = IF TakesFree THEN Front(freeBufs) ELSE freeBufs
           /\ busyBufs' = Append(busyBufs, Large)
           /\ headerIn' = Large /\ start' = 1
           /\ UNCHANGED <<doing, mid, lines>>
  BY <1>1, <1>3, LineMoved
<1>4. CASE /\ doing = "headers" \/ mid
           /\ TooLong \/ ~(TakesFree \/ MayCreate)
           /\ doing' = "refused"
           /\ UNCHANGED <<buffer, heads>>
  BY <1>1, <1>4, HeaderRefused
<1> QED BY <1>2, <1>3, <1>4 DEF AllocLarge

\* The handler asks for the body.
LEMMA BodyAsked ==
  ASSUME HeadersInv, ReadBody
  PROVE  HeadersInv' /\ BodyOK' /\ BodyWhole'
<1>1. /\ doing = "handler" /\ buffer' = [buffer EXCEPT ![headerIn].pos = @ + Preread] /\ taken' = taken + Preread
      /\ UNCHANGED <<rconf, serving, received, heads>>
  BY DEF ReadBody
<1>2. CASE Preread = ContentLength /\ rb' = WholeBody /\ doing' = "body"
  BY <1>1, <1>2, BodyAtOnce
<1>3. CASE Preread < ContentLength /\ FitsHeaderIn /\ rb' = InHeaderIn /\ doing' = "reading"
  <2>1. HeadersInv' /\ BodyOK'
    BY <1>1, <1>3, RestInHeaderIn
  <2> QED BY <1>3, <2>1 DEF BodyWhole
<1>4. CASE Preread < ContentLength /\ ~FitsHeaderIn /\ rb' = OwnBuffer /\ doing' = "reading"
  <2>1. HeadersInv' /\ BodyOK'
    BY <1>1, <1>4, RestInOwn
  <2> QED BY <1>4, <2>1 DEF BodyWhole
<1> QED BY <1>2, <1>3, <1>4 DEF ReadBody

\* At the beginning nothing is received.
LEMMA ReaderBegins ==
  ASSUME ReaderInit
  PROVE  ReaderInv
<1>1. /\ rconf \in ReaderConfs /\ doing = "init" /\ serving = 1 /\ received = 0 /\ taken = 0
      /\ headerIn = Small /\ busyBufs = <<>> /\ freeBufs = <<>> /\ mid = FALSE /\ start = 1 /\ lines = {} /\ rb = NoBody
      /\ buffer = [b \in Buffers |-> Unused(Size(b))]
  BY DEF ReaderInit, Buffers
<1>2. NoBody \in Bodies
  <2>1. /\ [buf |-> Small, from |-> 1, len |-> 0] \in [buf : Nat, from : Nat \ {0}, len : Nat]
        /\ <<>> \in Seq(Nat) /\ <<>> \in Seq({"pre", "buf", "file"})
    BY EmptySeq DEF Small
  <2> QED BY <2>1 DEF NoBody, Bodies
<1>3. ReaderTypes
  <2>1. Len(wire) \in Nat
    <3>1. rconf.wire \in Seq(Kinds)
      BY <1>1, ReaderAssumption
    <3> QED BY <3>1, LenProperties DEF wire
  <2>2. Small \in Buffers
    BY DEF Buffers
  <2>3. <<>> \in Seq(1..rconf.num)
    OBVIOUS
  <2>4. rconf \in ReaderConfs /\ doing \in Doings /\ serving \in Nat \ {0}
    BY <1>1 DEF Doings
  <2>5. received \in Nat /\ taken \in Nat /\ received <= Len(wire) /\ start \in Nat \ {0}
    BY <1>1, <2>1
  <2>6. headerIn \in Buffers /\ busyBufs \in Seq(1..rconf.num) /\ freeBufs \in Seq(1..rconf.num) /\ rb \in Bodies
    BY <1>1, <1>2, <2>2, <2>3
  <2>7. mid \in BOOLEAN
    BY <1>1
  <2> QED BY <2>4, <2>5, <2>6, <2>7 DEF ReaderTypes
<1>4. /\ buffer \in [Buffers -> Chunks]
      /\ \A b \in Buffers : ChunkOK(buffer[b], b) /\ buffer[b].pos = 1 /\ buffer[b].last = 1
  BY <1>1, <1>3, NothingYet
<1>5. BuffersOK
  BY <1>4 DEF BuffersOK
<1>6. ListsOK
  <2>1. IsInjective(<<>>) /\ Len(<<>>) = 0
    BY DEF IsInjective
  <2>2. ToSet(<<>>) = {}
    BY DEF ToSet
  <2>3. \A b \in 1..rconf.num : b \in Buffers
    BY DEF Buffers
  <2>4. Small \in Buffers
    BY DEF Buffers
  <2> QED BY <1>1, <1>4, <2>1, <2>2, <2>3, <2>4 DEF ListsOK
<1>7. In.pos = 1 /\ In.last = 1
  BY <1>1, <1>4 DEF In, Buffers
<1>8. StreamOK
  <2>1. LineFrom = 1
    BY <1>1, <1>7 DEF LineFrom
  <2>2. \A i \in 1..(1 - 1) : FALSE
    OBVIOUS
  <2> QED BY <1>1, <1>7, <2>1, <2>2 DEF StreamOK
<1>9. PlaceOK
  <2>1. /\ Len(rconf.requests) \in Nat \ {0} /\ DOMAIN rconf.requests = 1..Len(rconf.requests) /\ Follow(rconf)
    BY <1>3, ReaderConstants
  <2>2. serving \in DOMAIN rconf.requests /\ serving <= Len(rconf.requests) + 1
    BY <1>1, <2>1
  <2>3. Before = 0
    BY <1>1, <2>1 DEF Before, BytesBefore, Follow
  <2> QED BY <1>1, <2>2, <2>3 DEF PlaceOK, Parsing
<1>10. LinesOK
  BY <1>1 DEF LinesOK
<1> QED BY <1>1, <1>3, <1>5, <1>6, <1>8, <1>9, <1>10 DEF ReaderInv, HeadersInv, BodyOK, BodyWhole

\* Every step keeps what the buffers hold.
LEMMA ReaderStep ==
  ASSUME ReaderInv, [ReaderNext]_readerVars
  PROVE  ReaderInv'
<1>1. HeadersInv /\ BodyOK /\ (QuarterBuffer => BodyWhole)
  BY DEF ReaderInv
<1>2. SUFFICES HeadersInv' /\ BodyOK' /\ (QuarterBuffer' => BodyWhole')
  BY DEF ReaderInv
<1>3. ASSUME HeadersInv', doing' \notin {"reading", "body"}
      PROVE  HeadersInv' /\ BodyOK' /\ (QuarterBuffer' => BodyWhole')
  BY <1>3 DEF BodyOK, BodyWhole
<1>4. ASSUME HeadersInv', BodyOK', doing' = "reading"
      PROVE  HeadersInv' /\ BodyOK' /\ (QuarterBuffer' => BodyWhole')
  BY <1>4 DEF BodyWhole
<1>5. CASE InitRequest
  BY <1>1, <1>3, <1>5, RequestBegins DEF InitRequest
<1>6. CASE ParseLine
  <2>1. doing' \notin {"reading", "body"}
    BY <1>6 DEF ParseLine
  <2> QED BY <1>1, <1>3, <1>6, <2>1, HeaderParsed
<1>7. CASE AllocLarge
  <2>1. doing' \notin {"reading", "body"}
    BY <1>7 DEF AllocLarge
  <2> QED BY <1>1, <1>3, <1>7, <2>1, LargeTaken
<1>8. CASE Discard
  <2>1. doing' \notin {"reading", "body"}
    BY <1>8 DEF Discard
  <2> QED BY <1>1, <1>3, <1>8, <2>1, BodyDiscarded
<1>9. CASE ReadBody
  BY <1>1, <1>9, BodyAsked
<1>10. CASE WriteFull
  <2>1. doing' = "reading"
    BY <1>10 DEF WriteFull
  <2> QED BY <1>1, <1>4, <1>10, <2>1, BufferWritten
<1>11. CASE BodyRead
  <2>1. doing' = "body"
    BY <1>11 DEF BodyRead
  <2> QED BY <1>1, <1>11, <2>1, BodyGiven DEF BodyOK
<1>12. CASE Respond
  <2>1. doing = "body" /\ doing' = "done" /\ UNCHANGED <<rconf, serving, received, taken, buffer, heads>> /\ rb' = rb
    BY <1>12 DEF Respond
  <2>2. rb' \in Bodies
    BY <1>1, <2>1 DEF HeadersInv, ReaderTypes
  <2> QED BY <1>1, <1>3, <2>1, <2>2, HeadStill
<1>13. CASE Pipelined
  BY <1>1, <1>3, <1>13, RequestFollows DEF Pipelined
<1>14. CASE Idle
  BY <1>1, <1>3, <1>14, ConnectionIdle DEF Idle
<1>15. CASE CloseConnection
  <2>1. doing' = "closed" /\ UNCHANGED <<rconf, serving, received, taken, buffer, heads>> /\ rb' = rb
    BY <1>15 DEF CloseConnection
  <2>2. rb' \in Bodies
    BY <1>1, <2>1 DEF HeadersInv, ReaderTypes
  <2> QED BY <1>1, <1>3, <2>1, <2>2, HeadStill
<1>16. ASSUME NEW n \in 1..Len(wire), ReadHeader(n)
       PROVE  HeadersInv' /\ BodyOK' /\ (QuarterBuffer' => BodyWhole')
  <2>1. doing' \notin {"reading", "body"}
    BY <1>16 DEF ReadHeader
  <2> QED BY <1>1, <1>3, <1>16, <2>1, HeaderRead
<1>17. ASSUME NEW n \in 1..Len(wire), ReadDiscarded(n)
       PROVE  HeadersInv' /\ BodyOK' /\ (QuarterBuffer' => BodyWhole')
  <2>1. doing' \notin {"reading", "body"}
    BY <1>17 DEF ReadDiscarded
  <2> QED BY <1>1, <1>3, <1>17, <2>1, RestDiscarded
<1>18. ASSUME NEW n \in 1..Len(wire), RecvBody(n)
       PROVE  HeadersInv' /\ BodyOK' /\ (QuarterBuffer' => BodyWhole')
  <2>1. doing' = "reading" /\ n \in Nat
    BY <1>18 DEF RecvBody
  <2> QED BY <1>1, <1>4, <1>18, <2>1, ReadIntoHeaderIn, ReadIntoOwn
<1>19. ASSUME NEW n \in 1..Len(wire), NextRequest(n)
       PROVE  HeadersInv' /\ BodyOK' /\ (QuarterBuffer' => BodyWhole')
  <2>1. doing' \notin {"reading", "body"}
    BY <1>19 DEF NextRequest
  <2> QED BY <1>1, <1>3, <1>19, <2>1, NextComes
<1>20. CASE UNCHANGED readerVars
  <2>1. /\ UNCHANGED <<rconf, doing, serving, received, taken, buffer, rb>>
        /\ UNCHANGED <<headerIn, busyBufs, freeBufs, mid, start, lines>>
    BY <1>20 DEF readerVars
  <2>2. ReaderTypes' /\ BuffersOK'
    BY <1>1, <2>1 DEF HeadersInv, ReaderTypes, BuffersOK, ChunkOK, Size, Buffers, wire
  <2>3. ListsOK' /\ LinesOK'
    BY <1>1, <2>1 DEF HeadersInv, ListsOK, LinesOK
  <2>4. StreamOK' /\ PlaceOK'
    BY <1>1, <2>1 DEF HeadersInv, StreamOK, PlaceOK, In, LineFrom, Before, BytesBefore, BodyAt, Current, wire, ShortHeader
  <2>5. BodyOK'
    BY <1>1, <2>1 DEF BodyOK, Slice, BodyAt, Before, BytesBefore, wire, Current, Size, HeaderOK, OwnBufferOK, Split, Together,
                      OwnFirst, QuarterBuffer
  <2>6. QuarterBuffer' => BodyWhole'
    <3>1. Slice(rb.pre)' = Slice(rb.pre)
      BY <2>1 DEF Slice
    <3>2. Contents(rb, rb.bufs)' = Contents(rb, rb.bufs)
      BY <2>1, <3>1 DEF Contents, Held
    <3>3. BodyAt' = BodyAt /\ Current' = Current /\ QuarterBuffer' = QuarterBuffer
      BY <2>1 DEF BodyAt, Before, BytesBefore, wire, Current, QuarterBuffer
    <3>4. BodyWhole' = BodyWhole
      BY <2>1, <3>2, <3>3 DEF BodyWhole
    <3> QED BY <1>1, <3>3, <3>4
  <2> QED BY <2>2, <2>3, <2>4, <2>5, <2>6 DEF HeadersInv
<1> QED BY <1>5, <1>6, <1>7, <1>8, <1>9, <1>10, <1>11, <1>12, <1>13, <1>14, <1>15, <1>16, <1>17, <1>18, <1>19, <1>20
        DEF ReaderNext

\* What the handlers rely on follows.
LEMMA HeadersRelied ==
  ASSUME HeadersInv
  PROVE  HeadersIntact
<1>1. ReaderTypes /\ ListsOK /\ StreamOK /\ PlaceOK /\ LinesOK
  BY DEF HeadersInv
<1>2. /\ received = taken + In.last - In.pos /\ Unparsed = In.last - In.pos /\ In.pos \in Nat /\ In.last \in Nat
      /\ LineFrom \in Nat /\ LineFrom <= In.pos /\ taken \in Nat
      /\ \A i \in LineFrom..(In.last - 1) : In.mem[i] = taken + i - In.pos + 1
  BY InKnown
<1>3. NothingSkipped
  <2>1. \A i \in In.pos..(In.last - 1) : i \in LineFrom..(In.last - 1)
    BY <1>2
  <2>2. received = taken + Unparsed
    BY <1>2
  <2> QED BY <1>2, <2>1, <2>2 DEF NothingSkipped
<1>4. doing \in {"init", "keepalive"} => taken = BytesBefore(serving)
  BY <1>1 DEF PlaceOK, Before
<1>5. doing = "refused" => ~ShortHeader(rconf.requests[serving])
  BY <1>1 DEF PlaceOK, Current
<1> QED BY <1>1, <1>3, <1>4, <1>5 DEF HeadersIntact, LinesOK

\* So does what a handler relies on for the body.
LEMMA BodyRelied ==
  ASSUME HeadersInv, BodyWhole
  PROVE  BodyExact
<1>1. SUFFICES ASSUME doing = "body" PROVE BodyExact
  BY DEF BodyExact
<1>2. serving \in DOMAIN rconf.requests /\ ReaderTypes
  BY <1>1 DEF HeadersInv, PlaceOK
<1>3. BodyAt \in Nat /\ Current.body \in Nat /\ ContentLength = Current.body
      /\ BodyAt = BytesBefore(serving) + rconf.requests[serving].header
  BY <1>2, RequestLies DEF Before, Current
<1> DEFINE n == ContentLength f == BodyAt
<1>4. Bytes(f, f + n) = [i \in 1..n |-> f + i]
  <2>1. f \in Nat /\ n \in Nat
    BY <1>3
  <2> HIDE DEF f, n
  <2> QED BY <2>1, BytesNext
<1>5. /\ Contents(rb, rb.bufs) = [i \in 1..ContentLength |-> BodyAt + i]
      /\ rconf.only /\ ContentLength > 0 => rb.file = [i \in 1..ContentLength |-> BodyAt + i]
      /\ rconf.single => Len(rb.bufs) <= 1
  BY <1>1, <1>3, <1>4 DEF BodyWhole
<1> QED BY <1>3, <1>5 DEF BodyExact

\* No byte of the stream is lost or parsed twice, and the lines of a request stay where it
\* points to (HeadersIntact), for buffers of every size and number and however the bytes
\* arrive.
ReaderSpec == ReaderInit /\ [][ReaderNext]_readerVars
THEOREM HeadersCorrect == ReaderSpec => []HeadersIntact
<1>1. ReaderInit => ReaderInv
  BY ReaderBegins
<1>2. ReaderInv /\ [ReaderNext]_readerVars => ReaderInv'
  BY ReaderStep
<1>3. ReaderInv => HeadersIntact
  BY HeadersRelied DEF ReaderInv
<1> QED BY <1>1, <1>2, <1>3, PTL DEF ReaderSpec

\* The handler of a request is given its body, whole and in order (BodyExact), whatever the
\* sizes of the buffers; where a body has to be in one buffer, a quarter of
\* client_body_buffer_size is a byte at least.
THEOREM BodiesCorrect ==
  ASSUME \A c \in ReaderConfs : c.single => c.size >= 4
  PROVE  ReaderSpec => []BodyExact
<1>1. ReaderInit => ReaderInv
  BY ReaderBegins
<1>2. ReaderInv /\ [ReaderNext]_readerVars => ReaderInv'
  BY ReaderStep
<1>3. ReaderInv => BodyExact
  <2>1. HeadersInv => QuarterBuffer
    BY DEF HeadersInv, ReaderTypes, QuarterBuffer
  <2> QED BY <2>1, BodyRelied DEF ReaderInv
<1> QED BY <1>1, <1>2, <1>3, PTL DEF ReaderSpec
=============================================================================
