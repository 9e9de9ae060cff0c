---------------------------- MODULE ShMtxProofs ----------------------------
(***************************************************************************)
(* Proofs about ShMtx, for any finite set of processes, any number of spin *)
(* rounds, with or without a semaphore and with any number of faults.      *)
(***************************************************************************)
EXTENDS ShMtx, FiniteSetTheorems, TLAPS

\* What the local copy of the word says at the points where it is used: the lock
\* was free when it was read before the bit is set, and taken before a waiter is announced.
ValOK == \A p \in Procs : /\ pc[p] \in {"cas", "trycas"} => ~val[p].locked
                          /\ pc[p] = "waitcas" => val[p].locked

\* The inductive invariant of mutual exclusion.
MutexInv == TypeOK /\ ValOK /\ MutualExclusion

\* Why no sleeper is stranded: announced waiters of a free lock always have a
\* token, a post or a process on its way to the lock.
Handover == ~word.locked /\ word.wait > 0 /\ lost = 0 /\ At({"dead"}) = {}
              => sem > 0 \/ At({"post"}) # {} \/ At(Locking) # {}

-----------------------------------------------------------------------------
\* The initial state of a freshly created mutex has the right types.
LEMMA TypeInit == Init => TypeOK
BY ParamAssumption DEF Init, TypeOK, Word, Free, Points

\* A word nobody holds or waits for.
LEMMA FreeWord == Free \in Word /\ ~Free.locked /\ Free.wait = 0
BY DEF Free, Word

\* The words that lock, announce and unlock store are words.
LEMMA WordOps ==
  ASSUME NEW w \in Word
  PROVE  /\ Taken(w) \in Word /\ Taken(w).locked /\ Taken(w).wait = w.wait
         /\ Released(w) \in Word /\ ~Released(w).locked
         /\ Released(w).wait = IF w.wait > 0 THEN w.wait - 1 ELSE 0
         /\ Announced(w) \in Word /\ Announced(w).locked = w.locked
         /\ Announced(w).wait = w.wait + 1
BY DEF Word, Taken, Announced, Released

\* Every step of the three functions and every fault keeps the types.
LEMMA TypeNext == TypeOK /\ [Next]_vars => TypeOK'
<1> SUFFICES ASSUME TypeOK, [Next]_vars PROVE TypeOK'
  OBVIOUS
<1> USE ParamAssumption, WordOps, FreeWord DEF TypeOK, Points, Locking, Owning
<1>1. ASSUME UNCHANGED vars PROVE TypeOK'
  BY <1>1 DEF vars
<1>2. ASSUME NEW p \in Procs, TryLock(p) PROVE TypeOK'
  BY <1>2 DEF TryLock, ReadWord, Goto, NoFault
<1>3. ASSUME NEW p \in Procs, TryCas(p) PROVE TypeOK'
  BY <1>3 DEF TryCas, Forget, Goto, NoFault
<1>4. ASSUME NEW p \in Procs, Lock(p) PROVE TypeOK'
  BY <1>4 DEF Lock, Goto, NoFault
<1>5. ASSUME NEW p \in Procs, LockRead(p) PROVE TypeOK'
  <2>1. CASE ~word.locked
    BY <1>5, <2>1 DEF LockRead, ReadWord, Goto, NoFault
  <2>2. CASE word.locked
    BY <1>5, <2>2 DEF LockRead, NextTry, Goto, NoFault
  <2> QED BY <2>1, <2>2
<1>6. ASSUME NEW p \in Procs, Cas(p) PROVE TypeOK'
  <2>1. CASE word = val[p]
    BY <1>6, <2>1 DEF Cas, Forget, Goto, NoFault
  <2>2. CASE word # val[p]
    BY <1>6, <2>2 DEF Cas, NextTry, Forget, Goto, NoFault
  <2> QED BY <2>1, <2>2
<1>7. ASSUME NEW p \in Procs, WaitRead(p) PROVE TypeOK'
  BY <1>7 DEF WaitRead, ReadWord, Goto, NoFault
<1>8. ASSUME NEW p \in Procs, WaitCas(p) PROVE TypeOK'
  BY <1>8 DEF WaitCas, Forget, Goto, NoFault
<1>9. ASSUME NEW p \in Procs, SemWait(p) PROVE TypeOK'
  BY <1>9 DEF SemWait, Goto, NoFault
<1>10. ASSUME NEW p \in Procs, UnlockRead(p) PROVE TypeOK'
  BY <1>10 DEF UnlockRead, ReadWord, Goto, NoFault
<1>11. ASSUME NEW p \in Procs, UnlockCas(p) PROVE TypeOK'
  BY <1>11 DEF UnlockCas, Forget, Goto, NoFault
<1>12. ASSUME NEW p \in Procs, SemPost(p) PROVE TypeOK'
  BY <1>12 DEF SemPost, Goto, NoFault
<1>13. ASSUME NEW p \in Procs, Fault(p) PROVE TypeOK'
  <2>1. CASE SemWaitFail(p)
    BY <2>1 DEF SemWaitFail, Goto
  <2>2. CASE SemPostFail(p)
    BY <2>2 DEF SemPostFail, Goto
  <2>3. CASE Crash(p)
    BY <2>3 DEF Crash, Goto, Forget
  <2> QED BY <1>13, <2>1, <2>2, <2>3 DEF Fault
<1> QED
  BY <1>1, <1>2, <1>3, <1>4, <1>5, <1>6, <1>7, <1>8, <1>9, <1>10, <1>11, <1>12, <1>13
  DEF Next, Progress

\* Type correctness of the mutex, faults included.
THEOREM TypeCorrect == Spec => []TypeOK
BY TypeInit, TypeNext, PTL DEF Spec

-----------------------------------------------------------------------------
\* A process that moves from one program point to another changes the set of the
\* processes at the points S by itself only.
LEMMA AtMove ==
  ASSUME pc \in [Procs -> Points], NEW p \in Procs, NEW to, Goto(p, to), NEW S
  PROVE  At(S)' = IF to \in S THEN At(S) \cup {p} ELSE At(S) \ {p}
BY DEF At, Goto

\* A move between two points of S, or between two others, leaves that set alone.
LEMMA AtKeep ==
  ASSUME pc \in [Procs -> Points], NEW p \in Procs, NEW to, Goto(p, to), NEW S,
         to \in S <=> pc[p] \in S
  PROVE  At(S)' = At(S)
BY DEF At, Goto

\* ValOK is inductive: only the two reads that tested the word store a live copy of it.
LEMMA ValNext == TypeOK /\ ValOK /\ [Next]_vars => ValOK'
<1> SUFFICES ASSUME TypeOK, ValOK, [Next]_vars, NEW q \in Procs
             PROVE  /\ (pc[q] \in {"cas", "trycas"} => ~val[q].locked)'
                    /\ (pc[q] = "waitcas" => val[q].locked)'
  BY DEF ValOK
<1> USE DEF TypeOK, ValOK, Goto
<1>1. CASE UNCHANGED vars
  BY <1>1 DEF vars
<1>2. ASSUME NEW p \in Procs, TryLock(p) \/ Lock(p) \/ LockRead(p) \/ WaitRead(p) \/ UnlockRead(p)
      PROVE  /\ pc'[q] \in {"cas", "trycas"} => ~val'[q].locked
             /\ pc'[q] = "waitcas" => val'[q].locked
  BY <1>2 DEF TryLock, Lock, LockRead, WaitRead, UnlockRead, ReadWord, NextTry
<1>3. ASSUME NEW p \in Procs, TryCas(p) \/ Cas(p) \/ WaitCas(p) \/ UnlockCas(p)
      PROVE  /\ pc'[q] \in {"cas", "trycas"} => ~val'[q].locked
             /\ pc'[q] = "waitcas" => val'[q].locked
  BY <1>3 DEF TryCas, Cas, WaitCas, UnlockCas, Forget, NextTry
<1>4. ASSUME NEW p \in Procs, SemWait(p) \/ SemPost(p) \/ Fault(p)
      PROVE  /\ pc'[q] \in {"cas", "trycas"} => ~val'[q].locked
             /\ pc'[q] = "waitcas" => val'[q].locked
  BY <1>4 DEF SemWait, SemPost, Fault, SemWaitFail, SemPostFail, Crash, Forget
<1> QED BY <1>1, <1>2, <1>3, <1>4 DEF Next, Progress

(***************************************************************************)
(* The three kinds of steps: the owner stays, a process becomes the owner  *)
(* of a free lock, or the owner gives the lock back.                       *)
(***************************************************************************)
KeepStep       == At(Owning)' = At(Owning) /\ word'.locked = word.locked
AcquireStep(p) == At(Owning) = {} /\ At(Owning)' = {p} /\ word'.locked
ReleaseStep(p) == At(Owning) = {p} /\ At(Owning)' = {} /\ ~word'.locked

\* Every step of the mutex is of one of the three kinds.
LEMMA StepKinds ==
  ASSUME MutexInv, [Next]_vars
  PROVE  KeepStep \/ \E p \in Procs : AcquireStep(p) \/ ReleaseStep(p)
<1> USE DEF MutexInv, TypeOK
<1>1. CASE UNCHANGED vars
  BY <1>1 DEF vars, KeepStep, At
<1>0. ASSUME NEW p \in Procs, NEW to, Goto(p, to), to \in Owning <=> pc[p] \in Owning,
             word'.locked = word.locked
      PROVE  KeepStep
  BY <1>0, AtKeep DEF KeepStep
<1>2. ASSUME NEW p \in Procs, TryLock(p) \/ Lock(p) \/ LockRead(p) \/ WaitRead(p) \/ UnlockRead(p)
      PROVE  KeepStep
  <2>1. PICK to : Goto(p, to) /\ (to \in Owning <=> pc[p] \in Owning)
    BY <1>2 DEF TryLock, Lock, LockRead, WaitRead, UnlockRead, NextTry, Owning
  <2>2. word' = word
    BY <1>2 DEF TryLock, Lock, LockRead, WaitRead, UnlockRead
  <2> QED BY <1>0, <2>1, <2>2
<1>3. ASSUME NEW p \in Procs, SemWait(p) \/ SemPost(p) \/ Fault(p)
      PROVE  KeepStep
  <2>1. PICK to : Goto(p, to) /\ (to \in Owning <=> pc[p] \in Owning)
    BY <1>3 DEF SemWait, SemPost, Fault, SemWaitFail, SemPostFail, Crash, Owning
  <2>2. word' = word
    BY <1>3 DEF SemWait, SemPost, Fault, SemWaitFail, SemPostFail, Crash
  <2> QED BY <1>0, <2>1, <2>2
<1>4. ASSUME NEW p \in Procs, WaitCas(p) PROVE KeepStep
  <2>1. PICK to : Goto(p, to) /\ (to \in Owning <=> pc[p] \in Owning)
    BY <1>4 DEF WaitCas, Owning
  <2>2. word'.locked = word.locked
    BY <1>4, WordOps DEF WaitCas
  <2> QED BY <1>0, <2>1, <2>2
<1>5. ASSUME NEW p \in Procs, TryCas(p) \/ Cas(p) PROVE KeepStep \/ AcquireStep(p)
  <2>1. CASE word = val[p]
    <3>1. At(Owning) = {}
      BY <1>5, <2>1 DEF TryCas, Cas, ValOK, MutualExclusion
    <3>2. Goto(p, "cs") /\ word' = Taken(word)
      BY <1>5, <2>1 DEF TryCas, Cas
    <3> QED BY <3>1, <3>2, AtMove, WordOps DEF AcquireStep, Owning
  <2>2. CASE word # val[p]
    <3>1. PICK to : Goto(p, to) /\ (to \in Owning <=> pc[p] \in Owning)
      BY <1>5, <2>2 DEF TryCas, Cas, NextTry, Owning
    <3>2. word' = word
      BY <1>5, <2>2 DEF TryCas, Cas
    <3> QED BY <1>0, <3>1, <3>2
  <2> QED BY <2>1, <2>2
<1>6. ASSUME NEW p \in Procs, UnlockCas(p) PROVE KeepStep \/ ReleaseStep(p)
  <2>0. At(Owning) = {p}
    BY <1>6 DEF UnlockCas, MutualExclusion, At, Owning
  <2>1. CASE word = val[p]
    <3>1. word' = Released(word) /\ (Goto(p, "idle") \/ Goto(p, "post"))
      BY <1>6, <2>1 DEF UnlockCas
    <3> QED BY <2>0, <3>1, AtMove, WordOps DEF ReleaseStep, Owning
  <2>2. CASE word # val[p]
    BY <1>6, <2>0, <2>2, AtMove DEF UnlockCas, KeepStep, Owning
  <2> QED BY <2>1, <2>2
<1> QED BY <1>1, <1>2, <1>3, <1>4, <1>5, <1>6 DEF Next, Progress

\* The inductive invariant holds of a new mutex and every step keeps it.
LEMMA MutexInvariance == Spec => []MutexInv
<1>1. Init => MutexInv
  BY TypeInit, FreeWord DEF Init, MutexInv, ValOK, MutualExclusion, At, Owning
<1>2. MutexInv /\ [Next]_vars => MutexInv'
  <2> SUFFICES ASSUME MutexInv, [Next]_vars PROVE MutualExclusion'
    BY TypeNext, ValNext DEF MutexInv
  <2> QED BY StepKinds DEF KeepStep, AcquireStep, ReleaseStep, MutexInv, MutualExclusion
<1> QED BY <1>1, <1>2, PTL DEF Spec

\* Mutual exclusion: ngx_shmtx_lock() and ngx_shmtx_trylock() never admit a second
\* process, and the bit is set exactly while one is inside.
THEOREM MutexSafe == Spec => []MutualExclusion
BY MutexInvariance, PTL DEF MutexInv

-----------------------------------------------------------------------------
\* With one process in the lock the refinement mapping names it.
LEMMA OwnerIs ==
  /\ At(Owning) = {} => Owner = None
  /\ \A p \in Procs : At(Owning) = {p} => Owner = p
BY DEF Owner, At

\* The same in the next state.
LEMMA OwnerIsNext ==
  /\ At(Owning)' = {} => Owner' = None
  /\ \A p \in Procs : At(Owning)' = {p} => Owner' = p
BY DEF Owner, At

\* The word, the waiter count and the semaphore implement the abstract mutex.
THEOREM Refinement == Spec => M!Spec
<1>1. Init => M!Init
  BY OwnerIs DEF Init, M!Init, At, Owning
<1>2. MutexInv /\ [Next]_vars => [M!Next]_Owner
  <2> SUFFICES ASSUME MutexInv, [Next]_vars PROVE M!Next \/ Owner' = Owner
    OBVIOUS
  <2>1. CASE KeepStep
    <3>1. \/ At(Owning) = {}
          \/ \E p \in Procs : At(Owning) = {p}
      BY DEF MutexInv, MutualExclusion, At
    <3> QED BY <2>1, <3>1, OwnerIs, OwnerIsNext DEF KeepStep
  <2>2. ASSUME NEW p \in Procs, AcquireStep(p) PROVE M!Next
    BY <2>2, OwnerIs, OwnerIsNext DEF AcquireStep, M!Next, M!Acquire
  <2>3. ASSUME NEW p \in Procs, ReleaseStep(p) PROVE M!Next
    BY <2>3, OwnerIs, OwnerIsNext DEF ReleaseStep, M!Next, M!Release
  <2> QED BY <2>1, <2>2, <2>3, StepKinds
<1> QED BY <1>1, <1>2, MutexInvariance, PTL DEF Spec, M!Spec

-----------------------------------------------------------------------------
(* Counting sleepers *)

\* Without a semaphore nobody announces himself, sleeps or posts.
NoSemOK == ~HasSemaphore => /\ word.wait = 0
                            /\ At({"wait", "waitcas", "sleep", "post"}) = {}

\* How the number of processes at the points S changes when p moves.
LEMMA CardMove ==
  ASSUME pc \in [Procs -> Points], NEW p \in Procs, NEW to, Goto(p, to), NEW S
  PROVE  /\ Cardinality(At(S)) \in Nat
         /\ (to \in S <=> pc[p] \in S) => Cardinality(At(S)') = Cardinality(At(S))
         /\ to \in S /\ pc[p] \notin S => Cardinality(At(S)') = Cardinality(At(S)) + 1
         /\ to \notin S /\ pc[p] \in S => Cardinality(At(S)') = Cardinality(At(S)) - 1
<1>1. IsFiniteSet(At(S))
  BY ProcsAssumption, FS_Subset DEF At
<1>2. pc[p] \in S <=> p \in At(S)
  BY DEF At
<1> QED
  BY <1>1, <1>2, AtMove, AtKeep, FS_CardinalityType, FS_AddElement, FS_RemoveElement

\* NoSemOK is inductive.
LEMMA NoSemNext == TypeOK /\ NoSemOK /\ [Next]_vars => NoSemOK'
<1> SUFFICES ASSUME TypeOK, NoSemOK, [Next]_vars, ~HasSemaphore
             PROVE  /\ word'.wait = 0
                    /\ At({"wait", "waitcas", "sleep", "post"})' = {}
  BY DEF NoSemOK
<1> DEFINE Q == {"wait", "waitcas", "sleep", "post"}
<1>0. word.wait = 0 /\ At(Q) = {}
  BY DEF NoSemOK
<1>1. CASE UNCHANGED vars
  BY <1>0, <1>1 DEF vars, At
<1>2. ASSUME NEW p \in Procs, TryLock(p) \/ Lock(p) \/ Progress(p) \/ Fault(p)
      PROVE  word'.wait = 0 /\ At(Q)' = {}
  <2>0. pc[p] \notin Q
    BY <1>0 DEF At
  <2>1. PICK to : Goto(p, to) /\ to \notin Q
    BY <1>2, <2>0
    DEF TryLock, Lock, Progress, Fault, TryCas, LockRead, Cas, WaitRead, WaitCas, SemWait,
        UnlockRead, UnlockCas, SemPost, SemWaitFail, SemPostFail, Crash, NextTry, Owning
  <2>2. word'.wait = 0
    BY <1>0, <1>2, <2>0, WordOps
    DEF TypeOK, TryLock, Lock, Progress, Fault, TryCas, LockRead, Cas, WaitRead, WaitCas,
        SemWait, UnlockRead, UnlockCas, SemPost, SemWaitFail, SemPostFail, Crash
  <2> QED BY <1>0, <2>0, <2>1, <2>2, AtMove DEF TypeOK
<1> QED BY <1>1, <1>2 DEF Next

\* Every step keeps the account of waiters, tokens, posts and sleepers.
LEMMA AccountNext ==
  TypeOK /\ NoSemOK /\ WaitAccounting /\ [Next]_vars => WaitAccounting'
<1> SUFFICES ASSUME TypeOK, NoSemOK, WaitAccounting, [Next]_vars PROVE WaitAccounting'
  OBVIOUS
<1> USE DEF TypeOK
<1> DEFINE nPost == Cardinality(At({"post"}))
           nSleep == Cardinality(At({"sleep"}))
<1> HIDE DEF nPost, nSleep
<1>0. word.wait \in Nat
  BY DEF Word
<1>1. CASE UNCHANGED vars
  BY <1>1 DEF vars, WaitAccounting, At
<1>2. ASSUME NEW p \in Procs, NEW to, Goto(p, to)
      PROVE  /\ nPost \in Nat /\ nSleep \in Nat
             /\ (to = "post" <=> pc[p] = "post") => nPost' = nPost
             /\ to = "post" /\ pc[p] # "post" => nPost' = nPost + 1
             /\ to # "post" /\ pc[p] = "post" => nPost' = nPost - 1
             /\ (to = "sleep" <=> pc[p] = "sleep") => nSleep' = nSleep
             /\ to = "sleep" /\ pc[p] # "sleep" => nSleep' = nSleep + 1
             /\ to # "sleep" /\ pc[p] = "sleep" => nSleep' = nSleep - 1
  BY <1>2, CardMove DEF nPost, nSleep
<1> USE DEF WaitAccounting
<1>3. WaitAccounting => word.wait + sem + nPost + lost = nSleep + leaked
  BY DEF nPost, nSleep
<1>4. word'.wait + sem' + nPost' + lost' = nSleep' + leaked' => WaitAccounting'
  BY DEF nPost, nSleep
<1> HIDE DEF WaitAccounting
<1>5. ASSUME NEW p \in Procs,
             TryLock(p) \/ Lock(p) \/ LockRead(p) \/ WaitRead(p) \/ UnlockRead(p)
      PROVE  WaitAccounting'
  <2>1. PICK to : Goto(p, to) /\ to \notin {"post", "sleep"} /\ pc[p] \notin {"post", "sleep"}
    BY <1>5 DEF TryLock, Lock, LockRead, WaitRead, UnlockRead, NextTry
  <2>2. UNCHANGED <<word, sem, lost, leaked>>
    BY <1>5 DEF TryLock, Lock, LockRead, WaitRead, UnlockRead, NoFault
  <2> QED BY <1>2, <1>3, <1>4, <2>1, <2>2
<1>6. ASSUME NEW p \in Procs, TryCas(p) \/ Cas(p) PROVE WaitAccounting'
  <2>1. PICK to : Goto(p, to) /\ to \notin {"post", "sleep"} /\ pc[p] \notin {"post", "sleep"}
    BY <1>6 DEF TryCas, Cas, NextTry
  <2>2. word'.wait = word.wait /\ UNCHANGED <<sem, lost, leaked>>
    BY <1>6, WordOps DEF TryCas, Cas, NoFault
  <2> QED BY <1>2, <1>3, <1>4, <2>1, <2>2
<1>7. ASSUME NEW p \in Procs, WaitCas(p) PROVE WaitAccounting'
  <2>1. UNCHANGED <<sem, lost, leaked>> /\ pc[p] \notin {"post", "sleep"}
    BY <1>7 DEF WaitCas, NoFault
  <2>2. \/ word' = word /\ Goto(p, "read")
        \/ word'.wait = word.wait + 1 /\ Goto(p, "sleep")
    BY <1>7, WordOps DEF WaitCas
  <2> QED BY <1>0, <1>2, <1>3, <1>4, <2>1, <2>2
<1>8. ASSUME NEW p \in Procs, UnlockCas(p) PROVE WaitAccounting'
  <2>1. UNCHANGED <<sem, lost, leaked>> /\ pc[p] \notin {"post", "sleep"}
    BY <1>8 DEF UnlockCas, NoFault
  <2>2. \/ word' = word /\ Goto(p, "unlock")
        \/ word.wait = 0 /\ word'.wait = 0 /\ Goto(p, "idle")
        \/ word.wait > 0 /\ word'.wait = word.wait - 1 /\ Goto(p, "post")
    BY <1>0, <1>8, WordOps DEF UnlockCas, NoSemOK
  <2> QED BY <1>0, <1>2, <1>3, <1>4, <2>1, <2>2
<1>9. ASSUME NEW p \in Procs, SemWait(p) \/ SemPost(p) \/ SemWaitFail(p) \/ SemPostFail(p)
      PROVE  WaitAccounting'
  <2>1. CASE SemWait(p)
    BY <1>0, <1>2, <1>3, <1>4, <2>1 DEF SemWait, NoFault
  <2>2. CASE SemPost(p)
    BY <1>0, <1>2, <1>3, <1>4, <2>2 DEF SemPost, NoFault
  <2>3. CASE SemWaitFail(p)
    BY <1>0, <1>2, <1>3, <1>4, <2>3 DEF SemWaitFail
  <2>4. CASE SemPostFail(p)
    BY <1>0, <1>2, <1>3, <1>4, <2>4 DEF SemPostFail
  <2> QED BY <1>9, <2>1, <2>2, <2>3, <2>4
<1>10. ASSUME NEW p \in Procs, Crash(p) PROVE WaitAccounting'
  <2>1. PICK to : Goto(p, to) /\ to \notin {"post", "sleep"}
    BY <1>10 DEF Crash
  <2> QED BY <1>0, <1>2, <1>3, <1>4, <1>10, <2>1 DEF Crash
<1> QED
  BY <1>1, <1>5, <1>6, <1>7, <1>8, <1>9, <1>10 DEF Next, Progress, Fault

\* No wake-up is duplicated or lost in the account of ngx_shmtx_t, whatever fails.
THEOREM Accounting == Spec => [](NoSemOK /\ WaitAccounting)
<1>1. Init => NoSemOK /\ WaitAccounting
  <2> SUFFICES ASSUME Init PROVE NoSemOK /\ WaitAccounting
    OBVIOUS
  <2>1. At({"post"}) = {} /\ At({"sleep"}) = {} /\ At({"wait", "waitcas", "sleep", "post"}) = {}
    BY DEF Init, At
  <2>2. Cardinality(At({"post"})) = 0 /\ Cardinality(At({"sleep"})) = 0
    BY <2>1, FS_EmptySet
  <2>3. WaitAccounting
    BY <2>2, FreeWord DEF Init, WaitAccounting
  <2>4. NoSemOK
    BY <2>1, FreeWord DEF Init, NoSemOK
  <2> QED BY <2>3, <2>4
<1> QED BY <1>1, TypeCorrect, NoSemNext, AccountNext, PTL DEF Spec

-----------------------------------------------------------------------------
(* No lost wake-up *)

\* Every step keeps Handover: a free lock with announced waiters has somebody
\* on the way to it, or a token or a post that will wake somebody.
LEMMA HandoverNext ==
  MutexInv /\ NoSemOK /\ Handover /\ [Next]_vars => Handover'
<1> SUFFICES ASSUME MutexInv, NoSemOK, Handover, [Next]_vars,
                    ~word'.locked, word'.wait > 0, lost' = 0, At({"dead"})' = {}
             PROVE  sem' > 0 \/ At({"post"})' # {} \/ At(Locking)' # {}
  BY DEF Handover
<1> USE DEF MutexInv, TypeOK
<1>0. word.wait \in Nat /\ lost \in Nat
  BY DEF Word
<1>1. CASE UNCHANGED vars
  BY <1>1 DEF vars, Handover, At
<1>2. ASSUME NEW p \in Procs, NEW to, Goto(p, to), to \in Locking \cup {"post"}
      PROVE  At({"post"})' # {} \/ At(Locking)' # {}
  BY <1>2, AtMove
<1>3. ASSUME NEW p \in Procs, NEW to, Goto(p, to), to \notin Locking \cup {"post"},
             pc[p] \notin Locking \cup {"post"}
      PROVE  At({"post"})' = At({"post"}) /\ At(Locking)' = At(Locking)
  BY <1>3, AtKeep
<1>5. ASSUME NEW p \in Procs, Lock(p) \/ LockRead(p) \/ WaitRead(p) \/ SemWait(p) \/ SemWaitFail(p)
      PROVE  At(Locking)' # {}
  <2>1. PICK to : Goto(p, to) /\ to \in Locking
    BY <1>5 DEF Lock, LockRead, WaitRead, SemWait, SemWaitFail, NextTry, Locking
  <2> QED BY <2>1, AtMove
<1>6. ASSUME NEW p \in Procs, TryLock(p) \/ UnlockRead(p) \/ TryCas(p)
      PROVE  sem' > 0 \/ At({"post"})' # {} \/ At(Locking)' # {}
  <2>1. PICK to : Goto(p, to) /\ to \notin Locking \cup {"post", "dead"}
                              /\ pc[p] \notin Locking \cup {"post", "dead"}
    BY <1>6 DEF TryLock, UnlockRead, TryCas, Locking
  <2>2. word' = word /\ sem' = sem /\ lost' = lost
    BY <1>6, WordOps DEF TryLock, UnlockRead, TryCas, NoFault
  <2>3. At({"dead"}) = {}
    BY <2>1, AtKeep
  <2> QED BY <1>3, <2>1, <2>2, <2>3 DEF Handover
<1>7. ASSUME NEW p \in Procs, Cas(p) PROVE At(Locking)' # {}
  <2>1. word # val[p]
    BY <1>7, WordOps DEF Cas
  <2>2. PICK to : Goto(p, to) /\ to \in Locking
    BY <1>7, <2>1 DEF Cas, NextTry, Locking
  <2> QED BY <2>2, AtMove
<1>8. ASSUME NEW p \in Procs, WaitCas(p) PROVE At(Locking)' # {}
  <2>1. word # val[p]
    BY <1>8, WordOps DEF WaitCas, ValOK
  <2>2. Goto(p, "read")
    BY <1>8, <2>1 DEF WaitCas
  <2> QED BY <2>2, AtMove DEF Locking
<1>9. ASSUME NEW p \in Procs, UnlockCas(p) PROVE At({"post"})' # {}
  <2>1. word.locked
    BY <1>9 DEF UnlockCas, MutualExclusion, At, Owning
  <2>2. word = val[p]
    BY <1>9, <2>1 DEF UnlockCas
  <2>3. word' = Released(word)
    BY <1>9, <2>2 DEF UnlockCas
  <2>4. word.wait # 0
    BY <1>0, <2>3, WordOps
  <2>5. Goto(p, "post")
    BY <1>9, <2>2, <2>4 DEF UnlockCas, NoSemOK
  <2> QED BY <2>5, AtMove
<1>10. ASSUME NEW p \in Procs, SemPost(p) \/ SemPostFail(p)
       PROVE  sem' > 0
  BY <1>0, <1>10 DEF SemPost, SemPostFail
<1>11. ASSUME NEW p \in Procs, Crash(p) PROVE FALSE
  <2>1. word.locked = FALSE
    BY <1>11 DEF Crash, Word
  <2>2. pc[p] \notin Owning
    BY <2>1 DEF MutualExclusion, At
  <2>3. Goto(p, "dead")
    BY <1>11, <2>2 DEF Crash
  <2> QED BY <2>3, AtMove
<1> QED
  BY <1>1, <1>5, <1>6, <1>7, <1>8, <1>9, <1>10, <1>11 DEF Next, Progress, Fault

\* The lost wake-up cannot happen: unless a process was killed or sem_post() failed,
\* a process that sleeps while the lock is free will be woken or overtaken.
THEOREM NoLostWakeup == Spec => []NoStrandedSleeper
<1>1. Init => Handover
  BY FreeWord DEF Init, Handover
<1>2. TypeOK /\ WaitAccounting /\ Handover => NoStrandedSleeper
  <2> SUFFICES ASSUME TypeOK, WaitAccounting, Handover,
                      ~word.locked, At({"sleep"}) # {}, lost = 0, At({"dead"}) = {}
               PROVE  sem > 0 \/ At({"post"}) # {} \/ At(Locking) # {}
    BY DEF NoStrandedSleeper
  <2>1. IsFiniteSet(At({"sleep"})) /\ IsFiniteSet(At({"post"}))
    BY ProcsAssumption, FS_Subset DEF At
  <2>2. Cardinality(At({"sleep"})) \in Nat /\ Cardinality(At({"sleep"})) # 0
    BY <2>1, FS_CardinalityType, FS_EmptySet
  <2>3. At({"post"}) = {} => Cardinality(At({"post"})) = 0
    BY FS_EmptySet
  <2>4. word.wait \in Nat /\ sem \in Nat /\ leaked \in Nat
    BY DEF TypeOK, Word
  <2>5. word.wait > 0 \/ sem > 0 \/ At({"post"}) # {}
    BY <2>2, <2>3, <2>4 DEF WaitAccounting
  <2> QED BY <2>5 DEF Handover
<1> QED
  BY <1>1, <1>2, TypeCorrect, MutexInvariance, Accounting, HandoverNext, PTL DEF Spec
=============================================================================
