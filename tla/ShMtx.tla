------------------------------- MODULE ShMtx -------------------------------
(***************************************************************************)
(* ngx_shmtx_t with atomic operations (core/ngx_shmtx.c): the mutex that   *)
(* nginx puts in shared memory and that its worker processes lock.         *)
(*                                                                         *)
(* The lock is one machine word: bit 0x80000000 says that it is taken, the *)
(* 31 bits below count the processes that announced they are about to      *)
(* sleep on the semaphore.  Every plain read of the word and every         *)
(* compare-and-set is a step of its own, so that all interleavings of      *)
(* processes between a read and the compare-and-set that uses it are       *)
(* explored.  A compare-and-set compares values, not histories (ABA).      *)
(***************************************************************************)
EXTENDS Integers, FiniteSets

CONSTANTS
  Procs,         \* the processes sharing the mutex
  None,          \* not a process
  HasSemaphore,  \* mtx->semaphore: POSIX semaphores compiled in and sem_init() worked
  SpinRounds,    \* iterations of the spin loop: 11 (1, 2, .. 1024 < mtx->spin), 0 when ngx_ncpu = 1
  MaxFaults      \* bound: failed semaphore calls and killed processes in one behaviour

ASSUME ProcsAssumption == IsFiniteSet(Procs) /\ None \notin Procs
ASSUME ParamAssumption == /\ HasSemaphore \in BOOLEAN
                          /\ SpinRounds \in Nat
                          /\ MaxFaults \in Nat

VARIABLES
  word,    \* *mtx->lock
  sem,     \* the value of mtx->sem
  pc,      \* where each process is
  val,     \* the local val (old in unlock): the word as the process last read it
  tries,   \* spin rounds the process has made since it last started or woke
  faults,  \* faults so far
  leaked,  \* history: announced waiters that left the semaphore without a token
  lost     \* history: wake-ups that an unlock owed and that never happened

vars == <<word, sem, pc, val, tries, faults, leaked, lost>>

Word == [locked : BOOLEAN, wait : Nat]

Free == [locked |-> FALSE, wait |-> 0]

(***************************************************************************)
(* Program points.  "deadowner" is a process that was killed between       *)
(* taking the lock and giving it back: the bit stays set.                  *)
(***************************************************************************)
Locking   == {"read", "cas", "wait", "waitcas"}
Owning    == {"cs", "unlock", "unlockcas", "deadowner"}
Points    == {"idle", "trycas", "sleep", "post", "dead"} \cup Locking \cup Owning

At(S) == {p \in Procs : pc[p] \in S}

Init == /\ word = Free
        /\ sem = 0
        /\ pc = [p \in Procs |-> "idle"]
        /\ val = [p \in Procs |-> Free]
        /\ tries = [p \in Procs |-> 0]
        /\ faults = 0
        /\ leaked = 0
        /\ lost = 0

-----------------------------------------------------------------------------
(* Plumbing of the steps. *)

Goto(p, to) == pc' = [pc EXCEPT ![p] = to]

\* val = *mtx->lock
ReadWord(p) == val' = [val EXCEPT ![p] = word]

\* val is dead from here on
Forget(p) == val' = [val EXCEPT ![p] = Free]

NoFault == UNCHANGED <<faults, leaked, lost>>

\* ngx_atomic_cmp_set(mtx->lock, val, val | 0x80000000) succeeds
Taken(w) == [locked |-> TRUE, wait |-> w.wait]

\* ngx_atomic_cmp_set(mtx->lock, val, val + 1) succeeds
Announced(w) == [locked |-> w.locked, wait |-> w.wait + 1]

\* mutant: the waiter that is about to be woken stays in the count
ReleasedKeepsCount(w) == [locked |-> FALSE, wait |-> w.wait]

\* the value unlock stores: the bit dropped and one announced waiter fewer
Released(w) == [locked |-> FALSE, wait |-> IF w.wait > 0 THEN w.wait - 1 ELSE 0]

\* a failed attempt of ngx_shmtx_lock: spin on, or go and sleep, or yield and retry
NextTry(p) ==
  IF tries[p] < SpinRounds
    THEN /\ tries' = [tries EXCEPT ![p] = @ + 1]
         /\ Goto(p, "read")
    ELSE /\ tries' = [tries EXCEPT ![p] = 0]
         /\ Goto(p, IF HasSemaphore THEN "wait" ELSE "read")

-----------------------------------------------------------------------------
(* ngx_shmtx_trylock *)

TryLock(p) ==
  /\ pc[p] = "idle"
  /\ ~word.locked                 \* otherwise it returns 0 and nothing changed
  /\ ReadWord(p)
  /\ Goto(p, "trycas")
  /\ NoFault
  /\ UNCHANGED <<word, sem, tries>>

\* mutant: a plain store instead of the compare-and-set
TryCasPlainStore(p) ==
  /\ pc[p] = "trycas"
  /\ word' = Taken(word) /\ Goto(p, "cs")
  /\ Forget(p)
  /\ NoFault
  /\ UNCHANGED <<sem, tries>>

TryCas(p) ==
  /\ pc[p] = "trycas"
  /\ IF word = val[p]
       THEN word' = Taken(word) /\ Goto(p, "cs")
       ELSE UNCHANGED word /\ Goto(p, "idle")
  /\ Forget(p)
  /\ NoFault
  /\ UNCHANGED <<sem, tries>>

-----------------------------------------------------------------------------
(* ngx_shmtx_lock *)

Lock(p) ==
  /\ pc[p] = "idle"
  /\ Goto(p, "read")
  /\ NoFault
  /\ UNCHANGED <<word, sem, val, tries>>

LockRead(p) ==
  /\ pc[p] = "read"
  /\ IF ~word.locked
       THEN ReadWord(p) /\ Goto(p, "cas") /\ UNCHANGED tries
       ELSE UNCHANGED val /\ NextTry(p)
  /\ NoFault
  /\ UNCHANGED <<word, sem>>

Cas(p) ==
  /\ pc[p] = "cas"
  /\ IF word = val[p]
       THEN /\ word' = Taken(word)
            /\ Goto(p, "cs")
            /\ tries' = [tries EXCEPT ![p] = 0]
       ELSE UNCHANGED word /\ NextTry(p)
  /\ Forget(p)
  /\ NoFault
  /\ UNCHANGED sem

\* the word is read again before the process announces itself as a waiter
WaitRead(p) ==
  /\ pc[p] = "wait"
  /\ IF word.locked
       THEN ReadWord(p) /\ Goto(p, "waitcas")
       ELSE UNCHANGED val /\ Goto(p, "read")
  /\ NoFault
  /\ UNCHANGED <<word, sem, tries>>

WaitCas(p) ==
  /\ pc[p] = "waitcas"
  /\ IF word = val[p]
       THEN word' = Announced(word) /\ Goto(p, "sleep")
       ELSE UNCHANGED word /\ Goto(p, "read")
  /\ Forget(p)
  /\ NoFault
  /\ UNCHANGED <<sem, tries>>

\* sem_wait() returns 0; an EINTR only repeats the call and is a stutter
SemWait(p) ==
  /\ pc[p] = "sleep"
  /\ sem > 0
  /\ sem' = sem - 1
  /\ Goto(p, "read")
  /\ NoFault
  /\ UNCHANGED <<word, val, tries>>

\* sem_wait() fails for another reason: logged, and the loop goes on as if woken
SemWaitFail(p) ==
  /\ pc[p] = "sleep"
  /\ faults < MaxFaults
  /\ faults' = faults + 1
  /\ leaked' = leaked + 1
  /\ Goto(p, "read")
  /\ UNCHANGED <<word, sem, val, tries, lost>>

-----------------------------------------------------------------------------
(* ngx_shmtx_unlock *)

UnlockRead(p) ==
  /\ pc[p] \in {"cs", "unlock"}
  /\ ReadWord(p)
  /\ Goto(p, "unlockcas")
  /\ NoFault
  /\ UNCHANGED <<word, sem, tries>>

\* mutant: the last waiter is not woken (the new count is tested, not the old one)
UnlockCasTestsNew(p) ==
  /\ pc[p] = "unlockcas"
  /\ IF word = val[p]
       THEN /\ word' = Released(word)
            /\ Goto(p, IF word'.wait = 0 \/ ~HasSemaphore THEN "idle" ELSE "post")
       ELSE UNCHANGED word /\ Goto(p, "unlock")
  /\ Forget(p)
  /\ NoFault
  /\ UNCHANGED <<sem, tries>>

UnlockCas(p) ==
  /\ pc[p] = "unlockcas"
  /\ IF word = val[p]
       THEN /\ word' = Released(word)
            /\ Goto(p, IF word.wait = 0 \/ ~HasSemaphore THEN "idle" ELSE "post")
       ELSE UNCHANGED word /\ Goto(p, "unlock")
  /\ Forget(p)
  /\ NoFault
  /\ UNCHANGED <<sem, tries>>

SemPost(p) ==
  /\ pc[p] = "post"
  /\ sem' = sem + 1
  /\ Goto(p, "idle")
  /\ NoFault
  /\ UNCHANGED <<word, val, tries>>

\* sem_post() fails: logged, nobody is woken
SemPostFail(p) ==
  /\ pc[p] = "post"
  /\ faults < MaxFaults
  /\ faults' = faults + 1
  /\ lost' = lost + 1
  /\ Goto(p, "idle")
  /\ UNCHANGED <<word, sem, val, tries, leaked>>

-----------------------------------------------------------------------------
(***************************************************************************)
(* A process is killed.  Nothing in the mutex is undone for it: the bit, a *)
(* waiter it announced and a post it owed stay as they are.                *)
(***************************************************************************)
Crash(p) ==
  /\ pc[p] \notin {"dead", "deadowner"}
  /\ faults < MaxFaults
  /\ faults' = faults + 1
  /\ leaked' = IF pc[p] = "sleep" THEN leaked + 1 ELSE leaked
  /\ lost' = IF pc[p] = "post" THEN lost + 1 ELSE lost
  /\ Goto(p, IF pc[p] \in Owning THEN "deadowner" ELSE "dead")
  /\ Forget(p)
  /\ tries' = [tries EXCEPT ![p] = 0]
  /\ UNCHANGED <<word, sem>>

\* the steps of a process that is inside one of the three functions, or about to unlock
Progress(p) ==
  \/ TryCas(p) \/ LockRead(p) \/ Cas(p) \/ WaitRead(p) \/ WaitCas(p)
  \/ SemWait(p) \/ UnlockRead(p) \/ UnlockCas(p) \/ SemPost(p)

Fault(p) == SemWaitFail(p) \/ SemPostFail(p) \/ Crash(p)

Next == \E p \in Procs : TryLock(p) \/ Lock(p) \/ Progress(p) \/ Fault(p)

Spec == Init /\ [][Next]_vars

(***************************************************************************)
(* Every process is scheduled, every critical section is left (all callers *)
(* unlock in the function that locks), and nobody has to call lock.        *)
(***************************************************************************)
FairSpec == Spec /\ \A p \in Procs : WF_vars(Progress(p))

-----------------------------------------------------------------------------
(* Properties *)

TypeOK == /\ word \in Word
          /\ sem \in Nat
          /\ pc \in [Procs -> Points]
          /\ val \in [Procs -> Word]
          /\ tries \in [Procs -> 0 .. SpinRounds]
          /\ faults \in Nat
          /\ leaked \in Nat
          /\ lost \in Nat

\* ngx_shmtx_lock/trylock/unlock: two processes are never inside the lock
\* together, and the bit 0x80000000 is set exactly while one is (also after it died).
MutualExclusion ==
  /\ \A p, q \in At(Owning) : p = q
  /\ word.locked <=> At(Owning) # {}

\* ngx_shmtx_lock:111 and ngx_shmtx_unlock:155,171: the waiter count, the
\* semaphore tokens and the posts still owed are together exactly the sleepers:
\* no wake-up is duplicated and none disappears except by a fault that is counted.
WaitAccounting ==
  word.wait + sem + Cardinality(At({"post"})) + lost
    = Cardinality(At({"sleep"})) + leaked

\* The lost wake-up: when the lock is free and somebody sleeps on the semaphore, a
\* token is there, or an unlocker is about to post one, or a process awake in
\* ngx_shmtx_lock will take the lock and pass the wake-up on when it unlocks.
NoStrandedSleeper ==
  ~word.locked /\ At({"sleep"}) # {} /\ lost = 0 /\ At({"dead"}) = {}
    => sem > 0 \/ At({"post"}) # {} \/ At(Locking) # {}

\* The refinement mapping: who owns the mutex.
Owner == IF At(Owning) = {} THEN None ELSE CHOOSE p \in Procs : pc[p] \in Owning

M == INSTANCE Mutex WITH owner <- Owner

\* The word-level algorithm implements the abstract mutex.
RefinesMutex == M!Spec

\* While nothing fails, whenever a process wants the lock some process gets it: spinning,
\* announcing, sleeping and waking never leave everybody waiting for everybody.
LockProgress == At(Locking \cup {"sleep"}) # {} ~> (At({"cs"}) # {} \/ faults > 0)
=============================================================================
