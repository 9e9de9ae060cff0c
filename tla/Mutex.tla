------------------------------- MODULE Mutex -------------------------------
(***************************************************************************)
(* What the users of an ngx_shmtx_t rely on (the slab pools, the HTTP      *)
(* caches, the accept mutex): a lock word that one process at a time owns  *)
(* and that only its owner gives back.  Waiting, waking and spinning are   *)
(* invisible at this level.  ShMtx is shown to implement Spec.             *)
(***************************************************************************)

CONSTANTS Procs,   \* the nginx processes that share the mutex
          None     \* not a process: nobody owns the mutex

VARIABLE owner

Init == owner = None

Acquire(p) == owner = None /\ owner' = p

Release(p) == owner = p /\ owner' = None

Next == \E p \in Procs : Acquire(p) \/ Release(p)

Spec == Init /\ [][Next]_owner
=============================================================================
