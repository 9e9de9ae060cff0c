---------------------------- MODULE MCAcceptMutex ----------------------------
(* AcceptMutex for TLC: interchangeable workers and listening sockets. *)
EXTENDS AcceptMutex, TLC

Symmetry == Permutations(Workers) \cup Permutations(Listens)
=============================================================================
