---------------------------- MODULE MasterProofs ----------------------------
(***************************************************************************)
(* Proofs about MasterCycle, for any number of processes, any size of the  *)
(* table and any sequence of signals, deaths and failing forks.            *)
(***************************************************************************)
EXTENDS MasterCycle, FiniteSetTheorems, TLAPS

States == {"none"} \cup Alive \cup Gone
Sigs == {"QUIT", "TERM", "KILL", "REOPEN"}

\* The fields of the process table and the processes have their types.
TableType ==
  /\ pid \in [Slots -> Pids \cup {None}]
  /\ exited \in [Slots -> BOOLEAN] /\ exiting \in [Slots -> BOOLEAN]
  /\ detached \in [Slots -> BOOLEAN] /\ respawn \in [Slots -> BOOLEAN]
  /\ just \in [Slots -> BOOLEAN] /\ chan \in [Slots -> BOOLEAN]
  /\ kind \in [Slots -> Kinds]
  /\ last \in 0 .. MaxSlots
  /\ child \in [Pids -> States]
  /\ born \in [Pids -> Nat]

\* The rest of the state has its types.
MasterType ==
  /\ flags \subseteq Flags
  /\ noaccepting \in BOOLEAN /\ newBinary \in Pids \cup {None, Invalid}
  /\ live \in BOOLEAN /\ lv \in BOOLEAN /\ listening \in BOOLEAN
  /\ delay \in Nat /\ sigio \in Nat /\ gen \in Nat /\ idx \in Nat
  /\ pc \in {"suspend", "reap", "check", "start", "exited"}
  /\ job \in Jobs
  /\ pending \subseteq Signals \cup {"ALRM"} /\ armed \in BOOLEAN
  /\ sent \in Nat /\ crashes \in Nat /\ forkFails \in Nat

\* TypeOK has these two parts.
LEMMA TypeParts == TypeOK <=> TableType /\ MasterType
BY DEF TypeOK, TableType, MasterType, States

\* A command changes neither whether a process exists nor the kind of its state.
LEMMA ToldType ==
  ASSUME NEW c \in States, NEW sig \in Sigs
  PROVE  Told(c, sig) \in States /\ (Told(c, sig) = "none" <=> c = "none")
BY DEF Told, States, Sigs, Alive, Gone

\* The signal loop keeps the types of the table and of the processes.
LEMMA SignalType ==
  ASSUME TableType, NEW sig \in Sigs, SignalWorkers(sig)
  PROVE  TableType'
BY ToldType DEF TableType, SignalWorkers, JustCleared

\* The kinds of the processes that are started.
LEMMA StartKindType ==
  ASSUME NEW i \in Nat, i < StartN
  PROVE  StartKind(i) \in Kinds
<1>1. WorkerN \in Nat
  BY SizesAssumption
<1>2. CASE Helpers = <<>>
  BY <1>1, <1>2 DEF StartN, StartKind, Kinds
<1>3. CASE Helpers = <<"manager">>
  BY <1>1, <1>3 DEF StartN, StartKind, Kinds
<1>4. CASE Helpers = <<"manager", "loader">>
  BY <1>1, <1>4 DEF StartN, StartKind, Kinds
<1> QED
  BY <1>2, <1>3, <1>4, HelpersAssumption

\* A fork into a slot that the search found keeps the types.
LEMMA NewSlotType ==
  ASSUME TableType, gen \in Nat, NEW s \in 0 .. MaxSlots, NEW p \in Pids, NEW k \in Kinds, NEW type,
         FreeSlot(s), NewSlot(s, p, k, type)
  PROVE  TableType'
<1>1. s \in Slots /\ MaxSlots \in Nat
  BY SizesAssumption DEF FreeSlot, Slots
<1> QED
  BY <1>1, SizesAssumption DEF TableType, NewSlot, Just, Forked, Set, FreeSlot, Found, States, Alive

\* The flags that signals set are flags.
LEMMA FlagType ==
  ASSUME NEW g \in Signals \cup {"ALRM"}, Heard(g)
  PROVE  FlagOf(g) \in Flags
BY SignalsAssumption DEF FlagOf, Flags, Heard

\* The top of the loop keeps the types.
LEMMA LoopTopType ==
  ASSUME MasterType, NEW d \in Nat, NEW n \in Nat, LoopTop(d, n)
  PROVE  /\ pc' = "suspend" /\ armed' \in BOOLEAN /\ sigio' \in Nat /\ delay' \in Nat
         /\ AfterTop(d) \subseteq Flags
BY DEF MasterType, LoopTop, Doubled, AfterTop

\* The signal handler sets only the master's own flags.
LEMMA SignalFlagsType ==
  ASSUME NEW f \in SUBSET Flags, NEW sig
  PROVE  SignalFlags(sig, f) \subseteq Flags
BY DEF SignalFlags, Flags

\* The start-up state has the right types.
LEMMA TypeInit == Init => TableType /\ MasterType
<1> SUFFICES ASSUME Init PROVE TableType /\ MasterType
  OBVIOUS
<1>1. TableType
  BY SizesAssumption DEF Init, TableType, States, Kinds
<1>2. MasterType
  BY SizesAssumption DEF Init, MasterType, Jobs, Flags
<1> QED
  BY <1>1, <1>2

\* Every step keeps the types of the table and of the processes.
LEMMA TableTypeNext == TableType /\ MasterType /\ [Next]_vars => TableType'
<1> SUFFICES ASSUME TableType, MasterType, [Next]_vars PROVE TableType'
  OBVIOUS
<1> USE DEF TableType, MasterType, table, upg, term, local, kernel, env
<1>1. CASE UNCHANGED vars
  BY <1>1 DEF vars
<1>2. CASE Wake
  BY <1>2 DEF Wake, States
<1>3. CASE StartOne
  <2>0. StartKind(idx) \in Kinds
    BY <1>3, StartKindType DEF StartOne
  <2>1. CASE \E s \in 0 .. MaxSlots, p \in Pids : FreeSlot(s) /\ NewSlot(s, p, StartKind(idx), StartType(idx))
    BY <2>1, NewSlotType, <2>0 DEF MasterType, Kinds
  <2>2. CASE UNCHANGED <<table, child, born>>
    BY <2>2 DEF table, TableType
  <2> QED
    BY <1>3, <2>1, <2>2 DEF StartOne
<1>4. CASE StartDone
  <2>1. CASE job = "reload"
    <3>1. SignalWorkers("QUIT")
      BY <1>4, <2>1 DEF StartDone
    <3> QED
      BY <3>1, SignalType DEF Sigs
  <2>2. CASE job # "reload"
    BY <1>4, <2>2 DEF StartDone, Jobs
  <2> QED
    BY <2>1, <2>2
<1>5. CASE ReapKeep
  BY <1>5 DEF ReapKeep, Reaping, ReapRest
<1>6. CASE ReapRespawn
  <2>1. PICK p \in Pids : Forked(p) /\ pid' = Set(pid, idx, p)
    BY <1>6 DEF ReapRespawn
  <2>2. child' \in [Pids -> States] /\ born' \in [Pids -> Nat]
    BY <2>1 DEF Forked, Set, States, Alive
  <2>3. pid' \in [Slots -> Pids \cup {None}]
    BY <2>1 DEF Set
  <2> QED
    BY <1>6, <2>2, <2>3 DEF ReapRespawn, Set
<1>7. CASE ReapRespawnFails
  BY <1>7 DEF ReapRespawnFails, Set
<1>8. CASE ReapFree
  <2>1. pid' \in [Slots -> Pids \cup {None}] /\ last' \in 0 .. MaxSlots
    BY <1>8, SizesAssumption DEF ReapFree, Reaping, Set
  <2> QED
    BY <1>8, <2>1 DEF ReapFree, Set
<1>9. CASE ReapDone
  BY <1>9 DEF ReapDone
<1>10. CASE MasterExit
  BY <1>10 DEF MasterExit
<1>11. CASE TerminateWait
  BY <1>11 DEF TerminateWait
<1>12. CASE TerminateSignal
  <2>1. \E sig \in Sigs : SignalWorkers(sig)
    BY <1>12 DEF TerminateSignal, Sigs
  <2> QED
    BY <2>1, SignalType
<1>13. CASE Quit
  <2>1. SignalWorkers("QUIT")
    BY <1>13 DEF Quit
  <2> QED
    BY <2>1, SignalType DEF Sigs
<1>14. CASE ReconfigureUpgrade
  BY <1>14 DEF ReconfigureUpgrade, Start
<1>15. CASE ReconfigureFails
  BY <1>15 DEF ReconfigureFails
<1>16. CASE Reconfigure
  BY <1>16 DEF Reconfigure, Start
<1>17. CASE Restart
  BY <1>17 DEF Restart, Start
<1>18. CASE Reopen
  <2>1. SignalWorkers("REOPEN")
    BY <1>18 DEF Reopen
  <2> QED
    BY <2>1, SignalType DEF Sigs
<1>19. CASE ChangeBinary
  <2>1. CASE \E s \in 0 .. MaxSlots, p \in Pids : FreeSlot(s) /\ NewSlot(s, p, "binary", "detached")
    BY <2>1, NewSlotType DEF MasterType, Kinds
  <2>2. CASE UNCHANGED <<table, child, born>>
    BY <2>2 DEF table, TableType
  <2> QED
    BY <1>19, <2>1, <2>2 DEF ChangeBinary
<1>20. CASE NoAccept
  <2>1. SignalWorkers("QUIT")
    BY <1>20 DEF NoAccept
  <2> QED
    BY <2>1, SignalType DEF Sigs
<1>21. CASE AllDone
  BY <1>21 DEF AllDone
<1>22. CASE Operator
  BY <1>22 DEF Operator, masterState
<1>23. CASE Alarm
  BY <1>23 DEF Alarm, masterState
<1>24. ASSUME NEW p \in Pids, Leaves(p) PROVE TableType'
  BY <1>24 DEF Leaves, masterState, Set, States, Gone
<1>25. ASSUME NEW p \in Pids, Dies(p) PROVE TableType'
  BY <1>25, DeathsAssumption DEF Dies, masterState, Set, States, Gone
<1> QED
  BY <1>1, <1>2, <1>3, <1>4, <1>5, <1>6, <1>7, <1>8, <1>9, <1>10, <1>11, <1>12, <1>13,
     <1>14, <1>15, <1>16, <1>17, <1>18, <1>19, <1>20, <1>21, <1>22, <1>23, <1>24, <1>25
     DEF Next, Master

\* Every step keeps the types of the master's variables.
LEMMA MasterTypeNext == TableType /\ MasterType /\ [Next]_vars => MasterType'
<1> SUFFICES ASSUME TableType, MasterType, [Next]_vars PROVE MasterType'
  OBVIOUS
<1> USE SizesAssumption DEF MasterType, table, upg, term, local, kernel, env
<1>1. CASE UNCHANGED vars
  BY <1>1 DEF vars
<1>2. CASE Wake
  <2>1. {FlagOf(g) : g \in {h \in pending : Heard(h)}} \subseteq Flags
    BY FlagType
  <2> QED
    BY <1>2, <2>1 DEF Wake
<1>3. CASE StartOne
  BY <1>3 DEF StartOne, SpawnFails
<1>4. CASE StartDone
  <2>1. CASE job \in {"boot", "upgrade"}
    <3>1. LoopTop(delay, sigio) /\ flags' = AfterTop(delay)
      BY <1>4, <2>1 DEF StartDone
    <3>2. pc' = "suspend" /\ armed' \in BOOLEAN /\ sigio' \in Nat /\ delay' \in Nat /\ AfterTop(delay) \subseteq Flags
      BY <3>1, LoopTopType
    <3> QED
      BY <1>4, <2>1, <3>1, <3>2 DEF StartDone
  <2>2. CASE job = "reload"
    BY <1>4, <2>2, SignalFlagsType DEF StartDone
  <2>3. CASE job = "restart"
    BY <1>4, <2>3 DEF StartDone
  <2> QED
    BY <2>1, <2>2, <2>3 DEF Jobs
<1>5. CASE ReapKeep
  BY <1>5 DEF ReapKeep, Reaping, ReapRest
<1>6. CASE ReapRespawn
  BY <1>6 DEF ReapRespawn, Reaping, ReapRest, Forked, Respawnable
<1>7. CASE ReapRespawnFails
  BY <1>7 DEF ReapRespawnFails, Reaping, ReapRest
<1>8. CASE ReapFree
  <2>1. flags' \subseteq Flags /\ newBinary' \in Pids \cup {None, Invalid} /\ noaccepting' \in BOOLEAN
    BY <1>8 DEF ReapFree, Flags
  <2> QED
    BY <1>8, <2>1 DEF ReapFree, ReapRest
<1>9. CASE ReapDone
  BY <1>9 DEF ReapDone
<1>10. CASE MasterExit
  BY <1>10 DEF MasterExit
<1>11. CASE TerminateWait
  <2>1. LoopTop(FirstDelay, (sigio - 1))
    BY <1>11 DEF TerminateWait
  <2>2. FirstDelay \in Nat /\ (sigio - 1) \in Nat
    BY <1>11, SizesAssumption DEF TerminateWait, FirstDelay
  <2>3. pc' = "suspend" /\ armed' \in BOOLEAN /\ sigio' \in Nat /\ delay' \in Nat /\ AfterTop(FirstDelay) \subseteq Flags
    BY <2>1, <2>2, LoopTopType
  <2> QED
    BY <1>11, <2>3 DEF TerminateWait
<1>12. CASE TerminateSignal
  <2>1. LoopTop(FirstDelay, (WorkerN + 2))
    BY <1>12 DEF TerminateSignal
  <2>2. FirstDelay \in Nat /\ (WorkerN + 2) \in Nat
    BY <1>12, SizesAssumption DEF TerminateSignal, FirstDelay
  <2>3. pc' = "suspend" /\ armed' \in BOOLEAN /\ sigio' \in Nat /\ delay' \in Nat /\ AfterTop(FirstDelay) \subseteq Flags
    BY <2>1, <2>2, LoopTopType
  <2> QED
    BY <1>12, <2>3, SignalFlagsType DEF TerminateSignal
<1>13. CASE Quit
  <2>1. LoopTop(delay, sigio)
    BY <1>13 DEF Quit
  <2>2. delay \in Nat /\ sigio \in Nat
    BY <1>13, SizesAssumption DEF Quit, FirstDelay
  <2>3. pc' = "suspend" /\ armed' \in BOOLEAN /\ sigio' \in Nat /\ delay' \in Nat /\ AfterTop(delay) \subseteq Flags
    BY <2>1, <2>2, LoopTopType
  <2> QED
    BY <1>13, <2>3, SignalFlagsType DEF Quit
<1>14. CASE ReconfigureUpgrade
  BY <1>14 DEF ReconfigureUpgrade, Start, Jobs
<1>15. CASE ReconfigureFails
  <2>1. LoopTop(delay, sigio)
    BY <1>15 DEF ReconfigureFails
  <2>2. delay \in Nat /\ sigio \in Nat
    BY <1>15, SizesAssumption DEF ReconfigureFails, FirstDelay
  <2>3. pc' = "suspend" /\ armed' \in BOOLEAN /\ sigio' \in Nat /\ delay' \in Nat /\ AfterTop(delay) \subseteq Flags
    BY <2>1, <2>2, LoopTopType
  <2> QED
    BY <1>15, <2>3 DEF ReconfigureFails
<1>16. CASE Reconfigure
  BY <1>16 DEF Reconfigure, Start, Jobs
<1>17. CASE Restart
  BY <1>17 DEF Restart, Start, Jobs
<1>18. CASE Reopen
  BY <1>18, SignalFlagsType DEF Reopen
<1>19. CASE ChangeBinary
  BY <1>19 DEF ChangeBinary, SpawnFails
<1>20. CASE NoAccept
  BY <1>20, SignalFlagsType DEF NoAccept
<1>21. CASE AllDone
  <2>1. LoopTop(delay, sigio)
    BY <1>21 DEF AllDone
  <2>2. delay \in Nat /\ sigio \in Nat
    BY <1>21, SizesAssumption DEF AllDone, FirstDelay
  <2>3. pc' = "suspend" /\ armed' \in BOOLEAN /\ sigio' \in Nat /\ delay' \in Nat /\ AfterTop(delay) \subseteq Flags
    BY <2>1, <2>2, LoopTopType
  <2> QED
    BY <1>21, <2>3 DEF AllDone
<1>22. CASE Operator
  BY <1>22 DEF Operator, masterState
<1>23. CASE Alarm
  BY <1>23 DEF Alarm, masterState
<1>24. ASSUME NEW p \in Pids, Leaves(p) PROVE MasterType'
  BY <1>24 DEF Leaves, masterState
<1>25. ASSUME NEW p \in Pids, Dies(p) PROVE MasterType'
  BY <1>25 DEF Dies, masterState
<1> QED
  BY <1>1, <1>2, <1>3, <1>4, <1>5, <1>6, <1>7, <1>8, <1>9, <1>10, <1>11, <1>12, <1>13,
     <1>14, <1>15, <1>16, <1>17, <1>18, <1>19, <1>20, <1>21, <1>22, <1>23, <1>24, <1>25
     DEF Next, Master

\* Every variable keeps its type.
THEOREM TypeCorrect == Spec => []TypeOK
<1>1. TableType /\ MasterType /\ [Next]_vars => (TableType /\ MasterType)'
  BY TableTypeNext, MasterTypeNext
<1> QED
  BY <1>1, TypeInit, TypeParts, PTL DEF Spec

\* Facts about slots that the proofs about the table start from.
LEMMA SlotFacts ==
  ASSUME TableType
  PROVE  /\ \A s \in Slots : s \in Int /\ (Used(s) => pid[s] \in Pids)
         /\ \A s \in Int : 0 <= s /\ s < last => s \in Slots
         /\ last \in Int /\ MaxSlots \in Nat
BY SizesAssumption DEF TableType, Slots, Used

\* The signal loop marks no process that exists as exited and makes none disappear.
LEMMA SignalAgrees ==
  ASSUME TableType, TableAgrees, NEW sig \in Sigs, SignalWorkers(sig)
  PROVE  TableAgrees'
<1>1. \A p \in Pids : child'[p] = "none" <=> child[p] = "none"
  BY ToldType DEF SignalWorkers, TableType
<1>2. \A s \in Slots : Used(s) => (exited'[s] <=> exited[s])
  BY SlotFacts DEF SignalWorkers, TableAgrees, Missing, Addressed, TableType
<1> QED
  BY <1>1, <1>2, SlotFacts DEF SignalWorkers, TableAgrees, Used

\* A fork into a free slot is recorded there and nowhere else.
LEMMA NewSlotAgrees ==
  ASSUME TableType, TableAgrees, NEW s \in 0 .. MaxSlots, NEW p \in Pids, NEW k, NEW type,
         FreeSlot(s), FreshPid(p), NewSlot(s, p, k, type)
  PROVE  TableAgrees'
<1>1. s \in Slots /\ s \in Int /\ last \in Int /\ last \in Nat
  BY SizesAssumption DEF FreeSlot, Slots, TableType
<1>2. pid'[s] = p /\ ~exited'[s] /\ child'[p] = "run" /\ s < last' /\ p # None
  BY <1>1, NamesAssumption DEF NewSlot, Forked, Set, TableType, FreeSlot, Found
<1>3. /\ \A t \in Slots : t # s => pid'[t] = pid[t] /\ exited'[t] = exited[t]
                                   /\ (t < last' <=> t < last)
      /\ \A q \in Pids : q # p => child'[q] = child[q]
  BY <1>1 DEF NewSlot, Forked, Set, TableType, Slots
<1>4. ~Used(s) /\ Used(s)' /\ \A t \in Slots : t # s => (Used(t)' <=> Used(t))
  BY <1>1, <1>2, <1>3 DEF Used, FreeSlot, Found
<1>5. \A t \in Slots : Used(t) => pid[t] # p
  BY DEF FreshPid
<1>6. \A q \in Pids : child'[q] # "none" => \E t \in Slots : Used(t)' /\ pid'[t] = q
  <2> SUFFICES ASSUME NEW q \in Pids, child'[q] # "none"
               PROVE  \E t \in Slots : Used(t)' /\ pid'[t] = q
    OBVIOUS
  <2>1. CASE q = p
    BY <2>1, <1>1, <1>2, <1>4
  <2>2. CASE q # p
    <3>1. PICK t \in Slots : Used(t) /\ pid[t] = q
      BY <2>2, <1>3 DEF TableAgrees
    <3> QED
      BY <3>1, <1>3, <1>4
  <2> QED
    BY <2>1, <2>2
<1>7. \A t \in Slots : Used(t)' => (exited'[t] <=> child'[pid'[t]] = "none")
  <2> SUFFICES ASSUME NEW t \in Slots, Used(t)', t # s
               PROVE  exited'[t] <=> child'[pid'[t]] = "none"
    BY <1>2
  <2>1. Used(t) /\ pid'[t] = pid[t] /\ pid[t] # p /\ pid[t] \in Pids
    BY <1>3, <1>4, <1>5, SlotFacts
  <2> QED
    BY <2>1, <1>3 DEF TableAgrees
<1>8. \A t, u \in Slots : Used(t)' /\ Used(u)' /\ pid'[t] = pid'[u] => t = u
  BY <1>2, <1>3, <1>4, <1>5 DEF TableAgrees
<1> QED
  BY <1>6, <1>7, <1>8 DEF TableAgrees

\* Every step keeps the table and the kernel in agreement.
LEMMA TableNext == TableType /\ MasterType /\ TableAgrees /\ [Next]_vars => TableAgrees'
<1> SUFFICES ASSUME TableType, MasterType, TableAgrees, [Next]_vars PROVE TableAgrees'
  OBVIOUS
<1> USE DEF table, upg, term, local, kernel, env
<1>1. CASE UNCHANGED vars
  BY <1>1 DEF vars, TableAgrees, Used
<1>2. CASE Wake
  <2>1. /\ UNCHANGED <<pid, last>>
        /\ \A p \in Pids : child'[p] = IF p \in Zombies THEN "none" ELSE child[p]
        /\ \A s \in Slots : exited'[s] <=> (exited[s] \/ \E p \in Zombies : Names(s, p))
    BY <1>2 DEF Wake
  <2>2. \A s \in Slots : Used(s)' <=> Used(s)
    BY <2>1 DEF Used
  <2>3. ASSUME NEW s \in Slots, Used(s)
        PROVE  (\E p \in Zombies : Names(s, p)) <=> pid[s] \in Zombies
    <3>1. pid[s] \in Pids /\ s < last /\ s \in Int /\ last \in Int
      BY <2>3, SlotFacts DEF Used
    <3>2. ASSUME NEW r \in 0 .. (s - 1), pid[r] = pid[s] PROVE FALSE
      <4>1. r \in Slots /\ r < last /\ r # s
        BY <3>1, SlotFacts
      <4>2. Used(r)
        BY <4>1, <3>2, <2>3 DEF Used
      <4> QED
        BY <4>1, <4>2, <3>2, <2>3 DEF TableAgrees
    <3> QED
      BY <3>1, <3>2 DEF Names
  <2>4. \A s \in Slots : Used(s) => (exited'[s] <=> child'[pid[s]] = "none")
    BY <2>1, <2>3, SlotFacts DEF TableAgrees
  <2> QED
    BY <2>1, <2>2, <2>4 DEF TableAgrees, Zombies, Gone
<1>3. CASE StartOne
  <2>1. CASE \E s \in 0 .. MaxSlots, p \in Pids :
                FreeSlot(s) /\ FreshPid(p) /\ NewSlot(s, p, StartKind(idx), StartType(idx))
    BY <2>1, NewSlotAgrees
  <2>2. CASE UNCHANGED <<table, child, born>>
    BY <2>2 DEF TableAgrees, Used
  <2> QED
    BY <1>3, <2>1, <2>2 DEF StartOne
<1>4. CASE StartDone
  <2>1. CASE job = "reload"
    <3>1. SignalWorkers("QUIT")
      BY <1>4, <2>1 DEF StartDone
    <3> QED
      BY <3>1, SignalAgrees DEF Sigs
  <2>2. CASE job # "reload"
    <3>1. UNCHANGED <<table, child>>
      BY <1>4, <2>2 DEF StartDone, MasterType, Jobs
    <3> QED
      BY <3>1 DEF TableAgrees, Used
  <2> QED
    BY <2>1, <2>2
<1>5. CASE ReapKeep
  BY <1>5 DEF ReapKeep, TableAgrees, Used
<1>6. CASE ReapRespawn
  <2>1. PICK p \in Pids : FreshPid(p) /\ Forked(p) /\ pid' = Set(pid, idx, p)
    BY <1>6 DEF ReapRespawn
  <2>2. Used(idx) /\ exited[idx] /\ UNCHANGED last /\ exited' = Set(exited, idx, FALSE)
    BY <1>6 DEF ReapRespawn, Reaping, Used
  <2>3. idx \in Slots /\ p # None
    BY <1>6, SlotFacts, NamesAssumption DEF ReapRespawn, Reaping, MasterType
  <2>4. /\ pid'[idx] = p /\ ~exited'[idx] /\ child'[p] = "run"
        /\ \A t \in Slots : t # idx => pid'[t] = pid[t] /\ exited'[t] = exited[t]
        /\ \A q \in Pids : q # p => child'[q] = child[q]
    BY <2>1, <2>2, <2>3 DEF Forked, Set, TableType
  <2>5. \A t \in Slots : (Used(t)' <=> Used(t)) /\ (Used(t) => pid[t] # p)
    BY <2>1, <2>2, <2>3, <2>4 DEF Used, FreshPid
  <2>6. \A q \in Pids : child'[q] # "none" => \E t \in Slots : Used(t)' /\ pid'[t] = q
    <3> SUFFICES ASSUME NEW q \in Pids, child'[q] # "none"
                 PROVE  \E t \in Slots : Used(t)' /\ pid'[t] = q
      OBVIOUS
    <3>1. CASE q = p
      BY <3>1, <2>2, <2>3, <2>4, <2>5
    <3>2. CASE q # p
      <4>1. PICK t \in Slots : Used(t) /\ pid[t] = q
        BY <3>2, <2>4 DEF TableAgrees
      <4>2. t # idx
        BY <4>1, <3>2, <2>2, <2>3, <2>4 DEF TableAgrees
      <4> QED
        BY <4>1, <4>2, <2>4, <2>5
    <3> QED
      BY <3>1, <3>2
  <2>7. \A t \in Slots : Used(t)' => (exited'[t] <=> child'[pid'[t]] = "none")
    <3> SUFFICES ASSUME NEW t \in Slots, Used(t)', t # idx
                 PROVE  exited'[t] <=> child'[pid'[t]] = "none"
      BY <2>4
    <3>1. Used(t) /\ pid'[t] = pid[t] /\ pid[t] # p /\ pid[t] \in Pids
      BY <2>4, <2>5, SlotFacts
    <3> QED
      BY <3>1, <2>4 DEF TableAgrees
  <2>8. \A t, u \in Slots : Used(t)' /\ Used(u)' /\ pid'[t] = pid'[u] => t = u
    <3> SUFFICES ASSUME NEW t \in Slots, NEW u \in Slots, Used(t)', Used(u)', pid'[t] = pid'[u], t # u
                 PROVE  FALSE
      OBVIOUS
    <3>1. t # idx /\ u # idx
      BY <2>4, <2>5
    <3> QED
      BY <3>1, <2>4, <2>5 DEF TableAgrees
  <2> QED
    BY <2>6, <2>7, <2>8 DEF TableAgrees
<1>7. CASE ReapRespawnFails
  BY <1>7 DEF ReapRespawnFails, TableAgrees, Used
<1>8. CASE ReapFree
  <2>1. idx \in Slots /\ Used(idx) /\ exited[idx] /\ UNCHANGED <<exited, child>>
    BY <1>8, SlotFacts DEF ReapFree, Reaping, MasterType, Used
  <2>0. PICK i \in Slots : i = idx
    BY <2>1
  <2>2. ~Used(i)' /\ \A t \in Slots : t # i => (Used(t)' <=> Used(t)) /\ pid'[t] = pid[t]
    <3>1. CASE Shortens(idx)
      BY <1>8, <3>1, <2>0, <2>1, SlotFacts DEF ReapFree, Shortens, Used
    <3>2. CASE ~Shortens(idx)
      <4>1. pid' = [pid EXCEPT ![idx] = None] /\ UNCHANGED last
        BY <1>8, <3>2 DEF ReapFree, Set
      <4>2. pid'[idx] = None /\ \A t \in Slots : t # idx => pid'[t] = pid[t]
        BY <4>1, <2>1 DEF TableType
      <4> QED
        BY <4>1, <4>2, <2>0 DEF Used
    <3> QED
      BY <3>1, <3>2
  <2>3. \A q \in Pids : child[q] # "none" => \E t \in Slots : t # idx /\ Used(t) /\ pid[t] = q
    BY <2>1 DEF TableAgrees
  <2>4. \A q \in Pids : child'[q] # "none" => \E t \in Slots : Used(t)' /\ pid'[t] = q
    BY <2>0, <2>1, <2>2, <2>3
  <2>5. \A t \in Slots : Used(t)' => Used(t) /\ pid'[t] = pid[t]
    BY <2>2
  <2>6. \A t \in Slots : Used(t)' => (exited'[t] <=> child'[pid'[t]] = "none")
    BY <2>1, <2>5 DEF TableAgrees
  <2>7. \A t, u \in Slots : Used(t)' /\ Used(u)' /\ pid'[t] = pid'[u] => t = u
    BY <2>5 DEF TableAgrees
  <2> QED
    BY <2>4, <2>6, <2>7 DEF TableAgrees
<1>9. CASE ReapDone
  BY <1>9 DEF ReapDone, TableAgrees, Used
<1>10. CASE MasterExit
  BY <1>10 DEF MasterExit, TableAgrees, Used
<1>11. CASE TerminateWait
  BY <1>11 DEF TerminateWait, TableAgrees, Used
<1>12. CASE TerminateSignal
  <2>1. \E sig \in Sigs : SignalWorkers(sig)
    BY <1>12 DEF TerminateSignal, Sigs
  <2> QED
    BY <2>1, SignalAgrees
<1>13. CASE Quit
  <2>1. SignalWorkers("QUIT")
    BY <1>13 DEF Quit
  <2> QED
    BY <2>1, SignalAgrees DEF Sigs
<1>14. CASE ReconfigureUpgrade
  BY <1>14 DEF ReconfigureUpgrade, TableAgrees, Used
<1>15. CASE ReconfigureFails
  BY <1>15 DEF ReconfigureFails, TableAgrees, Used
<1>16. CASE Reconfigure
  BY <1>16 DEF Reconfigure, TableAgrees, Used
<1>17. CASE Restart
  BY <1>17 DEF Restart, TableAgrees, Used
<1>18. CASE Reopen
  <2>1. SignalWorkers("REOPEN")
    BY <1>18 DEF Reopen
  <2> QED
    BY <2>1, SignalAgrees DEF Sigs
<1>19. CASE ChangeBinary
  <2>1. CASE \E s \in 0 .. MaxSlots, p \in Pids :
                FreeSlot(s) /\ FreshPid(p) /\ NewSlot(s, p, "binary", "detached")
    BY <2>1, NewSlotAgrees
  <2>2. CASE UNCHANGED <<table, child, born>>
    BY <2>2 DEF TableAgrees, Used
  <2> QED
    BY <1>19, <2>1, <2>2 DEF ChangeBinary
<1>20. CASE NoAccept
  <2>1. SignalWorkers("QUIT")
    BY <1>20 DEF NoAccept
  <2> QED
    BY <2>1, SignalAgrees DEF Sigs
<1>21. CASE AllDone
  BY <1>21 DEF AllDone, TableAgrees, Used
<1>22. CASE Operator
  BY <1>22 DEF Operator, masterState, TableAgrees, Used
<1>23. CASE Alarm
  BY <1>23 DEF Alarm, masterState, TableAgrees, Used
<1>24. ASSUME NEW p \in Pids, Leaves(p) PROVE TableAgrees'
  <2>1. UNCHANGED table /\ \A q \in Pids : child'[q] = "none" <=> child[q] = "none"
    BY <1>24 DEF Leaves, masterState, Set, TableType
  <2> QED
    BY <2>1, SlotFacts DEF TableAgrees, Used
<1>25. ASSUME NEW p \in Pids, Dies(p) PROVE TableAgrees'
  <2>1. UNCHANGED table /\ \A q \in Pids : child'[q] = "none" <=> child[q] = "none"
    BY <1>25, DeathsAssumption DEF Dies, masterState, Set, TableType
  <2> QED
    BY <2>1, SlotFacts DEF TableAgrees, Used
<1> QED
  BY <1>1, <1>2, <1>3, <1>4, <1>5, <1>6, <1>7, <1>8, <1>9, <1>10, <1>11, <1>12, <1>13,
     <1>14, <1>15, <1>16, <1>17, <1>18, <1>19, <1>20, <1>21, <1>22, <1>23, <1>24, <1>25
     DEF Next, Master

\* The process table of the master always agrees with the kernel: no child is lost.
THEOREM TableSafe == Spec => []TableAgrees
<1>1. Init => TableAgrees
  BY SizesAssumption DEF Init, TableAgrees, Used, Slots
<1>2. TableType /\ MasterType /\ TableAgrees /\ [Next]_vars => TableAgrees'
  BY TableNext
<1>3. Spec => [](TableType /\ MasterType)
  BY TypeCorrect, TypeParts, PTL
<1> QED
  BY <1>1, <1>2, <1>3, PTL DEF Spec

\* The start loop never runs while the master is to stop, and the listening sockets
\* are only closed by QUIT or by the exit of the master.
StopInv ==
  /\ pc = "start" => ~Stopping
  /\ ~listening => "quit" \in flags \/ pc = "exited"

\* Every step keeps StopInv: flags are set only at a wake-up, never in the start loop.
LEMMA StopNext == MasterType /\ StopInv /\ [Next]_vars => StopInv'
<1> SUFFICES ASSUME MasterType, StopInv, [Next]_vars PROVE StopInv'
  OBVIOUS
<1> USE DEF StopInv, Stopping, table, upg, term, local, kernel, env
<1>1. CASE UNCHANGED vars
  BY <1>1 DEF vars
<1>2. CASE Wake
  BY <1>2 DEF Wake
<1>3. CASE StartOne
  BY <1>3 DEF StartOne
<1>4. CASE StartDone
  BY <1>4 DEF StartDone, LoopTop, AfterTop, SignalFlags, MasterType, Jobs
<1>5. CASE ReapKeep
  BY <1>5 DEF ReapKeep, ReapRest
<1>6. CASE ReapRespawn
  BY <1>6 DEF ReapRespawn, ReapRest
<1>7. CASE ReapRespawnFails
  BY <1>7 DEF ReapRespawnFails, ReapRest
<1>8. CASE ReapFree
  BY <1>8 DEF ReapFree, ReapRest
<1>9. CASE ReapDone
  BY <1>9 DEF ReapDone
<1>10. CASE MasterExit
  BY <1>10 DEF MasterExit
<1>11. CASE TerminateWait
  BY <1>11 DEF TerminateWait, LoopTop, AfterTop, SignalFlags, Deciding
<1>12. CASE TerminateSignal
  BY <1>12 DEF TerminateSignal, LoopTop, AfterTop, SignalFlags, Deciding
<1>13. CASE Quit
  BY <1>13 DEF Quit, LoopTop, AfterTop, SignalFlags, Deciding
<1>14. CASE ReconfigureUpgrade
  BY <1>14 DEF ReconfigureUpgrade, Start, Running, Deciding
<1>15. CASE ReconfigureFails
  BY <1>15 DEF ReconfigureFails, LoopTop, AfterTop, SignalFlags, Deciding, Running, Later
<1>16. CASE Reconfigure
  BY <1>16 DEF Reconfigure, Start, Running, Deciding
<1>17. CASE Restart
  BY <1>17 DEF Restart, Start, Running, Deciding
<1>18. CASE Reopen
  BY <1>18 DEF Reopen, LoopTop, AfterTop, SignalFlags, Deciding, Running, Later
<1>19. CASE ChangeBinary
  BY <1>19 DEF ChangeBinary
<1>20. CASE NoAccept
  BY <1>20 DEF NoAccept, LoopTop, AfterTop, SignalFlags, Deciding, Running, Later
<1>21. CASE AllDone
  BY <1>21 DEF AllDone, LoopTop, AfterTop, SignalFlags, Deciding, Running, Later
<1>22. CASE Operator
  BY <1>22 DEF Operator, masterState
<1>23. CASE Alarm
  BY <1>23 DEF Alarm, masterState
<1>24. ASSUME NEW p \in Pids, Leaves(p) PROVE StopInv'
  BY <1>24 DEF Leaves, masterState
<1>25. ASSUME NEW p \in Pids, Dies(p) PROVE StopInv'
  BY <1>25 DEF Dies, masterState
<1> QED
  BY <1>1, <1>2, <1>3, <1>4, <1>5, <1>6, <1>7, <1>8, <1>9, <1>10, <1>11, <1>12, <1>13,
     <1>14, <1>15, <1>16, <1>17, <1>18, <1>19, <1>20, <1>21, <1>22, <1>23, <1>24, <1>25
     DEF Next, Master

\* The signal loop starts no process.
LEMMA SignalForksNone ==
  ASSUME TableType, NEW sig \in Sigs, SignalWorkers(sig)
  PROVE  \A p \in Pids : child[p] = "none" => child'[p] = "none"
BY ToldType DEF SignalWorkers, TableType

\* What NoForkWhenStopping says of one step.
ForkStep == (Stopping \/ ~listening) => \A p \in Pids : child[p] = "none" => child'[p] = "none"

\* Only the start loop, a respawn and an upgrade fork, none of them once the master stops.
LEMMA ForkNext == TableType /\ MasterType /\ StopInv /\ [Next]_vars => ForkStep
<1> SUFFICES ASSUME TableType, MasterType, StopInv, [Next]_vars PROVE ForkStep
  OBVIOUS
<1> USE DEF ForkStep, StopInv, Stopping, table, upg, term, local, kernel, env
<1>1. CASE UNCHANGED vars
  BY <1>1 DEF vars
<1>2. CASE Wake
  BY <1>2 DEF Wake
<1>3. CASE StartOne
  BY <1>3 DEF StartOne
<1>4. CASE StartDone
  <2>1. CASE job = "reload"
    BY <1>4, <2>1, SignalForksNone DEF StartDone, Sigs
  <2>2. CASE job # "reload"
    BY <1>4, <2>2 DEF StartDone, MasterType, Jobs
  <2> QED
    BY <2>1, <2>2
<1>5. CASE ReapKeep
  BY <1>5 DEF ReapKeep
<1>6. CASE ReapRespawn
  BY <1>6 DEF ReapRespawn, Respawnable, Reaping
<1>7. CASE ReapRespawnFails
  BY <1>7 DEF ReapRespawnFails
<1>8. CASE ReapFree
  BY <1>8 DEF ReapFree
<1>9. CASE ReapDone
  BY <1>9 DEF ReapDone
<1>10. CASE MasterExit
  BY <1>10 DEF MasterExit
<1>11. CASE TerminateWait
  BY <1>11 DEF TerminateWait
<1>12. CASE TerminateSignal
  <2>1. \E sig \in Sigs : SignalWorkers(sig)
    BY <1>12 DEF TerminateSignal, Sigs
  <2> QED
    BY <2>1, SignalForksNone
<1>13. CASE Quit
  <2>1. \E sig \in Sigs : SignalWorkers(sig)
    BY <1>13 DEF Quit, Sigs
  <2> QED
    BY <2>1, SignalForksNone
<1>14. CASE ReconfigureUpgrade
  BY <1>14 DEF ReconfigureUpgrade
<1>15. CASE ReconfigureFails
  BY <1>15 DEF ReconfigureFails
<1>16. CASE Reconfigure
  BY <1>16 DEF Reconfigure
<1>17. CASE Restart
  BY <1>17 DEF Restart
<1>18. CASE Reopen
  <2>1. \E sig \in Sigs : SignalWorkers(sig)
    BY <1>18 DEF Reopen, Sigs
  <2> QED
    BY <2>1, SignalForksNone
<1>19. CASE ChangeBinary
  BY <1>19 DEF ChangeBinary, Later, Running, Deciding
<1>20. CASE NoAccept
  <2>1. \E sig \in Sigs : SignalWorkers(sig)
    BY <1>20 DEF NoAccept, Sigs
  <2> QED
    BY <2>1, SignalForksNone
<1>21. CASE AllDone
  BY <1>21 DEF AllDone
<1>22. CASE Operator
  BY <1>22 DEF Operator
<1>23. CASE Alarm
  BY <1>23 DEF Alarm
<1>24. ASSUME NEW p \in Pids, Leaves(p) PROVE ForkStep
  BY <1>24 DEF Leaves, Set, TableType
<1>25. ASSUME NEW p \in Pids, Dies(p) PROVE ForkStep
  BY <1>25 DEF Dies, Set, TableType
<1> QED
  BY <1>1, <1>2, <1>3, <1>4, <1>5, <1>6, <1>7, <1>8, <1>9, <1>10, <1>11, <1>12, <1>13,
     <1>14, <1>15, <1>16, <1>17, <1>18, <1>19, <1>20, <1>21, <1>22, <1>23, <1>24, <1>25
     DEF Next, Master

\* Once the master is to stop it forks no process any more.
THEOREM StopForksNone == Spec => NoForkWhenStopping
<1>1. Init => StopInv
  BY DEF Init, StopInv, Stopping
<1>2. MasterType /\ StopInv /\ [Next]_vars => StopInv'
  BY StopNext
<1>3. TableType /\ MasterType /\ StopInv /\ [Next]_vars => [ForkStep]_vars
  BY ForkNext
<1>4. Spec => [](TableType /\ MasterType)
  BY TypeCorrect, TypeParts, PTL
<1>5. Spec => [][ForkStep]_vars
  BY <1>1, <1>2, <1>3, <1>4, PTL DEF Spec
<1> QED
  BY <1>5 DEF NoForkWhenStopping, ForkStep

\* Without USR2 there is never an upgrade.
NoUpgrade ==
  /\ newBinary = None /\ "change_binary" \notin flags
  /\ pc = "start" => job # "upgrade"

\* No process but a detached one is behind the slot.
Quiet(s) == Used(s) => detached[s] \/ child[pid[s]] = "none"

\* live = 0 means what it says: while the master reaps for the slots it has passed, and
\* outside of the start loop for all slots.
LiveInv ==
  /\ pc = "reap" /\ ~lv => \A s \in Slots : s < idx => Quiet(s)
  /\ pc \in {"suspend", "check"} /\ ~live => \A s \in Slots : Quiet(s)
  /\ pc = "exited" => \A s \in Slots : Quiet(s)

\* Only USR2 starts an upgrade.
LEMMA NoUpgradeNext == MasterType /\ NoUpgrade /\ "USR2" \notin Signals /\ [Next]_vars => NoUpgrade'
<1> SUFFICES ASSUME MasterType, NoUpgrade, "USR2" \notin Signals, [Next]_vars PROVE NoUpgrade'
  OBVIOUS
<1> USE DEF NoUpgrade, table, upg, term, local, kernel, env
<1>1. CASE UNCHANGED vars
  BY <1>1 DEF vars
<1>2. CASE Wake
  <2>1. \A g \in pending : Heard(g) => FlagOf(g) # "change_binary"
    BY SignalsAssumption DEF MasterType, FlagOf, Heard
  <2> QED
    BY <1>2, <2>1 DEF Wake
<1>3. CASE StartOne
  BY <1>3 DEF StartOne
<1>4. CASE StartDone
  <2>1. flags' \subseteq flags \cup {"reap"} /\ pc' # "start"
    <3>1. AfterTop(delay) \subseteq flags /\ SignalFlags("QUIT", flags) \subseteq flags \cup {"reap"}
      BY DEF AfterTop, SignalFlags
    <3> QED
      BY <1>4, <3>1 DEF StartDone, LoopTop, MasterType, Jobs
  <2> QED
    BY <1>4, <2>1 DEF StartDone
<1>5. CASE ReapKeep
  BY <1>5 DEF ReapKeep, ReapRest, Reaping
<1>6. CASE ReapRespawn
  BY <1>6 DEF ReapRespawn, ReapRest, Reaping
<1>7. CASE ReapRespawnFails
  BY <1>7 DEF ReapRespawnFails, ReapRest, Reaping
<1>8. CASE ReapFree
  BY <1>8 DEF ReapFree, ReapRest, Reaping
<1>9. CASE ReapDone
  BY <1>9 DEF ReapDone
<1>10. CASE MasterExit
  BY <1>10 DEF MasterExit, LoopTop, AfterTop, SignalFlags, Deciding, Running, Later
<1>11. CASE TerminateWait
  BY <1>11 DEF TerminateWait, LoopTop, AfterTop, SignalFlags, Deciding, Running, Later
<1>12. CASE TerminateSignal
  BY <1>12 DEF TerminateSignal, LoopTop, AfterTop, SignalFlags, Deciding, Running, Later
<1>13. CASE Quit
  BY <1>13 DEF Quit, LoopTop, AfterTop, SignalFlags, Deciding, Running, Later
<1>14. CASE ReconfigureUpgrade
  BY <1>14 DEF ReconfigureUpgrade, Start
<1>15. CASE ReconfigureFails
  BY <1>15 DEF ReconfigureFails, LoopTop, AfterTop, SignalFlags, Deciding, Running, Later
<1>16. CASE Reconfigure
  BY <1>16 DEF Reconfigure, Start
<1>17. CASE Restart
  BY <1>17 DEF Restart, Start
<1>18. CASE Reopen
  BY <1>18 DEF Reopen, LoopTop, AfterTop, SignalFlags, Deciding, Running, Later
<1>19. CASE ChangeBinary
  BY <1>19 DEF ChangeBinary
<1>20. CASE NoAccept
  BY <1>20 DEF NoAccept, LoopTop, AfterTop, SignalFlags, Deciding, Running, Later
<1>21. CASE AllDone
  BY <1>21 DEF AllDone, LoopTop, AfterTop, SignalFlags, Deciding, Running, Later
<1>22. CASE Operator
  BY <1>22 DEF Operator, masterState
<1>23. CASE Alarm
  BY <1>23 DEF Alarm, masterState
<1>24. ASSUME NEW p \in Pids, Leaves(p) PROVE NoUpgrade'
  BY <1>24 DEF Leaves, masterState
<1>25. ASSUME NEW p \in Pids, Dies(p) PROVE NoUpgrade'
  BY <1>25 DEF Dies, masterState
<1> QED
  BY <1>1, <1>2, <1>3, <1>4, <1>5, <1>6, <1>7, <1>8, <1>9, <1>10, <1>11, <1>12, <1>13,
     <1>14, <1>15, <1>16, <1>17, <1>18, <1>19, <1>20, <1>21, <1>22, <1>23, <1>24, <1>25
     DEF Next, Master

\* What a step leaves quiet: slots that keep their process, unless it comes into being.
LEMMA QuietKept ==
  ASSUME TableType, NEW s \in Slots, Quiet(s), UNCHANGED <<pid, last, detached>>,
         \A p \in Pids : child[p] = "none" => child'[p] = "none"
  PROVE  Quiet(s)'
BY SlotFacts DEF Quiet, Used

\* Every step keeps LiveInv, as long as there is no upgrade.
LEMMA LiveNext == TableType /\ MasterType /\ TableAgrees /\ NoUpgrade /\ LiveInv /\ [Next]_vars => LiveInv'
<1> SUFFICES ASSUME TableType, MasterType, TableAgrees, NoUpgrade, LiveInv, [Next]_vars PROVE LiveInv'
  OBVIOUS
<1> USE DEF table, upg, term, local, kernel, env
<1>1. CASE UNCHANGED vars
  <2>1. \A s \in Slots : Quiet(s) => Quiet(s)'
    BY <1>1, QuietKept DEF vars
  <2> QED
    BY <1>1, <2>1 DEF vars, LiveInv
<1>2. CASE Wake
  <2>1. \A p \in Pids : child[p] = "none" => child'[p] = "none"
    BY <1>2 DEF Wake, TableType
  <2>2. \A s \in Slots : Quiet(s) => Quiet(s)'
    BY <1>2, <2>1, QuietKept DEF Wake
  <2> QED
    BY <1>2, <2>2 DEF Wake, LiveInv, Slots
<1>3. CASE StartOne
  BY <1>3 DEF StartOne, LiveInv
<1>4. CASE StartDone
  <2>1. live' /\ pc' \in {"suspend", "check"}
    BY <1>4 DEF StartDone, LoopTop, NoUpgrade, MasterType, Jobs
  <2> QED
    BY <2>1 DEF LiveInv
<1>5. CASE ReapKeep
  <2>1. PICK i \in Slots : i = idx
    BY <1>5, SlotFacts DEF ReapKeep, Reaping, MasterType
  <2>2. \A s \in Slots : Quiet(s) => Quiet(s)'
    BY <1>5, QuietKept DEF ReapKeep
  <2>3. ~lv' => ~lv /\ Quiet(i)
    BY <1>5, <2>1 DEF ReapKeep, CountsLive, Quiet, Used, MasterType, TableType
  <2>4. \A s \in Slots : s < idx + 1 => s < idx \/ s = i
    BY <2>1, SlotFacts
  <2>5. pc' = "reap" /\ idx' = idx + 1 /\ pc = "reap"
    BY <1>5 DEF ReapKeep, ReapRest, Reaping
  <2> QED
    BY <2>2, <2>3, <2>4, <2>5, <2>1 DEF LiveInv
<1>6. CASE ReapRespawn
  BY <1>6 DEF ReapRespawn, ReapRest, Reaping, LiveInv
<1>7. CASE ReapRespawnFails
  <2>1. PICK i \in Slots : i = idx
    BY <1>7, SlotFacts DEF ReapRespawnFails, Reaping, MasterType
  <2>2. \A s \in Slots : Quiet(s) => Quiet(s)'
    BY <1>7, QuietKept DEF ReapRespawnFails
  <2>3. Quiet(i)
    BY <1>7, <2>1 DEF ReapRespawnFails, Reaping, Quiet, Used, TableAgrees
  <2>4. \A s \in Slots : s < idx + 1 => s < idx \/ s = i
    BY <2>1, SlotFacts
  <2>5. pc' = "reap" /\ idx' = idx + 1 /\ pc = "reap" /\ lv' = lv
    BY <1>7 DEF ReapRespawnFails, ReapRest, Reaping
  <2> QED
    BY <2>2, <2>3, <2>4, <2>5, <2>1 DEF LiveInv
<1>8. CASE ReapFree
  <2>1. PICK i \in Slots : i = idx
    BY <1>8, SlotFacts DEF ReapFree, Reaping, MasterType
  <2>2. UNCHANGED <<detached, child>> /\ pid' \in [Slots -> Pids \cup {None}]
    BY <1>8, <2>1 DEF ReapFree, Set, TableType
  <2>3. ~Used(i)' /\ \A t \in Slots : t # i => pid'[t] = pid[t] /\ (Used(t)' => Used(t))
    <3>1. CASE Shortens(idx)
      BY <1>8, <3>1, <2>1, SlotFacts DEF ReapFree, Shortens, Used
    <3>2. CASE ~Shortens(idx)
      <4>1. pid' = [pid EXCEPT ![idx] = None] /\ UNCHANGED last
        BY <1>8, <3>2 DEF ReapFree, Set
      <4>2. pid'[i] = None /\ \A t \in Slots : t # i => pid'[t] = pid[t]
        BY <4>1, <2>1 DEF TableType
      <4> QED
        BY <4>1, <4>2 DEF Used
    <3> QED
      BY <3>1, <3>2
  <2>4. Quiet(i)' /\ \A s \in Slots : Quiet(s) => Quiet(s)'
    BY <2>2, <2>3 DEF Quiet
  <2>5. \A s \in Slots : s < idx + 1 => s < idx \/ s = i
    BY <2>1, SlotFacts
  <2>6. pc' = "reap" /\ idx' = idx + 1 /\ pc = "reap" /\ lv' = lv
    BY <1>8 DEF ReapFree, ReapRest, Reaping
  <2> QED
    BY <2>4, <2>5, <2>6, <2>1 DEF LiveInv
<1>9. CASE ReapDone
  <2>1. \A s \in Slots : Quiet(s) => Quiet(s)'
    BY <1>9, QuietKept DEF ReapDone
  <2>2. ~lv => \A s \in Slots : Quiet(s)
    BY <1>9, SlotFacts DEF ReapDone, LiveInv, Quiet, Used, MasterType
  <2> QED
    BY <1>9, <2>1, <2>2 DEF ReapDone, LiveInv
<1>10. CASE MasterExit
  <2>1. \A s \in Slots : Quiet(s) => Quiet(s)'
    BY <1>10, QuietKept DEF MasterExit
  <2> QED
    BY <1>10, <2>1 DEF MasterExit, MayExit, LiveInv
<1>11. CASE TerminateWait
  <2>1. \A s \in Slots : Quiet(s) => Quiet(s)'
    BY <1>11, QuietKept DEF TerminateWait
  <2> QED
    BY <1>11, <2>1 DEF TerminateWait, LoopTop, Later, Running, Deciding, LiveInv
<1>12. CASE TerminateSignal
  <2>1. \E sig \in Sigs : SignalWorkers(sig)
    BY <1>12 DEF TerminateSignal, Sigs
  <2>2. \A s \in Slots : Quiet(s) => Quiet(s)'
    BY <2>1, SignalForksNone, QuietKept DEF SignalWorkers
  <2> QED
    BY <1>12, <2>2 DEF TerminateSignal, LoopTop, Later, Running, Deciding, LiveInv
<1>13. CASE Quit
  <2>1. \E sig \in Sigs : SignalWorkers(sig)
    BY <1>13 DEF Quit, Sigs
  <2>2. \A s \in Slots : Quiet(s) => Quiet(s)'
    BY <2>1, SignalForksNone, QuietKept DEF SignalWorkers
  <2> QED
    BY <1>13, <2>2 DEF Quit, LoopTop, Later, Running, Deciding, LiveInv
<1>14. CASE ReconfigureUpgrade
  BY <1>14 DEF ReconfigureUpgrade, Start, LiveInv
<1>15. CASE ReconfigureFails
  <2>1. \A s \in Slots : Quiet(s) => Quiet(s)'
    BY <1>15, QuietKept DEF ReconfigureFails
  <2> QED
    BY <1>15, <2>1 DEF ReconfigureFails, LoopTop, Later, Running, Deciding, LiveInv
<1>16. CASE Reconfigure
  BY <1>16 DEF Reconfigure, Start, LiveInv
<1>17. CASE Restart
  BY <1>17 DEF Restart, Start, LiveInv
<1>18. CASE Reopen
  <2>1. \E sig \in Sigs : SignalWorkers(sig)
    BY <1>18 DEF Reopen, Sigs
  <2>2. \A s \in Slots : Quiet(s) => Quiet(s)'
    BY <2>1, SignalForksNone, QuietKept DEF SignalWorkers
  <2> QED
    BY <1>18, <2>2 DEF Reopen, LoopTop, Later, Running, Deciding, LiveInv
<1>19. CASE ChangeBinary
  BY <1>19 DEF ChangeBinary, NoUpgrade
<1>20. CASE NoAccept
  <2>1. \E sig \in Sigs : SignalWorkers(sig)
    BY <1>20 DEF NoAccept, Sigs
  <2>2. \A s \in Slots : Quiet(s) => Quiet(s)'
    BY <2>1, SignalForksNone, QuietKept DEF SignalWorkers
  <2> QED
    BY <1>20, <2>2 DEF NoAccept, LoopTop, Later, Running, Deciding, LiveInv
<1>21. CASE AllDone
  <2>1. \A s \in Slots : Quiet(s) => Quiet(s)'
    BY <1>21, QuietKept DEF AllDone
  <2> QED
    BY <1>21, <2>1 DEF AllDone, LoopTop, Later, Running, Deciding, LiveInv
<1>22. CASE Operator
  <2>1. \A s \in Slots : Quiet(s) => Quiet(s)'
    BY <1>22, QuietKept DEF Operator, masterState
  <2> QED
    BY <1>22, <2>1 DEF Operator, masterState, LiveInv
<1>23. CASE Alarm
  <2>1. \A s \in Slots : Quiet(s) => Quiet(s)'
    BY <1>23, QuietKept DEF Alarm, masterState
  <2> QED
    BY <1>23, <2>1 DEF Alarm, masterState, LiveInv
<1>24. ASSUME NEW p \in Pids, Leaves(p) PROVE LiveInv'
  <2>1. \A q \in Pids : child[q] = "none" => child'[q] = "none"
    BY <1>24 DEF Leaves, Set, TableType
  <2>2. \A s \in Slots : Quiet(s) => Quiet(s)'
    BY <1>24, <2>1, QuietKept DEF Leaves, masterState
  <2> QED
    BY <1>24, <2>2 DEF Leaves, masterState, LiveInv
<1>25. ASSUME NEW p \in Pids, Dies(p) PROVE LiveInv'
  <2>1. \A q \in Pids : child[q] = "none" => child'[q] = "none"
    BY <1>25 DEF Dies, Set, TableType
  <2>2. \A s \in Slots : Quiet(s) => Quiet(s)'
    BY <1>25, <2>1, QuietKept DEF Dies, masterState
  <2> QED
    BY <1>25, <2>2 DEF Dies, masterState, LiveInv
<1> QED
  BY <1>1, <1>2, <1>3, <1>4, <1>5, <1>6, <1>7, <1>8, <1>9, <1>10, <1>11, <1>12, <1>13,
     <1>14, <1>15, <1>16, <1>17, <1>18, <1>19, <1>20, <1>21, <1>22, <1>23, <1>24, <1>25
     DEF Next, Master

\* Where nobody upgrades the binary, the master exits after its children.
THEOREM MasterLast ==
  ASSUME "USR2" \notin Signals
  PROVE  Spec => []MasterExitsLast
<1>1. Init => NoUpgrade /\ LiveInv
  BY DEF Init, NoUpgrade, LiveInv
<1>2. MasterType /\ NoUpgrade /\ [Next]_vars => NoUpgrade'
  BY NoUpgradeNext
<1>3. TableType /\ MasterType /\ TableAgrees /\ NoUpgrade /\ LiveInv /\ [Next]_vars => LiveInv'
  BY LiveNext
<1>4. Spec => [](TableType /\ MasterType)
  BY TypeCorrect, TypeParts, PTL
<1>5. LiveInv => MasterExitsLast
  BY DEF LiveInv, MasterExitsLast, Quiet
<1> QED
  BY <1>1, <1>2, <1>3, <1>4, <1>5, TableSafe, PTL DEF Spec

-----------------------------------------------------------------------------
(* The upgrade of the binary *)

(***************************************************************************)
(* The inductive invariant: USR2 was heard only while no new binary ran,   *)
(* and a detached process is never respawned.  Without the first a second  *)
(* upgrade would overwrite ngx_new_binary, without the second the slot of  *)
(* a dead binary could come to name a worker.                              *)
(***************************************************************************)
TrackInv ==
  /\ NewBinaryTracked
  /\ "change_binary" \in flags => newBinary \notin Pids
  /\ \A s \in Slots : Used(s) /\ detached[s] => ~respawn[s]

\* What a step that leaves the pids of the table alone must respect.
LEMMA TrackKept ==
  ASSUME TrackInv, UNCHANGED <<pid, last, detached, newBinary>>,
         \A s \in Slots : respawn'[s] => respawn[s],
         "change_binary" \in flags' => newBinary \notin Pids
  PROVE  TrackInv'
BY DEF TrackInv, NewBinaryTracked, Used

\* A fork fills a slot that was not in use, and no other slot changes.
LEMMA NewSlotFacts ==
  ASSUME TableType, NEW s \in 0 .. MaxSlots, NEW p \in Pids, NEW k, NEW type,
         FreeSlot(s), NewSlot(s, p, k, type)
  PROVE  /\ s \in Slots /\ ~Used(s) /\ Used(s)' /\ pid'[s] = p
         /\ detached'[s] <=> type = "detached"
         /\ type = "detached" => ~respawn'[s]
         /\ \A t \in Slots : t # s => /\ Used(t)' <=> Used(t)
                                      /\ pid'[t] = pid[t] /\ (detached'[t] <=> detached[t])
                                      /\ (respawn'[t] <=> respawn[t])
<1>1. s \in Slots /\ s \in Int /\ last \in Int /\ last \in Nat
  BY SizesAssumption DEF FreeSlot, Slots, TableType
<1>2. pid'[s] = p /\ s < last' /\ p # None
  BY <1>1, NamesAssumption DEF NewSlot, Set, TableType, FreeSlot, Found
<1>3. \A t \in Slots : t # s => /\ pid'[t] = pid[t] /\ (detached'[t] <=> detached[t])
                                /\ (respawn'[t] <=> respawn[t]) /\ (t < last' <=> t < last)
  BY <1>1 DEF NewSlot, Set, TableType, Slots
<1>4. (detached'[s] <=> type = "detached") /\ (type = "detached" => ~respawn'[s])
  BY <1>1 DEF NewSlot, Set, TableType
<1> QED
  BY <1>1, <1>2, <1>3, <1>4 DEF Used, FreeSlot, Found

\* Every step keeps TrackInv.
LEMMA TrackNext == TableType /\ MasterType /\ TableAgrees /\ TrackInv /\ [Next]_vars => TrackInv'
<1> SUFFICES ASSUME TableType, MasterType, TableAgrees, TrackInv, [Next]_vars PROVE TrackInv'
  OBVIOUS
<1> USE DEF table, upg, term, local, kernel, env, ReapRest
<1>1. CASE UNCHANGED vars
  BY <1>1, TrackKept DEF vars, TrackInv
<1>2. CASE Wake
  <2>1. \A g \in pending : Heard(g) /\ FlagOf(g) = "change_binary" => newBinary \notin Pids
    BY SignalsAssumption DEF MasterType, FlagOf, Heard
  <2>2. "change_binary" \in flags' => newBinary \notin Pids
    BY <1>2, <2>1 DEF Wake, TrackInv
  <2>3. \A s \in Slots : respawn'[s] => respawn[s]
    BY <1>2 DEF Wake
  <2> QED
    BY <1>2, <2>2, <2>3, TrackKept DEF Wake
<1>3. CASE StartOne
  <2>0. StartType(idx) # "detached"
    BY DEF StartType
  <2>1. CASE \E s \in 0 .. MaxSlots, p \in Pids :
                FreeSlot(s) /\ FreshPid(p) /\ NewSlot(s, p, StartKind(idx), StartType(idx))
    <3>1. PICK s \in 0 .. MaxSlots, p \in Pids :
                FreeSlot(s) /\ FreshPid(p) /\ NewSlot(s, p, StartKind(idx), StartType(idx))
      BY <2>1
    <3>2. s \in Slots /\ ~Used(s) /\ Used(s)' /\ ~detached'[s]
      BY <2>0, <3>1, NewSlotFacts
    <3>3. \A t \in Slots : t # s => /\ Used(t)' <=> Used(t)
                                    /\ pid'[t] = pid[t] /\ (detached'[t] <=> detached[t])
                                    /\ (respawn'[t] <=> respawn[t])
      BY <3>1, NewSlotFacts
    <3>4. UNCHANGED <<newBinary, flags>>
      BY <1>3 DEF StartOne
    <3>5. newBinary \in Pids => \E t \in Slots : Used(t)' /\ pid'[t] = newBinary /\ detached'[t]
      <4> SUFFICES ASSUME newBinary \in Pids
                   PROVE  \E t \in Slots : Used(t)' /\ pid'[t] = newBinary /\ detached'[t]
        OBVIOUS
      <4>1. PICK t \in Slots : Used(t) /\ pid[t] = newBinary /\ detached[t]
        BY DEF TrackInv, NewBinaryTracked
      <4>2. t # s
        BY <3>2, <4>1
      <4> QED
        BY <3>3, <4>1, <4>2
    <3>6. \A t \in Slots : Used(t)' /\ detached'[t] => pid'[t] = newBinary /\ ~respawn'[t]
      BY <3>2, <3>3 DEF TrackInv, NewBinaryTracked
    <3> QED
      BY <3>4, <3>5, <3>6 DEF TrackInv, NewBinaryTracked
  <2>2. CASE UNCHANGED <<table, child, born>>
    BY <1>3, <2>2, TrackKept DEF StartOne, TrackInv
  <2> QED
    BY <1>3, <2>1, <2>2 DEF StartOne
<1>4. CASE StartDone
  <2>1. flags' \subseteq flags \cup {"reap"}
    <3>1. AfterTop(delay) \subseteq flags /\ SignalFlags("QUIT", flags) \subseteq flags \cup {"reap"}
      BY DEF AfterTop, SignalFlags
    <3> QED
      BY <1>4, <3>1 DEF StartDone, MasterType, Jobs
  <2>2. UNCHANGED <<pid, last, detached, respawn, newBinary>>
    BY <1>4 DEF StartDone, SignalWorkers, MasterType, Jobs
  <2>3. "change_binary" \in flags' => newBinary \notin Pids
    BY <2>1 DEF TrackInv
  <2> QED
    BY <2>2, <2>3, TrackKept
<1>5. CASE ReapKeep
  <2>1. "change_binary" \in flags' => "change_binary" \in flags
    BY <1>5 DEF ReapKeep
  <2>2. UNCHANGED <<pid, last, detached, respawn, newBinary>>
    BY <1>5 DEF ReapKeep
  <2> QED
    BY <2>1, <2>2, TrackKept DEF TrackInv
<1>6. CASE ReapRespawn
  <2>1. PICK p \in Pids : FreshPid(p) /\ pid' = Set(pid, idx, p)
    BY <1>6 DEF ReapRespawn
  <2>2. PICK i \in Slots : i = idx
    BY <1>6, SlotFacts DEF ReapRespawn, Reaping, MasterType
  <2>3. Used(i) /\ respawn[i] /\ UNCHANGED <<last, detached, respawn, newBinary, flags>>
    BY <1>6, <2>2 DEF ReapRespawn, Reaping, Used, Respawnable
  <2>4. ~detached[i]
    BY <2>3 DEF TrackInv
  <2>5. \A t \in Slots : t # i => pid'[t] = pid[t] /\ (Used(t)' <=> Used(t))
    BY <2>1, <2>2, <2>3 DEF Set, TableType, Used
  <2> QED
    BY <2>3, <2>4, <2>5 DEF TrackInv, NewBinaryTracked
<1>7. CASE ReapRespawnFails
  <2>1. "change_binary" \in flags' => "change_binary" \in flags
    BY <1>7 DEF ReapRespawnFails
  <2>2. UNCHANGED <<pid, last, detached, respawn, newBinary>>
    BY <1>7 DEF ReapRespawnFails
  <2> QED
    BY <2>1, <2>2, TrackKept DEF TrackInv
<1>8. CASE ReapFree
  <2>1. PICK i \in Slots : i = idx
    BY <1>8, SlotFacts DEF ReapFree, Reaping, MasterType
  <2>2. Used(i) /\ pid[i] \in Pids /\ UNCHANGED <<detached, respawn>>
    BY <1>8, <2>1, SlotFacts DEF ReapFree, Reaping, Used
  <2>3. ~Used(i)' /\ \A t \in Slots : t # i => pid'[t] = pid[t] /\ (Used(t)' <=> Used(t))
    <3>1. CASE Shortens(idx)
      BY <1>8, <3>1, <2>1, SlotFacts DEF ReapFree, Shortens, Used
    <3>2. CASE ~Shortens(idx)
      <4>1. pid' = [pid EXCEPT ![idx] = None] /\ UNCHANGED last
        BY <1>8, <3>2 DEF ReapFree, Set
      <4>2. pid'[i] = None /\ \A t \in Slots : t # i => pid'[t] = pid[t]
        BY <4>1, <2>1 DEF TableType
      <4> QED
        BY <4>1, <4>2 DEF Used
    <3> QED
      BY <3>1, <3>2
  <2>4. CASE pid[i] = newBinary
    <3>1. newBinary' = None /\ None \notin Pids
      BY <1>8, <2>1, <2>4, NamesAssumption DEF ReapFree
    <3>2. \A t \in Slots : t # i /\ Used(t) => ~detached[t]
      BY <2>2, <2>4 DEF TrackInv, NewBinaryTracked, TableAgrees
    <3> QED
      BY <2>2, <2>3, <3>1, <3>2 DEF TrackInv, NewBinaryTracked
  <2>5. CASE pid[i] # newBinary
    <3>1. UNCHANGED <<newBinary, flags>>
      BY <1>8, <2>1, <2>5 DEF ReapFree
    <3> QED
      BY <2>2, <2>3, <2>5, <3>1 DEF TrackInv, NewBinaryTracked
  <2> QED
    BY <2>4, <2>5
<1>9. CASE ReapDone
  <2>1. "change_binary" \in flags' => "change_binary" \in flags
    BY <1>9 DEF ReapDone
  <2>2. UNCHANGED <<pid, last, detached, respawn, newBinary>>
    BY <1>9 DEF ReapDone
  <2> QED
    BY <2>1, <2>2, TrackKept DEF TrackInv
<1>10. CASE MasterExit
  <2>1. "change_binary" \in flags' => "change_binary" \in flags
    BY <1>10 DEF MasterExit
  <2>2. UNCHANGED <<pid, last, detached, respawn, newBinary>>
    BY <1>10 DEF MasterExit
  <2> QED
    BY <2>1, <2>2, TrackKept DEF TrackInv
<1>11. CASE TerminateWait
  <2>1. "change_binary" \in flags' => "change_binary" \in flags
    BY <1>11 DEF TerminateWait, AfterTop, SignalFlags
  <2>2. UNCHANGED <<pid, last, detached, respawn, newBinary>>
    BY <1>11 DEF TerminateWait, SignalWorkers
  <2> QED
    BY <2>1, <2>2, TrackKept DEF TrackInv
<1>12. CASE TerminateSignal
  <2>1. "change_binary" \in flags' => "change_binary" \in flags
    BY <1>12 DEF TerminateSignal, AfterTop, SignalFlags
  <2>2. UNCHANGED <<pid, last, detached, respawn, newBinary>>
    BY <1>12 DEF TerminateSignal, SignalWorkers
  <2> QED
    BY <2>1, <2>2, TrackKept DEF TrackInv
<1>13. CASE Quit
  <2>1. "change_binary" \in flags' => "change_binary" \in flags
    BY <1>13 DEF Quit, AfterTop, SignalFlags
  <2>2. UNCHANGED <<pid, last, detached, respawn, newBinary>>
    BY <1>13 DEF Quit, SignalWorkers
  <2> QED
    BY <2>1, <2>2, TrackKept DEF TrackInv
<1>14. CASE ReconfigureUpgrade
  <2>1. "change_binary" \in flags' => "change_binary" \in flags
    BY <1>14 DEF ReconfigureUpgrade
  <2>2. UNCHANGED <<pid, last, detached, respawn, newBinary>>
    BY <1>14 DEF ReconfigureUpgrade
  <2> QED
    BY <2>1, <2>2, TrackKept DEF TrackInv
<1>15. CASE ReconfigureFails
  <2>1. "change_binary" \in flags' => "change_binary" \in flags
    BY <1>15 DEF ReconfigureFails, AfterTop, SignalFlags
  <2>2. UNCHANGED <<pid, last, detached, respawn, newBinary>>
    BY <1>15 DEF ReconfigureFails, SignalWorkers
  <2> QED
    BY <2>1, <2>2, TrackKept DEF TrackInv
<1>16. CASE Reconfigure
  <2>1. "change_binary" \in flags' => "change_binary" \in flags
    BY <1>16 DEF Reconfigure
  <2>2. UNCHANGED <<pid, last, detached, respawn, newBinary>>
    BY <1>16 DEF Reconfigure
  <2> QED
    BY <2>1, <2>2, TrackKept DEF TrackInv
<1>17. CASE Restart
  <2>1. "change_binary" \in flags' => "change_binary" \in flags
    BY <1>17 DEF Restart
  <2>2. UNCHANGED <<pid, last, detached, respawn, newBinary>>
    BY <1>17 DEF Restart
  <2> QED
    BY <2>1, <2>2, TrackKept DEF TrackInv
<1>18. CASE Reopen
  <2>1. "change_binary" \in flags' => "change_binary" \in flags
    BY <1>18 DEF Reopen, AfterTop, SignalFlags
  <2>2. UNCHANGED <<pid, last, detached, respawn, newBinary>>
    BY <1>18 DEF Reopen, SignalWorkers
  <2> QED
    BY <2>1, <2>2, TrackKept DEF TrackInv
<1>19. CASE ChangeBinary
  <2>0. "change_binary" \notin flags' /\ newBinary \notin Pids
    BY <1>19 DEF ChangeBinary, TrackInv
  <2>1. CASE \E s \in 0 .. MaxSlots, p \in Pids :
                FreeSlot(s) /\ FreshPid(p) /\ NewSlot(s, p, "binary", "detached") /\ newBinary' = p
    <3>1. PICK s \in 0 .. MaxSlots, p \in Pids :
                FreeSlot(s) /\ FreshPid(p) /\ NewSlot(s, p, "binary", "detached") /\ newBinary' = p
      BY <2>1
    <3>2. s \in Slots /\ Used(s)' /\ pid'[s] = p /\ detached'[s] /\ ~respawn'[s]
      BY <3>1, NewSlotFacts
    <3>3. \A t \in Slots : t # s => /\ Used(t)' <=> Used(t)
                                    /\ (detached'[t] <=> detached[t]) /\ (respawn'[t] <=> respawn[t])
      BY <3>1, NewSlotFacts
    <3>4. \A t \in Slots : Used(t) => ~detached[t]
      BY <2>0, SlotFacts DEF TrackInv, NewBinaryTracked
    <3> QED
      BY <2>0, <3>1, <3>2, <3>3, <3>4 DEF TrackInv, NewBinaryTracked
  <2>2. CASE newBinary' = Invalid /\ UNCHANGED <<table, child, born>>
    <3>1. \A t \in Slots : Used(t) => ~detached[t]
      BY <2>0, SlotFacts DEF TrackInv, NewBinaryTracked
    <3> QED
      BY <2>0, <2>2, <3>1, NamesAssumption DEF TrackInv, NewBinaryTracked, Used
  <2> QED
    BY <1>19, <2>1, <2>2 DEF ChangeBinary
<1>20. CASE NoAccept
  <2>1. "change_binary" \in flags' => "change_binary" \in flags
    BY <1>20 DEF NoAccept, AfterTop, SignalFlags
  <2>2. UNCHANGED <<pid, last, detached, respawn, newBinary>>
    BY <1>20 DEF NoAccept, SignalWorkers
  <2> QED
    BY <2>1, <2>2, TrackKept DEF TrackInv
<1>21. CASE AllDone
  <2>1. "change_binary" \in flags' => "change_binary" \in flags
    BY <1>21 DEF AllDone, AfterTop, SignalFlags
  <2>2. UNCHANGED <<pid, last, detached, respawn, newBinary>>
    BY <1>21 DEF AllDone, SignalWorkers
  <2> QED
    BY <2>1, <2>2, TrackKept DEF TrackInv
<1>22. CASE Operator
  BY <1>22, TrackKept DEF Operator, masterState, TrackInv
<1>23. CASE Alarm
  BY <1>23, TrackKept DEF Alarm, masterState, TrackInv
<1>24. ASSUME NEW p \in Pids, Leaves(p) PROVE TrackInv'
  BY <1>24, TrackKept DEF Leaves, masterState, TrackInv
<1>25. ASSUME NEW p \in Pids, Dies(p) PROVE TrackInv'
  BY <1>25, TrackKept DEF Dies, masterState, TrackInv
<1> QED
  BY <1>1, <1>2, <1>3, <1>4, <1>5, <1>6, <1>7, <1>8, <1>9, <1>10, <1>11, <1>12, <1>13,
     <1>14, <1>15, <1>16, <1>17, <1>18, <1>19, <1>20, <1>21, <1>22, <1>23, <1>24, <1>25
     DEF Next, Master

\* ngx_new_binary names the one detached process as long as it lives: its death is noticed, and
\* a second USR2 starts nothing.
THEOREM UpgradeTracked == Spec => []NewBinaryTracked
<1>1. Init => TrackInv
  BY NamesAssumption DEF Init, TrackInv, NewBinaryTracked, Used
<1>2. TableType /\ MasterType /\ TableAgrees /\ TrackInv /\ [Next]_vars => TrackInv'
  BY TrackNext
<1>3. Spec => [](TableType /\ MasterType)
  BY TypeCorrect, TypeParts, PTL
<1>4. TrackInv => NewBinaryTracked
  BY DEF TrackInv
<1> QED
  BY <1>1, <1>2, <1>3, <1>4, TableSafe, PTL DEF Spec

-----------------------------------------------------------------------------
(* One generation of workers *)

(***************************************************************************)
(* The inductive invariant: a process whose slot is marked exiting has     *)
(* been told so; a detached process is a new binary and no worker;         *)
(* just_spawn protects only the processes of the reload that is going on;  *)
(* and outside of such a reload every worker that serves was forked with   *)
(* the current cycle.                                                      *)
(***************************************************************************)
GenInv ==
  /\ \A s \in Slots : Used(s) /\ exiting[s] => child[pid[s]] # "run"
  /\ \A s \in Slots : Used(s) /\ detached[s] => kind[s] = "binary" /\ ~just[s]
  /\ \A s \in Slots : Used(s) /\ just[s] => pc = "start" /\ job = "reload" /\ born[pid[s]] = gen
  /\ ~(pc = "start" /\ job = "reload") => \A s \in Slots : Serving(s) => born[pid[s]] = gen

\* No process begins to run and none changes its cycle.
Calm == born' = born /\ \A p \in Pids : child'[p] = "run" => child[p] = "run"

\* A step that leaves the table alone and neither begins nor ends a reload.
LEMMA GenKept ==
  ASSUME TableType, GenInv, Calm, UNCHANGED <<pid, last, exiting, detached, just, kind, gen>>,
         (pc' = "start" /\ job' = "reload") <=> (pc = "start" /\ job = "reload")
  PROVE  GenInv'
<1>1. \A s \in Slots : Used(s)' <=> Used(s)
  BY DEF Used
<1>2. \A s \in Slots : Serving(s)' => Serving(s)
  BY <1>1, SlotFacts DEF Serving, Calm
<1> QED
  BY <1>1, <1>2, SlotFacts DEF GenInv, Calm

\* A fork in the start loop or for an upgrade.
LEMMA GenNewSlot ==
  ASSUME TableType, MasterType, GenInv, UNCHANGED <<gen, pc, job>>,
         NEW s \in 0 .. MaxSlots, NEW p \in Pids, NEW k, NEW type,
         FreeSlot(s), FreshPid(p), NewSlot(s, p, k, type),
         type = "detached" => k = "binary",
         Just(type) => pc = "start" /\ job = "reload"
  PROVE  GenInv'
<1>1. s \in Slots /\ Used(s)' /\ pid'[s] = p
  BY NewSlotFacts
<1>2. \A t \in Slots : t # s => (Used(t)' <=> Used(t)) /\ pid'[t] = pid[t]
  BY NewSlotFacts
<1>3. ~exiting'[s] /\ (detached'[s] <=> type = "detached") /\ (just'[s] <=> Just(type)) /\ kind'[s] = k
  BY <1>1 DEF NewSlot, Set, TableType
<1>4. \A t \in Slots : t # s => /\ exiting'[t] <=> exiting[t]
                                /\ detached'[t] <=> detached[t]
                                /\ just'[t] <=> just[t]
                                /\ kind'[t] = kind[t]
  BY <1>1 DEF NewSlot, Set, TableType
<1>5. born'[p] = gen /\ \A q \in Pids : q # p => child'[q] = child[q] /\ born'[q] = born[q]
  BY DEF NewSlot, Forked, Set, TableType
<1>6. \A t \in Slots : t # s /\ Used(t)' => pid[t] # p /\ pid[t] \in Pids
  BY <1>2, SlotFacts DEF FreshPid
<1>7. type = "detached" => ~Just(type)
  BY DEF Just
<1>8. \A t \in Slots : t # s /\ Serving(t)' => Serving(t)
  BY <1>2, <1>4, <1>5, <1>6 DEF Serving
<1>9. ASSUME NEW t \in Slots, t # s, Used(t)'
      PROVE  Used(t) /\ pid'[t] = pid[t] /\ child'[pid'[t]] = child[pid[t]] /\ born'[pid'[t]] = born[pid[t]]
  BY <1>2, <1>5, <1>6, <1>9
<1>10. \A t \in Slots : Used(t)' /\ exiting'[t] => child'[pid'[t]] # "run"
  BY <1>3, <1>4, <1>9 DEF GenInv
<1>11. \A t \in Slots : Used(t)' /\ detached'[t] => kind'[t] = "binary" /\ ~just'[t]
  BY <1>3, <1>4, <1>7, <1>9 DEF GenInv
<1>12. \A t \in Slots : Used(t)' /\ just'[t] => pc' = "start" /\ job' = "reload" /\ born'[pid'[t]] = gen'
  BY <1>1, <1>3, <1>4, <1>5, <1>9 DEF GenInv
<1>13. ASSUME ~(pc' = "start" /\ job' = "reload"), NEW t \in Slots, Serving(t)'
       PROVE  born'[pid'[t]] = gen'
  <2>1. CASE t = s
    BY <2>1, <1>1, <1>5
  <2>2. CASE t # s
    <3>1. Serving(t) /\ Used(t)'
      BY <2>2, <1>8, <1>13 DEF Serving
    <3> QED
      BY <2>2, <3>1, <1>9, <1>13 DEF GenInv
  <2> QED
    BY <2>1, <2>2
<1> QED
  BY <1>10, <1>11, <1>12, <1>13 DEF GenInv

\* What a command leaves of a process.
LEMMA ToldRuns ==
  ASSUME NEW c \in States, NEW sig \in Sigs, Told(c, sig) = "run"
  PROVE  c = "run" /\ sig = "REOPEN"
BY DEF Told, States, Sigs, Alive, Gone

\* The signal loop: just_spawn is used up, and what it marks as exiting has been told.
LEMMA SignalFacts ==
  ASSUME TableType, GenInv, NEW sig \in Sigs, SignalWorkers(sig)
  PROVE  /\ Calm /\ UNCHANGED <<pid, detached, kind, last>>
         /\ \A s \in Slots : Used(s)' <=> Used(s)
         /\ \A s \in Slots : Used(s) => ~just'[s]
         /\ \A s \in Slots : Used(s) /\ exiting'[s] => child'[pid[s]] # "run"
         /\ sig = "QUIT" => \A s \in Slots : Serving(s)' => just[s]
<1>1. UNCHANGED <<pid, detached, kind, last, born>>
  BY DEF SignalWorkers
<1>2. \A s \in Slots : Used(s)' <=> Used(s)
  BY <1>1 DEF Used
<1>3. \A s \in Slots : Used(s) => ~just'[s]
  BY DEF SignalWorkers, JustCleared, GenInv
<1>4. \A p \in Pids : child'[p] = child[p] \/ child'[p] = Told(child[p], sig)
  BY DEF SignalWorkers
<1>5. \A p \in Pids : child'[p] = "run" => child[p] = "run"
  BY <1>4, ToldRuns DEF TableType
<1>6. \A s \in Slots : Addressed(s, sig) => child'[pid[s]] = Told(child[pid[s]], sig)
  BY SlotFacts DEF SignalWorkers, Addressed
<1>7. ASSUME NEW s \in Slots, Used(s), exiting'[s], child'[pid[s]] = "run"
      PROVE  FALSE
  <2>1. pid[s] \in Pids /\ child[pid[s]] = "run"
    BY <1>5, <1>7, SlotFacts
  <2>2. ~exiting[s]
    BY <2>1, <1>7 DEF GenInv
  <2>3. Addressed(s, sig) /\ sig # "REOPEN"
    BY <1>7, <2>2 DEF SignalWorkers
  <2> QED
    BY <1>6, <1>7, <2>1, <2>3, ToldRuns DEF TableType
<1>8. ASSUME sig = "QUIT", NEW s \in Slots, Serving(s)', ~just[s]
      PROVE  FALSE
  <2>1. Used(s) /\ kind[s] = "worker" /\ child'[pid[s]] = "run" /\ pid[s] \in Pids
    BY <1>1, <1>2, <1>8, SlotFacts DEF Serving
  <2>2. child[pid[s]] = "run" /\ ~exiting[s] /\ ~detached[s]
    BY <1>5, <2>1 DEF GenInv
  <2>3. Addressed(s, sig)
    BY <1>8, <2>1, <2>2 DEF Addressed
  <2> QED
    BY <1>6, <1>8, <2>1, <2>3, ToldRuns DEF TableType
<1> QED
  BY <1>1, <1>2, <1>3, <1>5, <1>7, <1>8 DEF Calm

\* A command to all workers outside of a reload.
LEMMA GenSignal ==
  ASSUME TableType, GenInv, \E sig \in Sigs : SignalWorkers(sig),
         pc = "check", pc' # "start", UNCHANGED gen
  PROVE  GenInv'
<1>1. PICK sig \in Sigs : SignalWorkers(sig)
  OBVIOUS
<1>2. Calm /\ UNCHANGED <<pid, detached, kind, last>>
  BY <1>1, SignalFacts
<1>3. /\ \A s \in Slots : Used(s)' <=> Used(s)
      /\ \A s \in Slots : Used(s) => ~just'[s]
      /\ \A s \in Slots : Used(s) /\ exiting'[s] => child'[pid[s]] # "run"
  BY <1>1, SignalFacts
<1>4. \A s \in Slots : Serving(s)' => Serving(s)
  BY <1>2, <1>3, SlotFacts DEF Serving, Calm
<1> QED
  BY <1>2, <1>3, <1>4 DEF GenInv, Calm

\* QUIT at the end of a reload reaches every worker but the new ones.
LEMMA GenQuit ==
  ASSUME TableType, GenInv, SignalWorkers("QUIT"), pc = "start", job = "reload", pc' # "start",
         UNCHANGED gen
  PROVE  GenInv'
<1>0. "QUIT" \in Sigs
  BY DEF Sigs
<1>1. Calm /\ UNCHANGED <<pid, detached, kind, last>>
  BY <1>0, SignalFacts
<1>2. /\ \A s \in Slots : Used(s)' <=> Used(s)
      /\ \A s \in Slots : Used(s) => ~just'[s]
      /\ \A s \in Slots : Used(s) /\ exiting'[s] => child'[pid[s]] # "run"
      /\ \A s \in Slots : Serving(s)' => just[s]
  BY <1>0, SignalFacts
<1>3. \A s \in Slots : Serving(s)' => born[pid[s]] = gen
  BY <1>2 DEF Serving, GenInv
<1> QED
  BY <1>1, <1>2, <1>3 DEF GenInv, Calm

\* A slot that is given up is the only one that changes.
LEMMA FreedFacts ==
  ASSUME TableType, MasterType, ReapFree
  PROVE  \A t \in Slots : Used(t)' => t # idx /\ Used(t) /\ pid'[t] = pid[t]
<1>1. PICK i \in Slots : i = idx
  BY SlotFacts DEF ReapFree, Reaping, MasterType
<1>2. CASE Shortens(idx)
  BY <1>1, <1>2, SlotFacts DEF ReapFree, Shortens, Used
<1>3. CASE ~Shortens(idx)
  <2>1. pid' = [pid EXCEPT ![idx] = None] /\ UNCHANGED last
    BY <1>3 DEF ReapFree, Set
  <2>2. pid'[i] = None /\ \A t \in Slots : t # i => pid'[t] = pid[t]
    BY <2>1, <1>1 DEF TableType
  <2> QED
    BY <1>1, <2>1, <2>2 DEF Used
<1> QED
  BY <1>2, <1>3

\* Every step keeps GenInv.
LEMMA GenNext == TableType /\ MasterType /\ TableAgrees /\ GenInv /\ [Next]_vars => GenInv'
<1> SUFFICES ASSUME TableType, MasterType, TableAgrees, GenInv, [Next]_vars PROVE GenInv'
  OBVIOUS
<1> USE DEF table, upg, term, local, kernel, env
<1>1. CASE UNCHANGED vars
  <2>1. Calm
    BY <1>1 DEF vars, Calm
  <2> QED
    BY <1>1, <2>1, GenKept DEF vars
<1>2. CASE Wake
  <2>1. Calm
    BY <1>2 DEF Wake, Calm, TableType
  <2> QED
    BY <1>2, <2>1, GenKept DEF Wake
<1>3. CASE StartOne
  <2>1. CASE \E s \in 0 .. MaxSlots, p \in Pids :
                FreeSlot(s) /\ FreshPid(p) /\ NewSlot(s, p, StartKind(idx), StartType(idx))
    <3>1. PICK s \in 0 .. MaxSlots, p \in Pids :
                FreeSlot(s) /\ FreshPid(p) /\ NewSlot(s, p, StartKind(idx), StartType(idx))
      BY <2>1
    <3>2. UNCHANGED <<gen, pc, job>> /\ pc = "start"
      BY <1>3 DEF StartOne
    <3>3. StartType(idx) # "detached" /\ (Just(StartType(idx)) => job = "reload")
      BY DEF StartType, Just
    <3> QED
      BY <3>1, <3>2, <3>3, GenNewSlot
  <2>2. CASE UNCHANGED <<table, child, born>>
    <3>1. Calm
      BY <2>2 DEF Calm
    <3> QED
      BY <1>3, <2>2, <3>1, GenKept DEF StartOne
  <2> QED
    BY <1>3, <2>1, <2>2 DEF StartOne
<1>4. CASE StartDone
  <2>1. UNCHANGED <<gen, job>> /\ pc' # "start" /\ pc = "start"
    BY <1>4 DEF StartDone, LoopTop, MasterType, Jobs
  <2>2. CASE job = "reload"
    <3>1. SignalWorkers("QUIT")
      BY <1>4, <2>2 DEF StartDone
    <3> QED
      BY <2>1, <2>2, <3>1, GenQuit
  <2>3. CASE job # "reload"
    <3>1. UNCHANGED <<table, child, born>>
      BY <1>4, <2>3 DEF StartDone, MasterType, Jobs
    <3>2. Calm
      BY <3>1 DEF Calm
    <3> QED
      BY <2>1, <2>3, <3>1, <3>2, GenKept
  <2> QED
    BY <2>2, <2>3
<1>5. CASE ReapKeep
  <2>1. Calm
    BY <1>5 DEF ReapKeep, Reaping, ReapRest, Calm
  <2> QED
    BY <1>5, <2>1, GenKept DEF ReapKeep, Reaping, ReapRest
<1>6. CASE ReapRespawn
  <2>1. PICK p \in Pids : FreshPid(p) /\ Forked(p) /\ pid' = Set(pid, idx, p)
    BY <1>6 DEF ReapRespawn
  <2>2. PICK i \in Slots : i = idx
    BY <1>6, SlotFacts DEF ReapRespawn, Reaping, MasterType
  <2>3. /\ Used(i) /\ ~exiting[i] /\ pc = "reap" /\ pc' = "reap"
        /\ UNCHANGED <<last, exiting, detached, just, kind, gen, job>>
    BY <1>6, <2>2 DEF ReapRespawn, Reaping, Used, Respawnable, ReapRest
  <2>4. pid'[i] = p /\ \A t \in Slots : t # i => pid'[t] = pid[t]
    BY <2>1, <2>2 DEF Set, TableType
  <2>5. born'[p] = gen /\ \A q \in Pids : q # p => child'[q] = child[q] /\ born'[q] = born[q]
    BY <2>1 DEF Forked, Set, TableType
  <2>6. \A t \in Slots : t # i /\ Used(t)' => Used(t) /\ pid'[t] # p /\ pid'[t] \in Pids
    BY <2>1, <2>3, <2>4, SlotFacts DEF Used, FreshPid
  <2> QED
    BY <2>3, <2>4, <2>5, <2>6 DEF GenInv, Serving, Used
<1>7. CASE ReapRespawnFails
  <2>1. Calm
    BY <1>7 DEF ReapRespawnFails, Reaping, ReapRest, Calm
  <2> QED
    BY <1>7, <2>1, GenKept DEF ReapRespawnFails, Reaping, ReapRest
<1>8. CASE ReapFree
  <2>1. UNCHANGED <<exiting, detached, just, kind, child, born, gen, job>> /\ pc = "reap" /\ pc' = "reap"
    BY <1>8 DEF ReapFree, ReapRest, Reaping
  <2>2. \A t \in Slots : Used(t)' => Used(t) /\ pid'[t] = pid[t]
    BY <1>8, FreedFacts
  <2> QED
    BY <2>1, <2>2 DEF GenInv, Serving
<1>9. CASE ReapDone
  <2>1. Calm
    BY <1>9 DEF ReapDone, Calm
  <2> QED
    BY <1>9, <2>1, GenKept DEF ReapDone
<1>10. CASE MasterExit
  <2>1. Calm
    BY <1>10 DEF MasterExit, Calm
  <2> QED
    BY <1>10, <2>1, GenKept DEF MasterExit
<1>11. CASE TerminateWait
  <2>1. Calm
    BY <1>11 DEF TerminateWait, Deciding, LoopTop, Calm
  <2> QED
    BY <1>11, <2>1, GenKept DEF TerminateWait, Deciding, LoopTop
<1>12. CASE TerminateSignal
  <2>1. \E sig \in Sigs : SignalWorkers(sig)
    BY <1>12 DEF TerminateSignal, Sigs
  <2>2. pc = "check" /\ pc' # "start" /\ UNCHANGED gen
    BY <1>12 DEF TerminateSignal, Deciding, LoopTop
  <2> QED
    BY <2>1, <2>2, GenSignal
<1>13. CASE Quit
  <2>1. \E sig \in Sigs : SignalWorkers(sig)
    BY <1>13 DEF Quit, Sigs
  <2>2. pc = "check" /\ pc' # "start" /\ UNCHANGED gen
    BY <1>13 DEF Quit, Deciding, LoopTop
  <2> QED
    BY <2>1, <2>2, GenSignal
<1>14. CASE ReconfigureUpgrade
  <2>1. Calm
    BY <1>14 DEF ReconfigureUpgrade, Running, Deciding, Start, Calm
  <2> QED
    BY <1>14, <2>1, GenKept DEF ReconfigureUpgrade, Running, Deciding, Start
<1>15. CASE ReconfigureFails
  <2>1. Calm
    BY <1>15 DEF ReconfigureFails, Running, Deciding, LoopTop, Calm
  <2> QED
    BY <1>15, <2>1, GenKept DEF ReconfigureFails, Running, Deciding, LoopTop
<1>16. CASE Reconfigure
  <2>1. UNCHANGED <<pid, last, exiting, detached, just, kind, child, born>> /\ pc = "check"
    BY <1>16 DEF Reconfigure, Running, Deciding
  <2>2. pc' = "start" /\ job' = "reload"
    BY <1>16 DEF Reconfigure, Start
  <2> QED
    BY <2>1, <2>2 DEF GenInv, Used
<1>17. CASE Restart
  <2>1. Calm
    BY <1>17 DEF Restart, Running, Deciding, Start, Calm
  <2> QED
    BY <1>17, <2>1, GenKept DEF Restart, Running, Deciding, Start
<1>18. CASE Reopen
  <2>1. \E sig \in Sigs : SignalWorkers(sig)
    BY <1>18 DEF Reopen, Sigs
  <2>2. pc = "check" /\ pc' # "start" /\ UNCHANGED gen
    BY <1>18 DEF Reopen, Later, Running, Deciding
  <2> QED
    BY <2>1, <2>2, GenSignal
<1>19. CASE ChangeBinary
  <2>0. pc = "check" /\ pc' = "check" /\ UNCHANGED <<gen, job>>
    BY <1>19 DEF ChangeBinary, Later, Running, Deciding
  <2>1. CASE \E s \in 0 .. MaxSlots, p \in Pids :
                FreeSlot(s) /\ FreshPid(p) /\ NewSlot(s, p, "binary", "detached")
    <3>1. ~Just("detached")
      BY DEF Just
    <3> QED
      BY <2>0, <2>1, <3>1, GenNewSlot
  <2>2. CASE UNCHANGED <<table, child, born>>
    <3>1. Calm
      BY <2>2 DEF Calm
    <3> QED
      BY <2>0, <2>2, <3>1, GenKept
  <2> QED
    BY <1>19, <2>1, <2>2 DEF ChangeBinary
<1>20. CASE NoAccept
  <2>1. \E sig \in Sigs : SignalWorkers(sig)
    BY <1>20 DEF NoAccept, Sigs
  <2>2. pc = "check" /\ pc' # "start" /\ UNCHANGED gen
    BY <1>20 DEF NoAccept, Later, Running, Deciding
  <2> QED
    BY <2>1, <2>2, GenSignal
<1>21. CASE AllDone
  <2>1. Calm
    BY <1>21 DEF AllDone, Later, Running, Deciding, LoopTop, Calm
  <2> QED
    BY <1>21, <2>1, GenKept DEF AllDone, Later, Running, Deciding, LoopTop
<1>22. CASE Operator
  <2>1. Calm
    BY <1>22 DEF Operator, masterState, Calm
  <2> QED
    BY <1>22, <2>1, GenKept DEF Operator, masterState
<1>23. CASE Alarm
  <2>1. Calm
    BY <1>23 DEF Alarm, masterState, Calm
  <2> QED
    BY <1>23, <2>1, GenKept DEF Alarm, masterState
<1>24. ASSUME NEW p \in Pids, Leaves(p) PROVE GenInv'
  <2>1. Calm
    BY <1>24 DEF Leaves, Set, TableType, Calm
  <2> QED
    BY <1>24, <2>1, GenKept DEF Leaves, masterState
<1>25. ASSUME NEW p \in Pids, Dies(p) PROVE GenInv'
  <2>1. Calm
    BY <1>25, DeathsAssumption DEF Dies, Set, TableType, Calm
  <2> QED
    BY <1>25, <2>1, GenKept DEF Dies, masterState
<1> QED
  BY <1>1, <1>2, <1>3, <1>4, <1>5, <1>6, <1>7, <1>8, <1>9, <1>10, <1>11, <1>12, <1>13,
     <1>14, <1>15, <1>16, <1>17, <1>18, <1>19, <1>20, <1>21, <1>22, <1>23, <1>24, <1>25
     DEF Next, Master

\* While the master sleeps every worker that serves is of the newest configuration: a reload
\* leaves none of an older one behind, whatever dies or cannot be forked meanwhile.
THEOREM GenerationCurrent == Spec => []OneGeneration
<1>1. Init => GenInv
  BY NamesAssumption DEF Init, GenInv, Used, Serving
<1>2. TableType /\ MasterType /\ TableAgrees /\ GenInv /\ [Next]_vars => GenInv'
  BY GenNext
<1>3. Spec => [](TableType /\ MasterType)
  BY TypeCorrect, TypeParts, PTL
<1>4. GenInv => OneGeneration
  BY DEF GenInv, OneGeneration
<1> QED
  BY <1>1, <1>2, <1>3, <1>4, TableSafe, PTL DEF Spec

-----------------------------------------------------------------------------
(* Not more workers than the configuration asks for *)

\* The workers that have not been told to leave, and those of them that a reload started.
Engaged   == {s \in Slots : Used(s) /\ kind[s] = "worker" /\ ~exiting[s]}
Protected == {s \in Engaged : just[s]}

\* The workers that the start loop has passed.
Cap == IF idx < WorkerN THEN idx ELSE WorkerN

(***************************************************************************)
(* The inductive invariant, where nobody upgrades the binary and fork()    *)
(* does not fail: outside of the start loop the slots of workers that have *)
(* not been told to leave are at most worker_processes, in the start loop  *)
(* the new ones are at most those it has passed; and a slot is marked as   *)
(* exited only until ngx_reap_children comes to it.                        *)
(***************************************************************************)
CountInv ==
  /\ pc # "start" => Cardinality(Engaged) <= WorkerN
  /\ pc = "start" /\ job = "boot" => Cardinality(Engaged) <= Cap
  /\ pc = "start" /\ job = "reload" => Cardinality(Protected) <= Cap
  /\ pc = "start" => job \in {"boot", "reload"}
  /\ "restart" \notin flags
  /\ \A s \in Slots : Used(s) /\ exited[s] => pc = "reap" /\ idx <= s

\* These sets are finite.
LEMMA EngagedFinite ==
  /\ IsFiniteSet(Slots)
  /\ IsFiniteSet(Engaged) /\ Cardinality(Engaged) \in Nat
  /\ IsFiniteSet(Protected) /\ Cardinality(Protected) \in Nat
<1>1. IsFiniteSet(Slots)
  BY FS_Interval, SizesAssumption DEF Slots
<1>2. Engaged \in SUBSET Slots /\ Protected \in SUBSET Slots
  BY DEF Engaged, Protected
<1>3. \A T \in SUBSET Slots : IsFiniteSet(T)
  BY <1>1, FS_Subset
<1> QED
  BY <1>1, <1>2, <1>3, FS_CardinalityType

\* A part of a set of slots is not larger.
LEMMA NoMore ==
  \A A, B \in SUBSET Slots : A \subseteq B =>
    Cardinality(A) \in Nat /\ Cardinality(B) \in Nat /\ Cardinality(A) <= Cardinality(B)
<1> SUFFICES ASSUME NEW A \in SUBSET Slots, NEW B \in SUBSET Slots, A \subseteq B
             PROVE  Cardinality(A) \in Nat /\ Cardinality(B) \in Nat
                    /\ Cardinality(A) <= Cardinality(B)
  OBVIOUS
<1>1. IsFiniteSet(B) /\ A \in SUBSET B
  BY EngagedFinite, FS_Subset
<1> QED
  BY <1>1, FS_Subset, FS_CardinalityType

\* One slot more makes a set of slots larger by at most one.
LEMMA OneMore ==
  \A A, B \in SUBSET Slots, s \in Slots : A \subseteq B \cup {s} =>
    Cardinality(A) \in Nat /\ Cardinality(B) \in Nat /\ Cardinality(A) <= Cardinality(B) + 1
<1> SUFFICES ASSUME NEW A \in SUBSET Slots, NEW B \in SUBSET Slots, NEW s \in Slots,
                    A \subseteq B \cup {s}
             PROVE  Cardinality(A) \in Nat /\ Cardinality(B) \in Nat
                    /\ Cardinality(A) <= Cardinality(B) + 1
  OBVIOUS
<1>1. IsFiniteSet(B) /\ Cardinality(B) \in Nat
  BY EngagedFinite, FS_Subset, FS_CardinalityType
<1>2. Cardinality(B \cup {s}) <= Cardinality(B) + 1 /\ Cardinality(B \cup {s}) \in Nat
  <2>1. IsFiniteSet(B \cup {s})
    BY <1>1, FS_AddElement
  <2>2. Cardinality(B \cup {s}) = IF s \in B THEN Cardinality(B) ELSE Cardinality(B) + 1
    BY <1>1, FS_AddElement
  <2> QED
    BY <1>1, <2>1, <2>2, FS_CardinalityType
<1>3. Cardinality(A) \in Nat /\ Cardinality(A) <= Cardinality(B \cup {s})
  BY NoMore
<1> QED
  BY <1>1, <1>2, <1>3

\* After the workers the start loop starts the cache processes.
LEMMA NotWorker ==
  ASSUME NEW i \in Nat, i < StartN, ~(i < WorkerN)
  PROVE  StartKind(i) # "worker"
<1>1. WorkerN \in Nat
  BY SizesAssumption
<1>2. CASE Helpers = <<>>
  BY <1>1, <1>2 DEF StartN
<1>3. CASE Helpers = <<"manager">>
  BY <1>1, <1>3 DEF StartN, StartKind
<1>4. CASE Helpers = <<"manager", "loader">>
  BY <1>1, <1>4 DEF StartN, StartKind
<1> QED
  BY <1>2, <1>3, <1>4, HelpersAssumption

\* The slots behind the one that ngx_reap_children has handled.
LEMMA Passed ==
  ASSUME MasterType, NEW s \in Slots, idx <= s, s # idx
  PROVE  idx + 1 <= s
BY DEF MasterType, Slots

\* Without an upgrade no process is the new binary.
LEMMA NoUpgradePid == ASSUME NoUpgrade, NEW s, pid[s] # None PROVE pid[s] # newBinary
BY DEF NoUpgrade

\* A step that leaves the table alone.
LEMMA CountKept ==
  ASSUME CountInv, UNCHANGED <<pid, last, kind, exiting, just, exited>>,
         \/ pc \in {"suspend", "check"} /\ pc' # "start" /\ "restart" \notin flags'
         \/ UNCHANGED <<flags, pc, idx, job>>
  PROVE  CountInv'
<1>1. Engaged' = Engaged /\ Protected' = Protected /\ \A s \in Slots : Used(s)' <=> Used(s)
  BY DEF Engaged, Protected, Used
<1> QED
  BY <1>1 DEF CountInv, Cap

\* The signal loop finds every process that it looks for.
LEMMA NoneMissing ==
  ASSUME TableType, TableAgrees, CountInv, pc # "reap", NEW sig \in Sigs, SignalWorkers(sig)
  PROVE  /\ UNCHANGED <<pid, last, kind>>
         /\ \A s \in Slots : Used(s) => ~exited'[s]
         /\ \A s \in Slots : Used(s) /\ ~exiting'[s] =>
               ~exiting[s] /\ (Addressed(s, sig) => sig = "REOPEN")
<1>1. \A s \in Slots : ~(Addressed(s, sig) /\ Missing(s))
  BY DEF Addressed, Missing, TableAgrees, CountInv
<1>2. UNCHANGED <<pid, last, kind>>
  BY DEF SignalWorkers
<1>3. \A s \in Slots : Used(s) => ~exited'[s]
  BY <1>1 DEF SignalWorkers, CountInv
<1>4. \A s \in Slots : Used(s) /\ ~exiting'[s] =>
               ~exiting[s] /\ (Addressed(s, sig) => sig = "REOPEN")
  BY <1>1 DEF SignalWorkers
<1> QED
  BY <1>2, <1>3, <1>4

\* A command to all workers outside of a reload.
LEMMA CountSignal ==
  ASSUME TableType, TableAgrees, CountInv, \E sig \in Sigs : SignalWorkers(sig),
         pc = "check", pc' # "start", "restart" \notin flags'
  PROVE  CountInv'
<1>1. PICK sig \in Sigs : SignalWorkers(sig)
  OBVIOUS
<1>2. /\ UNCHANGED <<pid, last, kind>>
      /\ \A s \in Slots : Used(s) => ~exited'[s]
      /\ \A s \in Slots : Used(s) /\ ~exiting'[s] => ~exiting[s]
  BY <1>1, NoneMissing
<1>3. \A s \in Slots : Used(s)' <=> Used(s)
  BY <1>2 DEF Used
<1>4. Engaged' \subseteq Engaged /\ Engaged \subseteq Slots
  BY <1>2, <1>3 DEF Engaged
<1> QED
  BY <1>2, <1>3, <1>4, NoMore, SizesAssumption DEF CountInv

\* QUIT at the end of a reload: only the new workers are left.
LEMMA CountQuit ==
  ASSUME TableType, TableAgrees, GenInv, CountInv, SignalWorkers("QUIT"), pc = "start"
  PROVE  Engaged' \subseteq Protected /\ \A s \in Slots : Used(s)' => ~exited'[s]
<1>0. "QUIT" \in Sigs
  BY DEF Sigs
<1>1. /\ UNCHANGED <<pid, last, kind>>
      /\ \A s \in Slots : Used(s) => ~exited'[s]
      /\ \A s \in Slots : Used(s) /\ ~exiting'[s] => ~exiting[s] /\ ~Addressed(s, "QUIT")
  BY <1>0, NoneMissing
<1>2. \A s \in Slots : Used(s)' <=> Used(s)
  BY <1>1 DEF Used
<1>3. ASSUME NEW s \in Engaged' PROVE s \in Protected
  <2>1. s \in Slots /\ Used(s) /\ kind[s] = "worker" /\ ~exiting'[s]
    BY <1>1, <1>2, <1>3 DEF Engaged
  <2>2. ~exiting[s] /\ ~Addressed(s, "QUIT") /\ ~detached[s]
    BY <1>1, <2>1 DEF GenInv
  <2>3. just[s]
    BY <2>1, <2>2 DEF Addressed
  <2> QED
    BY <2>1, <2>2, <2>3 DEF Engaged, Protected
<1> QED
  BY <1>1, <1>2, <1>3

\* Every step keeps CountInv, where nobody upgrades and fork() does not fail.
LEMMA CountNext ==
  TableType /\ MasterType /\ TableAgrees /\ NoUpgrade /\ GenInv /\ CountInv
    /\ MaxForkFails = 0 /\ [Next]_vars => CountInv'
<1> SUFFICES ASSUME TableType, MasterType, TableAgrees, NoUpgrade, GenInv, CountInv,
                    MaxForkFails = 0, [Next]_vars
             PROVE  CountInv'
  OBVIOUS
<1>0. /\ Engaged \in SUBSET Slots /\ Protected \in SUBSET Slots
      /\ Engaged' \in SUBSET Slots /\ Protected' \in SUBSET Slots
  BY DEF Engaged, Protected
<1> USE <1>0 DEF table, upg, term, local, kernel, env
<1>1. CASE UNCHANGED vars
  BY <1>1, CountKept DEF vars
<1>2. CASE Wake
  <2>1. Engaged' = Engaged
    BY <1>2 DEF Wake, Engaged, Used
  <2>2. pc = "suspend" /\ pc' \in {"reap", "check"} /\ idx' = 0
    BY <1>2 DEF Wake
  <2>3. \A g \in pending : Heard(g) => FlagOf(g) # "restart"
    BY SignalsAssumption DEF MasterType, FlagOf, Heard
  <2>4. "restart" \notin flags'
    BY <1>2, <2>3 DEF Wake, CountInv
  <2>5. ASSUME NEW s \in Slots, Used(s)', exited'[s] PROVE pc' = "reap" /\ idx' <= s
    <3>1. Used(s) /\ ~exited[s]
      BY <1>2, <2>2, <2>5 DEF Wake, Used, CountInv
    <3>2. Zombies # {}
      BY <1>2, <2>5, <3>1 DEF Wake, TableType
    <3> QED
      BY <1>2, <2>2, <3>2, SlotFacts DEF Wake, Slots
  <2> QED
    BY <2>1, <2>2, <2>4, <2>5 DEF CountInv
<1>3. CASE StartOne
  <2>0. UNCHANGED <<flags, pc, job>> /\ pc = "start" /\ idx' = idx + 1 /\ job \in {"boot", "reload"}
    BY <1>3 DEF StartOne, CountInv
  <2>1. CASE \E s \in 0 .. MaxSlots, p \in Pids :
                FreeSlot(s) /\ FreshPid(p) /\ NewSlot(s, p, StartKind(idx), StartType(idx))
    <3>1. PICK s \in 0 .. MaxSlots, p \in Pids :
                FreeSlot(s) /\ NewSlot(s, p, StartKind(idx), StartType(idx))
      BY <2>1
    <3>2. s \in Slots /\ ~Used(s)
      BY <3>1, NewSlotFacts
    <3>3. \A t \in Slots : t # s => Used(t)' <=> Used(t)
      BY <3>1, NewSlotFacts
    <3>4. kind'[s] = StartKind(idx) /\ ~exited'[s]
      BY <3>1, <3>2 DEF NewSlot, Set, TableType
    <3>5. \A t \in Slots : t # s => /\ kind'[t] = kind[t]
                                    /\ exiting'[t] <=> exiting[t]
                                    /\ just'[t] <=> just[t]
                                    /\ exited'[t] <=> exited[t]
      BY <3>1, <3>2 DEF NewSlot, Set, TableType
    <3>6. \A t \in Slots : Used(t)' => ~exited'[t]
      BY <2>0, <3>3, <3>4, <3>5 DEF CountInv
    <3>7. CASE idx < WorkerN
      <4>1. Engaged' \subseteq Engaged \cup {s} /\ Protected' \subseteq Protected \cup {s}
        BY <3>3, <3>5 DEF Engaged, Protected
      <4> QED
        BY <2>0, <3>2, <3>6, <3>7, <4>1, OneMore, SizesAssumption DEF CountInv, Cap, MasterType
    <3>8. CASE ~(idx < WorkerN)
      <4>1. kind'[s] # "worker"
        BY <1>3, <3>4, <3>8, NotWorker DEF StartOne, MasterType
      <4>2. Engaged' \subseteq Engaged /\ Protected' \subseteq Protected
        BY <3>3, <3>5, <4>1 DEF Engaged, Protected
      <4> QED
        BY <2>0, <3>6, <3>8, <4>2, NoMore, SizesAssumption DEF CountInv, Cap, MasterType
    <3> QED
      BY <3>7, <3>8
  <2>2. CASE UNCHANGED <<table, child, born>>
    <3>1. Engaged' = Engaged /\ Protected' = Protected
      BY <2>2 DEF Engaged, Protected, Used
    <3>2. \A s \in Slots : Used(s)' => ~exited'[s]
      BY <2>0, <2>2 DEF CountInv, Used
    <3> QED
      BY <2>0, <3>1, <3>2, NoMore, SizesAssumption DEF CountInv, Cap, MasterType
  <2> QED
    BY <1>3, <2>1, <2>2 DEF StartOne
<1>4. CASE StartDone
  <2>0. pc = "start" /\ pc' # "start" /\ job \in {"boot", "reload"}
    BY <1>4 DEF StartDone, LoopTop, CountInv
  <2>1. CASE job = "reload"
    <3>1. SignalWorkers("QUIT") /\ "restart" \notin flags'
      BY <1>4, <2>1 DEF StartDone, SignalFlags, CountInv
    <3>2. Engaged' \subseteq Protected /\ \A s \in Slots : Used(s)' => ~exited'[s]
      BY <2>0, <3>1, CountQuit
    <3>3. Cardinality(Engaged') <= Cardinality(Protected)
      BY <3>2, NoMore
    <3> QED
      BY <2>0, <2>1, <3>1, <3>2, <3>3, NoMore, SizesAssumption DEF CountInv, Cap, MasterType
  <2>2. CASE job = "boot"
    <3>1. UNCHANGED table /\ "restart" \notin flags'
      BY <1>4, <2>2 DEF StartDone, AfterTop, CountInv
    <3>2. Engaged' = Engaged /\ \A s \in Slots : Used(s)' => ~exited'[s]
      BY <2>0, <3>1 DEF Engaged, Used, CountInv
    <3> QED
      BY <2>0, <2>2, <3>1, <3>2, NoMore, SizesAssumption DEF CountInv, Cap, MasterType
  <2> QED
    BY <2>0, <2>1, <2>2
<1>5. CASE ReapKeep
  <2>1. PICK i \in Slots : i = idx
    BY <1>5, SlotFacts DEF ReapKeep, Reaping, MasterType
  <2>2. Engaged' = Engaged /\ UNCHANGED <<pid, last, exited, flags, pc>> /\ pc = "reap" /\ idx' = idx + 1
    BY <1>5 DEF ReapKeep, ReapRest, Reaping, Engaged, Used
  <2>3. Used(i) => ~exited[i]
    BY <1>5, <2>1 DEF ReapKeep, Used
  <2>4. \A s \in Slots : Used(s) /\ exited[s] => idx + 1 <= s
    BY <2>1, <2>2, <2>3, Passed DEF CountInv
  <2> QED
    BY <2>2, <2>4 DEF CountInv, Used
<1>6. CASE ReapRespawn
  <2>1. PICK i \in Slots : i = idx
    BY <1>6, SlotFacts DEF ReapRespawn, Reaping, MasterType
  <2>2. PICK p \in Pids : pid' = Set(pid, idx, p)
    BY <1>6 DEF ReapRespawn
  <2>3. /\ UNCHANGED <<last, kind, exiting, flags, pc>> /\ pc = "reap" /\ idx' = idx + 1
        /\ exited' = Set(exited, idx, FALSE) /\ Used(i)
    BY <1>6, <2>1 DEF ReapRespawn, ReapRest, Reaping, Used
  <2>4. \A s \in Slots : Used(s)' <=> Used(s)
    BY <2>1, <2>2, <2>3, NamesAssumption DEF Set, TableType, Used
  <2>5. Engaged' = Engaged
    BY <2>3, <2>4 DEF Engaged
  <2>6. ~exited'[i] /\ \A s \in Slots : exited'[s] => exited[s]
    BY <2>1, <2>3 DEF Set, TableType
  <2>7. \A s \in Slots : Used(s)' /\ exited'[s] => idx + 1 <= s
    BY <2>1, <2>3, <2>4, <2>6, Passed DEF CountInv
  <2> QED
    BY <2>3, <2>5, <2>7 DEF CountInv
<1>7. CASE ReapRespawnFails
  BY <1>7, SizesAssumption DEF ReapRespawnFails, MasterType
<1>8. CASE ReapFree
  <2>1. PICK i \in Slots : i = idx
    BY <1>8, SlotFacts DEF ReapFree, Reaping, MasterType
  <2>2. UNCHANGED <<kind, exiting, exited, pc>> /\ pc = "reap" /\ idx' = idx + 1
    BY <1>8 DEF ReapFree, ReapRest, Reaping
  <2>3. \A t \in Slots : Used(t)' => t # idx /\ Used(t)
    BY <1>8, FreedFacts
  <2>4. "restart" \notin flags'
    BY <1>8, NoUpgradePid DEF ReapFree, CountInv
  <2>5. Engaged' \subseteq Engaged
    BY <2>2, <2>3 DEF Engaged
  <2>6. \A s \in Slots : Used(s)' /\ exited'[s] => idx + 1 <= s
    BY <2>1, <2>2, <2>3, Passed DEF CountInv
  <2> QED
    BY <2>2, <2>4, <2>5, <2>6, NoMore, SizesAssumption DEF CountInv
<1>9. CASE ReapDone
  <2>1. Engaged' = Engaged /\ UNCHANGED <<table, flags, idx>> /\ pc = "reap" /\ pc' = "check" /\ idx >= last
    BY <1>9 DEF ReapDone, Engaged, Used
  <2>2. \A s \in Slots : Used(s) => ~exited[s]
    BY <2>1, SlotFacts DEF CountInv, Used, MasterType
  <2> QED
    BY <2>1, <2>2 DEF CountInv, Used
<1>10. CASE MasterExit
  <2>1. "restart" \notin flags'
    BY <1>10 DEF MasterExit, AfterTop, CountInv
  <2> QED
    BY <1>10, <2>1, CountKept DEF MasterExit
<1>11. CASE TerminateWait
  <2>1. "restart" \notin flags'
    BY <1>11 DEF TerminateWait, Deciding, LoopTop, AfterTop, CountInv
  <2> QED
    BY <1>11, <2>1, CountKept DEF TerminateWait, Deciding, LoopTop
<1>12. CASE TerminateSignal
  <2>1. \E sig \in Sigs : SignalWorkers(sig)
    BY <1>12 DEF TerminateSignal, Sigs
  <2>2. pc = "check" /\ pc' # "start"
    BY <1>12 DEF TerminateSignal, Deciding, LoopTop
  <2>3. "restart" \notin flags'
    BY <1>12 DEF TerminateSignal, SignalFlags, AfterTop, CountInv
  <2> QED
    BY <2>1, <2>2, <2>3, CountSignal
<1>13. CASE Quit
  <2>1. \E sig \in Sigs : SignalWorkers(sig)
    BY <1>13 DEF Quit, Sigs
  <2>2. pc = "check" /\ pc' # "start"
    BY <1>13 DEF Quit, Deciding, LoopTop
  <2>3. "restart" \notin flags'
    BY <1>13 DEF Quit, SignalFlags, AfterTop, CountInv
  <2> QED
    BY <2>1, <2>2, <2>3, CountSignal
<1>14. CASE ReconfigureUpgrade
  BY <1>14 DEF ReconfigureUpgrade, NoUpgrade
<1>15. CASE ReconfigureFails
  <2>1. "restart" \notin flags'
    BY <1>15 DEF ReconfigureFails, Running, Deciding, LoopTop, AfterTop, CountInv
  <2> QED
    BY <1>15, <2>1, CountKept DEF ReconfigureFails, Running, Deciding, LoopTop
<1>16. CASE Reconfigure
  <2>1. UNCHANGED table /\ pc = "check" /\ pc' = "start" /\ job' = "reload" /\ idx' = 0
    BY <1>16 DEF Reconfigure, Start, Running, Deciding
  <2>2. Protected' = {}
    BY <2>1 DEF Protected, Engaged, Used, GenInv
  <2>3. Cardinality(Protected') <= Cap'
    BY <2>1, <2>2, FS_EmptySet, SizesAssumption DEF Cap
  <2>4. "restart" \notin flags'
    BY <1>16 DEF Reconfigure, CountInv
  <2>5. \A s \in Slots : Used(s)' => ~exited'[s]
    BY <2>1 DEF CountInv, Used
  <2> QED
    BY <2>1, <2>3, <2>4, <2>5 DEF CountInv
<1>17. CASE Restart
  BY <1>17 DEF Restart, CountInv
<1>18. CASE Reopen
  <2>1. \E sig \in Sigs : SignalWorkers(sig)
    BY <1>18 DEF Reopen, Sigs
  <2>2. pc = "check" /\ pc' # "start"
    BY <1>18 DEF Reopen, Later, Running, Deciding
  <2>3. "restart" \notin flags'
    BY <1>18 DEF Reopen, SignalFlags, AfterTop, CountInv
  <2> QED
    BY <2>1, <2>2, <2>3, CountSignal
<1>19. CASE ChangeBinary
  BY <1>19 DEF ChangeBinary, NoUpgrade
<1>20. CASE NoAccept
  <2>1. \E sig \in Sigs : SignalWorkers(sig)
    BY <1>20 DEF NoAccept, Sigs
  <2>2. pc = "check" /\ pc' # "start"
    BY <1>20 DEF NoAccept, Later, Running, Deciding
  <2>3. "restart" \notin flags'
    BY <1>20 DEF NoAccept, SignalFlags, AfterTop, CountInv
  <2> QED
    BY <2>1, <2>2, <2>3, CountSignal
<1>21. CASE AllDone
  <2>1. "restart" \notin flags'
    BY <1>21 DEF AllDone, Later, Running, Deciding, LoopTop, AfterTop, CountInv
  <2> QED
    BY <1>21, <2>1, CountKept DEF AllDone, Later, Running, Deciding, LoopTop
<1>22. CASE Operator
  <2>1. "restart" \notin flags'
    BY <1>22 DEF Operator, masterState, AfterTop, CountInv
  <2> QED
    BY <1>22, <2>1, CountKept DEF Operator, masterState
<1>23. CASE Alarm
  <2>1. "restart" \notin flags'
    BY <1>23 DEF Alarm, masterState, AfterTop, CountInv
  <2> QED
    BY <1>23, <2>1, CountKept DEF Alarm, masterState
<1>24. ASSUME NEW p \in Pids, Leaves(p) PROVE CountInv'
  BY <1>24, CountKept DEF Leaves, masterState
<1>25. ASSUME NEW p \in Pids, Dies(p) PROVE CountInv'
  BY <1>25, CountKept DEF Dies, masterState
<1> QED
  BY <1>1, <1>2, <1>3, <1>4, <1>5, <1>6, <1>7, <1>8, <1>9, <1>10, <1>11, <1>12, <1>13,
     <1>14, <1>15, <1>16, <1>17, <1>18, <1>19, <1>20, <1>21, <1>22, <1>23, <1>24, <1>25
     DEF Next, Master

\* Where nobody upgrades the binary and no fork() fails, the workers that serve while the master
\* sleeps are of its newest configuration and not more than worker_processes.  Both
\* hypotheses are needed: HUP during an upgrade starts workers beside the running ones,
\* and a worker whose respawn failed is started again after the reload replaced it.
THEOREM ReloadExact ==
  ASSUME "USR2" \notin Signals, MaxForkFails = 0
  PROVE  Spec => []WorkersCurrent
<1>1. Init => NoUpgrade /\ GenInv /\ CountInv
  <2> SUFFICES ASSUME Init PROVE NoUpgrade /\ GenInv /\ CountInv
    OBVIOUS
  <2>1. \A s \in Slots : ~Used(s)
    BY DEF Init, Used
  <2>2. Engaged = {} /\ idx = 0 /\ pc = "start" /\ job = "boot" /\ flags = {}
    BY <2>1 DEF Init, Engaged
  <2>3. Cardinality(Engaged) <= Cap
    BY <2>2, FS_EmptySet, SizesAssumption DEF Cap
  <2> QED
    BY <2>1, <2>2, <2>3 DEF Init, NoUpgrade, GenInv, CountInv, Serving
<1>2. MasterType /\ NoUpgrade /\ [Next]_vars => NoUpgrade'
  BY NoUpgradeNext
<1>3. TableType /\ MasterType /\ TableAgrees /\ GenInv /\ [Next]_vars => GenInv'
  BY GenNext
<1>4. TableType /\ MasterType /\ TableAgrees /\ NoUpgrade /\ GenInv /\ CountInv /\ [Next]_vars => CountInv'
  BY CountNext
<1>5. Spec => [](TableType /\ MasterType)
  BY TypeCorrect, TypeParts, PTL
<1>6. TableType /\ GenInv /\ CountInv => WorkersCurrent
  <2> SUFFICES ASSUME TableType, GenInv, CountInv, pc = "suspend" PROVE WorkersCurrent
    BY DEF WorkersCurrent, OneGeneration, NotTooManyWorkers
  <2>1. OneGeneration
    BY DEF GenInv, OneGeneration
  <2>2. {s \in Slots : Serving(s)} \subseteq Engaged /\ Engaged \in SUBSET Slots
    BY DEF Engaged, Serving, GenInv
  <2>3. Cardinality({s \in Slots : Serving(s)}) <= Cardinality(Engaged)
    BY <2>2, NoMore
  <2> DEFINE c == Cardinality({s \in Slots : Serving(s)})
  <2>4. c \in Nat /\ Cardinality(Engaged) \in Nat /\ c <= Cardinality(Engaged)
    BY <2>2, NoMore
  <2>5. Cardinality(Engaged) <= WorkerN /\ WorkerN \in Nat
    BY SizesAssumption DEF CountInv
  <2>6. c <= WorkerN
    <3> HIDE DEF c
    <3> QED BY <2>4, <2>5
  <2> QED
    BY <2>1, <2>6 DEF WorkersCurrent, NotTooManyWorkers
<1> QED
  BY <1>1, <1>2, <1>3, <1>4, <1>5, <1>6, TableSafe, PTL DEF Spec

=============================================================================
