---------------------------- MODULE MasterCycle ----------------------------
(***************************************************************************)
(* The master process: ngx_master_process_cycle() with the process table   *)
(* (ngx_processes, ngx_last_process), the signal handler, the forking,     *)
(* signalling and reaping of workers, cache manager and cache loader, the  *)
(* reload (HUP), the upgrade of the binary (USR2, WINCH) and its roll      *)
(* back, and the two ways to stop (QUIT, TERM) with the escalation to      *)
(* SIGKILL.                                                                *)
(*                                                                         *)
(* The signals are blocked except inside sigsuspend(), so that the master  *)
(* between two suspends is sequential code beside which only children run. *)
(* The reap and the start loop take one step per slot or process, since    *)
(* fork() can fail in each.  The signal loop is one step: what it does to  *)
(* a slot does not depend on the other slots, and a child that dies while  *)
(* it runs might as well have died before or after it.                     *)
(*                                                                         *)
(* A command to a child (over its channel, or by kill() when the write     *)
(* fails) is what the child has been told; the master keeps both ends of   *)
(* a channel open, so that writing to a dead child succeeds.  The kernel   *)
(* is assumed not to reuse the pid of a slot that still names it.          *)
(***************************************************************************)
EXTENDS Integers, Sequences, FiniteSets

CONSTANTS
  Pids,          \* process ids
  None,          \* not a pid: pid -1 in a slot, ngx_new_binary = 0
  Invalid,       \* NGX_INVALID_PID as the result of ngx_exec_new_binary()
  MaxSlots,      \* NGX_MAX_PROCESSES
  WorkerN,       \* worker_processes
  Helpers,       \* <<>>, <<"manager">> or <<"manager", "loader">>: by the cache paths
  Signals,       \* the signals that the operator may send
  Deaths,        \* how a child may die untold: "dead", or "fatal" with exit code 2
  BadConfig,     \* whether a reload may meet a configuration that does not load
  MaxSignals,    \* bound: signals sent to the master in one behaviour
  MaxCrashes,    \* bound: children that die untold
  MaxForkFails   \* bound: failing fork() or socketpair() calls

ASSUME NamesAssumption == None \notin Pids /\ Invalid \notin Pids /\ None # Invalid
ASSUME SizesAssumption ==
  /\ MaxSlots \in Nat \ {0} /\ WorkerN \in Nat \ {0}
  /\ BadConfig \in BOOLEAN
  /\ MaxSignals \in Nat /\ MaxCrashes \in Nat /\ MaxForkFails \in Nat
ASSUME HelpersAssumption == Helpers \in {<<>>, <<"manager">>, <<"manager", "loader">>}
ASSUME DeathsAssumption == Deaths \subseteq {"dead", "fatal"}
ASSUME SignalsAssumption ==
  Signals \subseteq {"TERM", "QUIT", "HUP", "USR1", "USR2", "WINCH", "IO"}

VARIABLES
  \* ngx_processes, one function per field, and ngx_last_process
  pid, exited, exiting, detached, respawn,
  just,        \* just_spawn
  chan,        \* the channel is open (FALSE: -1, or numbers of closed descriptors)
  kind,        \* proc and data: what runs in the slot
  last,
  \* the master
  flags,       \* the ngx_<flag> variables that are set
  noaccepting, newBinary, live, delay, sigio,
  listening,   \* the listening sockets are open
  gen,         \* history: number of successful reloads
  pc,
  idx,         \* loop variable of the reap and the start loop
  job,         \* who called ngx_start_worker_processes
  lv,          \* live of ngx_reap_children
  \* the kernel and the children
  pending,     \* signals not delivered yet (SIGCHLD is pending iff there are zombies)
  armed,       \* the interval timer is running
  child,       \* state of each process
  born,        \* history: the value of gen at its fork()
  sent, crashes, forkFails

table  == <<pid, exited, exiting, detached, respawn, just, chan, kind, last>>
upg    == <<noaccepting, newBinary, gen>>
term   == <<delay, sigio, listening>>
local  == <<idx, job, lv>>
kernel == <<pending, armed, child, born>>
env    == <<sent, crashes, forkFails>>
vars   == <<table, flags, upg, live, term, pc, local, kernel, env>>

Slots == 0 .. (MaxSlots - 1)
Kinds == {"worker", "manager", "loader", "binary"}
Flags == {"reap", "terminate", "quit", "reconfigure", "restart", "reopen",
          "change_binary", "noaccept", "sigalrm"}
Jobs  == {"boot", "upgrade", "reload", "restart"}
Alive == {"run", "quit", "term"}
Gone  == {"dead", "fatal"}     \* a zombie; "fatal": it exited with code 2

Stopping  == "terminate" \in flags \/ "quit" \in flags
Zombies   == {p \in Pids : child[p] \in Gone}
Used(s)   == s < last /\ pid[s] # None
Set(f, s, x) == [f EXCEPT ![s] = x]

-----------------------------------------------------------------------------
Init ==
  /\ pid = [s \in Slots |-> None]
  /\ exited = [s \in Slots |-> FALSE] /\ exiting = [s \in Slots |-> FALSE]
  /\ detached = [s \in Slots |-> FALSE] /\ respawn = [s \in Slots |-> FALSE]
  /\ just = [s \in Slots |-> FALSE] /\ chan = [s \in Slots |-> FALSE]
  /\ kind = [s \in Slots |-> "worker"] /\ last = 0
  /\ flags = {} /\ noaccepting = FALSE /\ newBinary = None /\ live = TRUE
  /\ delay = 0 /\ sigio = 0 /\ listening = TRUE /\ gen = 0
  /\ pc = "start" /\ idx = 0 /\ job = "boot" /\ lv = FALSE
  /\ pending = {} /\ armed = FALSE
  /\ child = [p \in Pids |-> "none"] /\ born = [p \in Pids |-> 0]
  /\ sent = 0 /\ crashes = 0 /\ forkFails = 0

-----------------------------------------------------------------------------
(***************************************************************************)
(* Loop top and sigsuspend().                                              *)
(***************************************************************************)

\* mutant: the timer never escalates
DoubledStays(d) == d

\* delay *= 2; past the SIGKILL threshold the value no longer matters
Doubled(d) == IF d > 1000 THEN d ELSE 2 * d

\* from the top of the loop into sigsuspend(); the caller says which delay and sigio
LoopTop(d, n) ==
  /\ pc' = "suspend"
  /\ armed' = (d > 0 \/ armed)                \* setitimer()
  /\ IF d > 0 /\ "sigalrm" \in flags
     THEN sigio' = 0 /\ delay' = Doubled(d)
     ELSE sigio' = n /\ delay' = d

AfterTop(d) == IF d > 0 THEN flags \ {"sigalrm"} ELSE flags

\* the slot in which ngx_process_get_status finds the pid
Names(s, p) == s < last /\ pid[s] = p /\ \A r \in 0 .. (s - 1) : pid[r] # p

\* what the signal handler sets for the pending signals
FlagOf(g) ==
  CASE g = "TERM" -> "terminate"   [] g = "QUIT"  -> "quit"
    [] g = "HUP"  -> "reconfigure" [] g = "USR1"  -> "reopen"
    [] g = "USR2" -> "change_binary" [] g = "WINCH" -> "noaccept"
    [] g = "ALRM" -> "sigalrm"

\* mutant: a second upgrade is started while one is running
HeardAlways(g) == g # "IO"

\* SIGIO only wakes the master up; USR2 is ignored while a new binary runs.  The master
\* is daemonised: it obeys WINCH, and its parent is the init process.
Heard(g) == g # "IO" /\ ~(g = "USR2" /\ newBinary \in Pids)

\* sigsuspend() returns: the handlers ran, all zombies are waited for
Wake ==
  /\ pc = "suspend"
  /\ pending # {} \/ Zombies # {}
  /\ exited' = [s \in Slots |-> exited[s] \/ \E p \in Zombies : Names(s, p)]
  /\ respawn' = [s \in Slots |-> respawn[s]
                   /\ ~\E p \in Zombies : Names(s, p) /\ child[p] = "fatal"]
  /\ child' = [p \in Pids |-> IF p \in Zombies THEN "none" ELSE child[p]]
  /\ pending' = {}
  /\ flags' = (flags \cup {FlagOf(g) : g \in {h \in pending : Heard(h)}}) \ {"reap"}
  /\ idx' = 0 /\ lv' = FALSE
  /\ pc' = IF "reap" \in flags \/ Zombies # {} THEN "reap" ELSE "check"
  /\ UNCHANGED <<pid, exiting, detached, just, chan, kind, last,
                 upg, live, term, job, armed, born, env>>

-----------------------------------------------------------------------------
(***************************************************************************)
(* ngx_spawn_process.                                                      *)
(***************************************************************************)

\* the search of a free slot ends at s
Found(s) == s <= last /\ (s < last => pid[s] = None) /\ \A r \in 0 .. (s - 1) : pid[r] # None

FreeSlot(s) == Found(s) /\ s # MaxSlots

\* a pid that fork() can return
FreshPid(p) == child[p] = "none" /\ \A s \in Slots : Used(s) => pid[s] # p

\* mutant: the fresh processes are not protected from the signal that follows
JustNever(type) == FALSE

Just(type) == type \in {"just_respawn", "just_spawn"}

\* fork() returns p for slot s: a process of kind k
Forked(p) ==
  /\ child' = Set(child, p, "run") /\ born' = Set(born, p, gen)

NewSlot(s, p, k, type) ==
  /\ pid' = Set(pid, s, p) /\ exited' = Set(exited, s, FALSE)
  /\ exiting' = Set(exiting, s, FALSE)
  /\ detached' = Set(detached, s, type = "detached")
  /\ respawn' = Set(respawn, s, type \in {"respawn", "just_respawn"})
  /\ just' = Set(just, s, Just(type))
  /\ chan' = Set(chan, s, type # "detached")
  /\ kind' = Set(kind, s, k)
  /\ last' = IF s = last THEN last + 1 ELSE last
  /\ Forked(p)

\* the table is full, or socketpair() or fork() fails (for a new binary: or rename())
SpawnFails ==
  \/ (~\E s \in 0 .. MaxSlots : FreeSlot(s)) /\ UNCHANGED forkFails
  \/ forkFails < MaxForkFails /\ forkFails' = forkFails + 1

-----------------------------------------------------------------------------
(***************************************************************************)
(* ngx_start_worker_processes and ngx_start_cache_manager_processes.  A    *)
(* process that cannot be forked is skipped.                               *)
(***************************************************************************)
StartN == WorkerN + Len(Helpers)
StartKind(i) == IF i < WorkerN THEN "worker" ELSE Helpers[i - WorkerN + 1]
StartType(i) ==
  IF StartKind(i) = "loader"
  THEN IF job = "reload" THEN "just_spawn" ELSE "norespawn"
  ELSE IF job = "reload" THEN "just_respawn" ELSE "respawn"

StartOne ==
  /\ pc = "start" /\ idx < StartN
  /\ \/ /\ \E s \in 0 .. MaxSlots, p \in Pids :
             FreeSlot(s) /\ FreshPid(p) /\ NewSlot(s, p, StartKind(idx), StartType(idx))
        /\ UNCHANGED forkFails
     \/ SpawnFails /\ UNCHANGED <<table, child, born>>
  /\ idx' = idx + 1
  /\ UNCHANGED <<flags, upg, live, term, pc, job, lv, pending, armed, sent, crashes>>

-----------------------------------------------------------------------------
(***************************************************************************)
(* ngx_signal_worker_processes.                                            *)
(***************************************************************************)

\* mutant: just_spawn is left set
JustClearedNever(s) == just[s]

\* just_spawn after the loop has passed the slot
JustCleared(s) == just[s] /\ ~(Used(s) /\ ~detached[s])

\* the slots that are sent the signal
Addressed(s, sig) ==
  Used(s) /\ ~detached[s] /\ ~just[s] /\ ~(exiting[s] /\ sig = "QUIT")

\* neither the channel nor kill() reaches anybody: ESRCH
Missing(s) == ~chan[s] /\ child[pid[s]] = "none"

\* what a process makes of it; KILL is immediate, a zombie does not care
Told(c, sig) ==
  IF c \notin Alive THEN c
  ELSE CASE sig = "QUIT"   -> IF c = "run" THEN "quit" ELSE c
         [] sig = "TERM"   -> "term"
         [] sig = "KILL"   -> "dead"
         [] sig = "REOPEN" -> c

SignalWorkers(sig) ==
  LET hit  == {s \in Slots : Addressed(s, sig)}
      lost == {s \in hit : Missing(s)}
  IN /\ just' = [s \in Slots |-> JustCleared(s)]
     /\ exiting' = [s \in Slots |-> IF s \in lost THEN FALSE
                                    ELSE exiting[s] \/ (s \in hit /\ sig # "REOPEN")]
     /\ exited' = [s \in Slots |-> exited[s] \/ s \in lost]
     /\ child' = [p \in Pids |-> IF \E s \in hit : pid[s] = p THEN Told(child[p], sig)
                                 ELSE child[p]]
     /\ UNCHANGED <<pid, detached, respawn, chan, kind, last, born>>

\* flags after it, ngx_reap included
SignalFlags(sig, f) ==
  IF \E s \in Slots : Addressed(s, sig) /\ Missing(s) THEN f \cup {"reap"} ELSE f

-----------------------------------------------------------------------------
(***************************************************************************)
(* ngx_reap_children, one slot per step.                                   *)
(***************************************************************************)
Reaping == pc = "reap" /\ idx < last

ReapRest == <<term, gen, pc, job, pending, armed, sent, crashes>>

\* mutant: only TERM keeps the master from respawning
RespawnableQuit(s) == respawn[s] /\ ~exiting[s] /\ "terminate" \notin flags

Respawnable(s) == respawn[s] /\ ~exiting[s] /\ ~Stopping

\* mutant: a process that is on its way out is not waited for
CountsLiveNotExiting(s) == ~exiting[s] /\ ~detached[s]

CountsLive(s) == exiting[s] \/ ~detached[s]

ReapKeep ==
  /\ Reaping /\ (pid[idx] = None \/ ~exited[idx])
  /\ lv' = (lv \/ (pid[idx] # None /\ CountsLive(idx)))
  /\ idx' = idx + 1
  /\ UNCHANGED <<table, flags, noaccepting, newBinary, live, child, born, forkFails, ReapRest>>

ReapRespawn ==
  /\ Reaping /\ pid[idx] # None /\ exited[idx] /\ Respawnable(idx)
  /\ \E p \in Pids : FreshPid(p) /\ Forked(p) /\ pid' = Set(pid, idx, p)
  /\ exited' = Set(exited, idx, FALSE)
  /\ chan' = Set(chan, idx, TRUE)
  /\ lv' = TRUE /\ idx' = idx + 1
  /\ UNCHANGED <<exiting, detached, respawn, just, kind, last, flags, noaccepting, newBinary, 
                 live, forkFails, ReapRest>>

\* fork() or socketpair() fails: the slot stays as it is, to be tried at the next reap
ReapRespawnFails ==
  /\ Reaping /\ pid[idx] # None /\ exited[idx] /\ Respawnable(idx)
  /\ forkFails < MaxForkFails /\ forkFails' = forkFails + 1
  /\ chan' = Set(chan, idx, FALSE)
  /\ idx' = idx + 1
  /\ UNCHANGED <<pid, exited, exiting, detached, respawn, just, kind, last, flags, noaccepting,
                 newBinary, live, lv, child, born, ReapRest>>

\* mutant: every freed slot shortens the table
ShortensAlways(s) == TRUE

Shortens(s) == s = last - 1

\* the slot is given up; an upgrade whose new binary died is rolled back
ReapFree ==
  /\ Reaping /\ pid[idx] # None /\ exited[idx] /\ ~Respawnable(idx)
  /\ chan' = Set(chan, idx, FALSE)
  /\ IF pid[idx] = newBinary
     THEN /\ newBinary' = None /\ noaccepting' = FALSE
          /\ flags' = IF noaccepting THEN flags \cup {"restart"} ELSE flags
     ELSE UNCHANGED <<newBinary, noaccepting, flags>>
  /\ IF Shortens(idx)
     THEN last' = last - 1 /\ UNCHANGED pid
     ELSE pid' = Set(pid, idx, None) /\ UNCHANGED last
  /\ idx' = idx + 1
  /\ UNCHANGED <<exited, exiting, detached, respawn, just, kind, live, lv, child, born,
                 forkFails, ReapRest>>

ReapDone ==
  /\ pc = "reap" /\ idx >= last
  /\ live' = lv /\ pc' = "check"
  /\ UNCHANGED <<table, flags, upg, term, local, kernel, env>>

-----------------------------------------------------------------------------
(***************************************************************************)
(* The decisions after the wake-up.  No flag is set between two suspends   *)
(* except by the master itself, so that the order of its if-statements is  *)
(* the order in which these guards exclude each other.                     *)
(***************************************************************************)
MayExit == ~live /\ Stopping

Deciding == pc = "check" /\ ~MayExit

\* ngx_master_process_exit
MasterExit ==
  /\ pc = "check" /\ MayExit
  /\ pc' = "exited"
  /\ listening' = FALSE
  /\ UNCHANGED <<table, flags, upg, live, delay, sigio, local, kernel, env>>

FirstDelay == IF delay = 0 THEN 50 ELSE delay

\* one of the wake-ups that closing channels cause: not signalled again
TerminateWait ==
  /\ Deciding /\ "terminate" \in flags /\ sigio > 0
  /\ LoopTop(FirstDelay, sigio - 1) /\ flags' = AfterTop(FirstDelay)
  /\ UNCHANGED <<table, upg, live, listening, local, pending, child, born, env>>

TerminateSignal ==
  LET sig == IF FirstDelay > 1000 THEN "KILL" ELSE "TERM"
  IN /\ Deciding /\ "terminate" \in flags /\ sigio = 0
     /\ SignalWorkers(sig)
     /\ LoopTop(FirstDelay, WorkerN + 2) /\ flags' = SignalFlags(sig, AfterTop(FirstDelay))
     /\ UNCHANGED <<upg, live, listening, local, pending, env>>

Quit ==
  /\ Deciding /\ "terminate" \notin flags /\ "quit" \in flags
  /\ SignalWorkers("QUIT")
  /\ LoopTop(delay, sigio) /\ flags' = SignalFlags("QUIT", AfterTop(delay))
  /\ listening' = FALSE
  /\ UNCHANGED <<upg, live, local, pending, env>>

Running == Deciding /\ ~Stopping

Start(j) == pc' = "start" /\ idx' = 0 /\ job' = j

\* HUP while ngx_new_binary is set: only start workers of the current configuration
ReconfigureUpgrade ==
  /\ Running /\ "reconfigure" \in flags /\ newBinary # None
  /\ flags' = flags \ {"reconfigure"}
  /\ Start("upgrade")
  /\ UNCHANGED <<table, upg, live, term, lv, kernel, env>>

\* HUP: ngx_init_cycle fails and the old cycle is kept
ReconfigureFails ==
  /\ BadConfig /\ Running /\ "reconfigure" \in flags /\ newBinary = None
  /\ LoopTop(delay, sigio) /\ flags' = AfterTop(delay) \ {"reconfigure"}
  /\ UNCHANGED <<table, upg, live, listening, local, pending, child, born, env>>

Reconfigure ==
  /\ Running /\ "reconfigure" \in flags /\ newBinary = None
  /\ flags' = flags \ {"reconfigure"}
  /\ gen' = gen + 1
  /\ Start("reload")
  /\ UNCHANGED <<table, noaccepting, newBinary, live, term, lv, kernel, env>>

Restart ==
  /\ Running /\ "reconfigure" \notin flags /\ "restart" \in flags
  /\ flags' = flags \ {"restart"}
  /\ Start("restart")
  /\ UNCHANGED <<table, upg, live, term, lv, kernel, env>>

\* the start loops return to their caller
StartDone ==
  /\ pc = "start" /\ idx >= StartN
  /\ CASE job = "boot" ->
            live' = TRUE /\ LoopTop(delay, sigio) /\ flags' = AfterTop(delay)
            /\ UNCHANGED <<table, noaccepting, child, born>>
       [] job = "upgrade" ->
            noaccepting' = FALSE /\ LoopTop(delay, sigio) /\ flags' = AfterTop(delay)
            /\ UNCHANGED <<table, live, child, born>>
       [] job = "reload" ->
            live' = TRUE /\ pc' = "check" /\ SignalWorkers("QUIT")
            /\ flags' = SignalFlags("QUIT", flags)
            /\ UNCHANGED <<noaccepting, delay, sigio, armed>>
       [] job = "restart" ->
            live' = TRUE /\ pc' = "check"
            /\ UNCHANGED <<table, flags, noaccepting, delay, sigio, armed, child, born>>
  /\ UNCHANGED <<newBinary, gen, listening, local, pending, env>>

Later == Running /\ {"reconfigure", "restart"} \cap flags = {}

Reopen ==
  /\ Later /\ "reopen" \in flags
  /\ SignalWorkers("REOPEN")
  /\ flags' = SignalFlags("REOPEN", flags \ {"reopen"})
  /\ UNCHANGED <<upg, live, term, pc, local, pending, armed, env>>

\* ngx_exec_new_binary
ChangeBinary ==
  /\ Later /\ "reopen" \notin flags /\ "change_binary" \in flags
  /\ \/ /\ \E s \in 0 .. MaxSlots, p \in Pids :
             FreeSlot(s) /\ FreshPid(p) /\ NewSlot(s, p, "binary", "detached") /\ newBinary' = p
        /\ UNCHANGED forkFails
     \/ SpawnFails /\ newBinary' = Invalid /\ UNCHANGED <<table, child, born>>
  /\ flags' = flags \ {"change_binary"}
  /\ UNCHANGED <<noaccepting, gen, live, term, pc, local, pending, armed, sent, crashes>>

NoAccept ==
  /\ Later /\ {"reopen", "change_binary"} \cap flags = {} /\ "noaccept" \in flags
  /\ SignalWorkers("QUIT")
  /\ flags' = SignalFlags("QUIT", flags \ {"noaccept"})
  /\ noaccepting' = TRUE
  /\ UNCHANGED <<newBinary, gen, live, term, pc, local, pending, armed, env>>

AllDone ==
  /\ Later /\ {"reopen", "change_binary", "noaccept"} \cap flags = {}
  /\ LoopTop(delay, sigio) /\ flags' = AfterTop(delay)
  /\ UNCHANGED <<table, upg, live, listening, local, pending, child, born, env>>

Master ==
  \/ Wake \/ StartOne \/ StartDone
  \/ ReapKeep \/ ReapRespawn \/ ReapRespawnFails \/ ReapFree \/ ReapDone
  \/ MasterExit \/ TerminateWait \/ TerminateSignal \/ Quit
  \/ ReconfigureUpgrade \/ ReconfigureFails \/ Reconfigure \/ Restart
  \/ Reopen \/ ChangeBinary \/ NoAccept \/ AllDone

-----------------------------------------------------------------------------
(***************************************************************************)
(* The operator, the timer and the children.                               *)
(***************************************************************************)
masterState == <<table, flags, upg, live, term, pc, local>>

Operator ==
  /\ sent < MaxSignals /\ sent' = sent + 1 /\ pc # "exited"
  /\ \E g \in Signals \ pending : pending' = pending \cup {g}
  /\ UNCHANGED <<masterState, armed, child, born, crashes, forkFails>>

Alarm ==
  /\ armed /\ pc # "exited"
  /\ armed' = FALSE /\ pending' = pending \cup {"ALRM"}
  /\ UNCHANGED <<masterState, child, born, env>>

\* a child that was told to leaves with exit(0)
Leaves(p) ==
  /\ child[p] \in {"quit", "term"}
  /\ child' = Set(child, p, "dead")
  /\ UNCHANGED <<masterState, pending, armed, born, env>>

\* a child dies untold: killed, the loader or the new binary ends, or a fatal exit(2)
Dies(p) ==
  /\ child[p] = "run" /\ crashes < MaxCrashes /\ crashes' = crashes + 1
  /\ \E c \in Deaths : child' = Set(child, p, c)
  /\ UNCHANGED <<masterState, pending, armed, born, sent, forkFails>>

Next == Master \/ Operator \/ Alarm \/ \E p \in Pids : Leaves(p) \/ Dies(p)

Spec == Init /\ [][Next]_vars

\* The master runs whenever it can and the kernel delivers SIGALRM; nothing makes a
\* child leave, neither its own will nor TERM.
FairSpec == Spec /\ WF_vars(Master) /\ WF_vars(Alarm)

-----------------------------------------------------------------------------
TypeOK ==
  /\ pid \in [Slots -> Pids \cup {None}]
  /\ exited \in [Slots -> BOOLEAN] /\ exiting \in [Slots -> BOOLEAN]
  /\ detached \in [Slots -> BOOLEAN] /\ respawn \in [Slots -> BOOLEAN]
  /\ just \in [Slots -> BOOLEAN] /\ chan \in [Slots -> BOOLEAN]
  /\ kind \in [Slots -> Kinds]
  /\ last \in 0 .. MaxSlots
  /\ flags \subseteq Flags
  /\ noaccepting \in BOOLEAN /\ newBinary \in Pids \cup {None, Invalid}
  /\ live \in BOOLEAN /\ lv \in BOOLEAN /\ listening \in BOOLEAN
  /\ delay \in Nat /\ sigio \in Nat /\ gen \in Nat /\ idx \in Nat
  /\ pc \in {"suspend", "reap", "check", "start", "exited"}
  /\ job \in Jobs
  /\ pending \subseteq Signals \cup {"ALRM"} /\ armed \in BOOLEAN
  /\ child \in [Pids -> {"none"} \cup Alive \cup Gone]
  /\ born \in [Pids -> Nat]
  /\ sent \in Nat /\ crashes \in Nat /\ forkFails \in Nat

\* The process table and the kernel agree: no two slots name the same process, every
\* process that has not been waited for is named by a slot below ngx_last_process, and a
\* slot is marked exited exactly when its process has been waited for.  Otherwise a
\* child is lost: waitpid() finds no slot for it (ngx_process.c:576 then reads the slot
\* behind the table), nobody respawns or stops it.
TableAgrees ==
  /\ \A s, t \in Slots : Used(s) /\ Used(t) /\ pid[s] = pid[t] => s = t
  /\ \A p \in Pids : child[p] # "none" => \E s \in Slots : Used(s) /\ pid[s] = p
  /\ \A s \in Slots : Used(s) => (exited[s] <=> child[pid[s]] = "none")

\* An upgrade in progress is known to the master: while ngx_new_binary is a pid a detached
\* slot names it, so that its death is noticed and the old binary can resume its work,
\* and there is no other detached process (a second USR2 started nothing).
NewBinaryTracked ==
  /\ newBinary \in Pids => \E s \in Slots : Used(s) /\ pid[s] = newBinary /\ detached[s]
  /\ \A s \in Slots : Used(s) /\ detached[s] => pid[s] = newBinary

\* a worker process that runs and has not been told to leave
Serving(s) == Used(s) /\ kind[s] = "worker" /\ child[pid[s]] = "run"

\* After a reload the workers of the old configuration have been told to quit: while the
\* master sleeps, every worker that serves was forked with the current cycle.
OneGeneration ==
  pc = "suspend" => \A s \in Slots : Serving(s) => born[pid[s]] = gen

\* While the master sleeps there are not more workers serving than worker_processes.
NotTooManyWorkers ==
  pc = "suspend" => Cardinality({s \in Slots : Serving(s)}) <= WorkerN

\* While the master sleeps the workers that serve are of its newest configuration, and no more
\* than it asks for: no reload, death or signal leaves workers of two generations side by side.
WorkersCurrent == OneGeneration /\ NotTooManyWorkers

\* The master exits on TERM or QUIT only after its children: none but a new binary runs on.
MasterExitsLast ==
  pc = "exited" => \A s \in Slots : Used(s) /\ ~detached[s] => child[pid[s]] = "none"

\* Once the master handles TERM or QUIT it forks no process any more: with its listening
\* sockets closed, a worker respawned then could serve nobody and nobody would stop it.
NoForkWhenStopping ==
  [][(Stopping \/ ~listening) => \A p \in Pids : child[p] = "none" => child'[p] = "none"]_vars

\* TERM stops the master: children that do not react are killed when the delay has grown
\* past a second, and then the master exits.
TermExits == "terminate" \in flags ~> pc = "exited"

\* Workers that die are replaced, reloads and a new binary that dies included: again and
\* again there are worker_processes workers, unless the master was told to stop them.
WorkersRestored ==
  []<>(Stopping \/ noaccepting \/ Cardinality({s \in Slots : Serving(s)}) >= WorkerN)

=============================================================================
