------------------------------- MODULE Cycle -------------------------------
(* The reload of the configuration in the master: core/ngx_cycle.c with the      *)
(* opening of listening sockets of core/ngx_connection.c.                        *)
(*                                                                               *)
(* ngx_init_cycle() builds a new cycle beside the running one.  It opens the log *)
(* files, takes over or allocates the shared memory zones, takes over or opens   *)
(* the listening sockets, and then either commits, closing what only the old     *)
(* cycle used, or rolls back.  The kernel side is the table of descriptors and   *)
(* the map of the address space: both give out the lowest free number, so that a *)
(* descriptor or an address that is closed too early is soon somebody else's.    *)
(* Socket options (backlog, deferred accept, buffer sizes) are left out.         *)
EXTENDS Integers, Sequences, FiniteSets, Functions

CONSTANTS
  Confs,       \* the configurations a reload may find: [pid, files, zones, socks]
  MaxFd,       \* bound: descriptors of the process
  MaxAddr,     \* bound: places in its address space
  Tries,       \* passes over the sockets that could not be bound (5 in the code)
  MaxReloads   \* bound: reloads

IsList(seq) == seq \in Seq({seq[i] : i \in DOMAIN seq})

\* A file, a zone or an address that is named again is the one named before
\* (ngx_conf_open_file(), ngx_shared_memory_add(), ngx_http_add_listen()), a zone of no size
\* is refused, and the process can hold what a configuration asks for.
ASSUME CycleAssumption ==
  /\ Tries \in Nat \ {0} /\ {MaxReloads, MaxFd, MaxAddr} \subseteq Nat
  /\ \A conf \in Confs :
       /\ IsList(conf.files) /\ IsList(conf.zones) /\ IsList(conf.socks)
       /\ IsInjective(conf.files) /\ IsInjective(conf.socks)
       /\ \A i, j \in DOMAIN conf.zones : conf.zones[i].name = conf.zones[j].name => i = j
       /\ \A i \in DOMAIN conf.zones : conf.zones[i].size \in Nat \ {0}
       /\ Len(conf.files) + Len(conf.socks) <= MaxFd /\ Len(conf.zones) <= MaxAddr

VARIABLES
  running,   \* the cycle in use
  cycle,     \* the cycle being built
  stage,     \* what ngx_init_cycle() is doing
  at,        \* the element of the list it is at
  pass,      \* [left, failed] of ngx_open_listening_sockets()
  fds,       \* descriptor -> what it is open on, or Closed
  mem,       \* address -> the size of the zone mapped there, 0 when free
  pids,      \* the pid files on disk
  reloads,   \* reloads begun
  undone     \* history: the cycles that were rolled back, with what they had replaced

cycleVars == <<running, cycle, stage, at, pass, fds, mem, pids, reloads, undone>>

Closed == <<"closed", 0>>
LogFile(name) == <<"file", name>>
Socket(addr) == <<"socket", addr>>

\* the lowest free number, as a set: there may be none
LowestFree(table, free) ==
  {i \in DOMAIN table : table[i] = free /\ \A j \in DOMAIN table : table[j] = free => i <= j}
WithClosed(closed) == [fd \in DOMAIN fds |-> IF fd \in closed THEN Closed ELSE fds[fd]]

Elements(seq) == {seq[i] : i \in DOMAIN seq}
NoneYet(list) == [i \in DOMAIN list |-> 0]

\* what the configuration just parsed leaves in the new cycle: names, sizes and
\* addresses, and no descriptor yet
Fresh(conf) ==
  [conf |-> conf, files |-> NoneYet(conf.files), zones |-> NoneYet(conf.zones),
   socks |-> NoneYet(conf.socks), open |-> {}]

\* the first cycle: everything was opened
CycleInit ==
  /\ \E conf \in Confs :
       LET files == Len(conf.files) IN
       /\ running = [Fresh(conf) EXCEPT
                       !.files = [i \in DOMAIN @ |-> i],
                       !.zones = [i \in DOMAIN @ |-> i],
                       !.socks = [i \in DOMAIN @ |-> files + i],
                       !.open = DOMAIN conf.socks]
       /\ fds = [fd \in 1..MaxFd |->
                   IF fd <= files THEN LogFile(conf.files[fd])
                   ELSE IF fd <= files + Len(conf.socks) THEN Socket(conf.socks[fd - files])
                   ELSE Closed]
       /\ mem = [a \in 1..MaxAddr |-> IF a <= Len(conf.zones) THEN conf.zones[a].size ELSE 0]
       /\ pids = {conf.pid}
  /\ cycle = running
  /\ stage = "idle" /\ at = 1 /\ pass = [left |-> Tries, failed |-> FALSE]
  /\ reloads = 0 /\ undone = {}

----------------------------------------------------------------------------
(* Building the new cycle, one element of its lists at a time.                   *)

Goes(next) == stage' = next /\ at' = 1
GoesOn == at' = at + 1 /\ UNCHANGED stage
Fails == Goes("failed")

\* a configuration that parses; one that does not leaves no trace
Reload(conf) ==
  /\ stage = "idle" /\ reloads < MaxReloads
  /\ reloads' = reloads + 1
  /\ cycle' = Fresh(conf)
  /\ Goes("pid")
  /\ UNCHANGED <<running, pass, fds, mem, pids, undone>>

\* a new name of the pid file: the new file is written and the old one deleted at
\* once.  The lock file and the directories of temporary files are tried next.
\* (A pid file that is opened and cannot be written is left out.)
PidFile ==
  /\ stage = "pid"
  /\ \/ Fails /\ UNCHANGED pids
     \/ /\ pids' = IF cycle.conf.pid = running.conf.pid THEN pids
                   ELSE (pids \cup {cycle.conf.pid}) \ {running.conf.pid}
        /\ Goes("files") \/ Fails
  /\ UNCHANGED <<running, cycle, pass, fds, mem, reloads, undone>>

OpenFile ==
  /\ stage = "files"
  /\ \/ /\ at > Len(cycle.files)
        /\ Goes("zones")
        /\ UNCHANGED <<cycle, fds>>
     \/ /\ at <= Len(cycle.files)
        /\ Fails
        /\ UNCHANGED <<cycle, fds>>
     \/ /\ at <= Len(cycle.files)
        /\ \E fd \in LowestFree(fds, Closed) :
             /\ fds' = [fds EXCEPT ![fd] = LogFile(cycle.conf.files[at])]
             /\ cycle' = [cycle EXCEPT !.files[at] = fd]
        /\ GoesOn
  /\ UNCHANGED <<running, pass, mem, pids, reloads, undone>>

\* the zone of the running cycle with this name
OldZone(name) == {i \in DOMAIN running.zones : running.conf.zones[i].name = name}
SameSize(old, size) == {i \in old : running.conf.zones[i].size = size}
WithUnmapped(addrs) == [a \in DOMAIN mem |-> IF a \in addrs THEN 0 ELSE mem[a]]

\* a zone of the same name and size is taken over with what it holds, one of
\* another size is unmapped there and then, and a zone is allocated.  The module's
\* init() may refuse either.  Taking over a zone that is not mapped is a crash.
CreateZone ==
  /\ stage = "zones"
  /\ \/ /\ at > Len(cycle.zones)
        /\ Goes("inherit")
        /\ UNCHANGED <<cycle, mem>>
     \/ /\ at <= Len(cycle.zones)
        /\ \E zone \in {cycle.conf.zones[at]}, old \in {OldZone(cycle.conf.zones[at].name)} :
             \/ \E i \in SameSize(old, zone.size) :
                  /\ cycle' = [cycle EXCEPT !.zones[at] = running.zones[i]]
                  /\ IF mem[running.zones[i]] = 0 THEN Goes("crashed") ELSE GoesOn \/ Fails
                  /\ UNCHANGED mem
             \/ /\ SameSize(old, zone.size) = {}
                /\ \E kept \in {WithUnmapped({running.zones[i] : i \in old})} :
                     \/ /\ mem' = kept
                        /\ Fails
                        /\ UNCHANGED cycle
                     \/ \E a \in LowestFree(kept, 0) :
                          /\ mem' = [kept EXCEPT ![a] = zone.size]
                          /\ cycle' = [cycle EXCEPT !.zones[at] = a]
                          /\ GoesOn \/ Fails
  /\ UNCHANGED <<running, pass, fds, pids, reloads, undone>>

\* the sockets of the running cycle that listen on the addresses of the new one are
\* its sockets too; the others are to be opened
Inherited(n) == {i \in DOMAIN running.socks : running.conf.socks[i] = cycle.conf.socks[n]}
Remain == {i \in DOMAIN running.socks : running.conf.socks[i] \in Elements(cycle.conf.socks)}

InheritSockets ==
  /\ stage = "inherit"
  /\ cycle' = [cycle EXCEPT
                 !.socks = [n \in DOMAIN @ |->
                              IF Inherited(n) = {} THEN 0 ELSE running.socks[CHOOSE i \in Inherited(n) : TRUE]],
                 !.open = {n \in DOMAIN cycle.socks : Inherited(n) = {}}]
  /\ pass' = [left |-> Tries, failed |-> FALSE]
  /\ Goes("sockets")
  /\ UNCHANGED <<running, fds, mem, pids, reloads, undone>>

\* the end of a pass over the sockets: a pass that found an address in use is
\* followed by another, after 500 ms, as long as tries are left
NextPass ==
  /\ at > Len(cycle.socks)
  /\ \/ ~pass.failed /\ Goes("commit") /\ UNCHANGED pass
     \/ /\ pass.failed /\ pass.left > 1
        /\ pass' = [left |-> pass.left - 1, failed |-> FALSE]
        /\ Goes("sockets")
     \/ pass.failed /\ pass.left = 1 /\ Fails /\ UNCHANGED pass

\* socket(), bind() and listen(); a socket that cannot be used is closed again
OpenSocket ==
  /\ stage = "sockets"
  /\ \/ NextPass /\ UNCHANGED <<cycle, fds>>
     \/ /\ at <= Len(cycle.socks)
        /\ \/ cycle.socks[at] # 0 /\ GoesOn /\ UNCHANGED <<cycle, pass, fds>>
           \/ /\ cycle.socks[at] = 0
              /\ \/ \E fd \in LowestFree(fds, Closed) :
                      /\ fds' = [fds EXCEPT ![fd] = Socket(cycle.conf.socks[at])]
                      /\ cycle' = [cycle EXCEPT !.socks[at] = fd]
                      /\ GoesOn /\ UNCHANGED pass
                 \/ \* the address is in use
                    /\ pass' = [pass EXCEPT !.failed = TRUE]
                    /\ GoesOn /\ UNCHANGED <<cycle, fds>>
                 \/ Fails /\ UNCHANGED <<cycle, pass, fds>>
  /\ UNCHANGED <<running, mem, pids, reloads, undone>>

----------------------------------------------------------------------------
(* Its two ends, and the reopening of the log files.                             *)

\* what only the old cycle used
OldZones == {running.zones[i] :
               i \in {j \in DOMAIN running.zones :
                        running.conf.zones[j].name \notin {z.name : z \in Elements(cycle.conf.zones)}}}
OldSockets == {running.socks[i] : i \in DOMAIN running.socks \ Remain}
OldFiles == Elements(running.files)

Commit ==
  /\ stage = "commit"
  /\ mem' = WithUnmapped(OldZones)
  /\ fds' = WithClosed(OldSockets \cup OldFiles)
  /\ running' = cycle
  /\ Goes("idle")
  /\ UNCHANGED <<cycle, pass, pids, reloads, undone>>

\* a module whose init_module() fails ends the master
InitModuleFails ==
  /\ stage = "commit"
  /\ Goes("exited")
  /\ UNCHANGED <<running, cycle, pass, fds, mem, pids, reloads, undone>>

\* the descriptors the new cycle opened itself
\* MUTANT: those it took over too
OpenedAll == Elements(cycle.files) \cup Elements(cycle.socks)
Opened == Elements(cycle.files) \cup {cycle.socks[n] : n \in cycle.open}

Rollback ==
  /\ stage = "failed"
  /\ fds' = WithClosed(Opened)
  /\ undone' = undone \cup {[old |-> running.conf, new |-> cycle.conf]}
  /\ cycle' = running
  /\ Goes("idle")
  /\ UNCHANGED <<running, pass, mem, pids, reloads>>

\* ngx_reopen_files(): of each file the new descriptor replaces the old one, or the
\* file could not be opened and the old one stays.  The new one is opened first.
ReopenFiles ==
  /\ stage = "idle"
  /\ \E i \in DOMAIN running.files :
       \E fd \in LowestFree(fds, Closed) :
         /\ fds' = [fds EXCEPT ![fd] = LogFile(running.conf.files[i]), ![running.files[i]] = Closed]
         /\ running' = [running EXCEPT !.files[i] = fd]
         /\ cycle' = running'
  /\ UNCHANGED <<stage, at, pass, mem, pids, reloads, undone>>

CycleNext ==
  \/ \E conf \in Confs : Reload(conf)
  \/ PidFile \/ OpenFile \/ CreateZone \/ InheritSockets \/ OpenSocket
  \/ Commit \/ InitModuleFails \/ Rollback
  \/ ReopenFiles

CycleSpec == CycleInit /\ [][CycleNext]_cycleVars

----------------------------------------------------------------------------
(* What a reload must not break.                                                 *)

\* a reload that was rolled back had asked for another size of a zone in use
Resized ==
  \E u \in undone : \E z \in Elements(u.old.zones), w \in Elements(u.new.zones) :
    z.name = w.name /\ z.size # w.size
\* one had moved the pid file
Moved == \E u \in undone : u.old.pid # u.new.pid

\* Between reloads the descriptors open in the master are those of the running cycle,
\* each on the file or the address its configuration names: whatever reload was
\* committed or failed half way (ngx_init_cycle(), ngx_open_listening_sockets()), no
\* socket the workers accept on is closed and none is left behind.  The zones of the
\* running cycle are mapped, each at a place of its own, and its pid file is on disk;
\* only a reload that resized a zone, or moved the pid file, and was then rolled back
\* takes these away: ngx_init_cycle() gives them up before it commits.
ReloadExact ==
  stage = "idle" =>
    /\ \A i \in DOMAIN running.files : fds[running.files[i]] = LogFile(running.conf.files[i])
    /\ \A i \in DOMAIN running.socks : fds[running.socks[i]] = Socket(running.conf.socks[i])
    /\ Cardinality({fd \in DOMAIN fds : fds[fd] # Closed})
         = Len(running.files) + Len(running.socks)
    /\ ~Resized =>
         /\ \A i \in DOMAIN running.zones : mem[running.zones[i]] = running.conf.zones[i].size
         /\ \A i, j \in DOMAIN running.zones : running.zones[i] = running.zones[j] => i = j
    /\ ~Moved => pids = {running.conf.pid}
=============================================================================
