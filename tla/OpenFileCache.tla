---------------------------- MODULE OpenFileCache ----------------------------
(***************************************************************************)
(* The cache of open files of one worker (core/ngx_open_file_cache.c):     *)
(* descriptors shared by requests, cached directories and errors, a use    *)
(* count and a close flag for entries that leave the cache in use, vnode   *)
(* events where the event method has them, and a disk that changes under   *)
(* all of it.  Inode numbers (uniq) are used again once nobody holds them. *)
(***************************************************************************)
EXTENDS Integers, Sequences, FiniteSets, SequencesExt

CONSTANTS
  Names,       \* file names
  Uniqs,       \* bound: inode numbers
  Cached,      \* bound: ngx_cached_open_file_t that are allocated at one time
  Readers,     \* requests that have a file open at one time
  MaxCached,   \* cache->max
  Valid,       \* of->valid
  Inactive,    \* cache->inactive
  FileConfs    \* configurations: [min_uses, errors, vnode, faults]

ASSUME OpenFileAssumption ==
  /\ IsFiniteSet(Cached) /\ IsFiniteSet(Readers)
  /\ 0 \notin Cached /\ 0 \notin Uniqs          \* 0 stands for no entry and for no file
  /\ {Valid, MaxCached} \subseteq Nat \ {0} /\ Inactive \in Nat
  /\ \A f \in FileConfs : f.min_uses \in Nat \ {0} /\ {f.errors, f.vnode, f.faults} \subseteq BOOLEAN

VARIABLES
  fileConf,  \* the configuration
  disk,      \* what each name is: a file, a directory or nothing
  ofc,       \* the cache: its entries, tree, queue, cache->current, and the open descriptors
  reading,   \* the entry and the file that each request has
  lost,      \* history: seconds since a file lost its name (up to Valid)
  told,      \* entries whose vnode event the kernel has for the worker
  broken     \* an entry was taken out of the tree twice: undefined

ofcVars == <<fileConf, disk, ofc, reading, lost, told, broken>>

NoFd == 0
FileDescs == 1..(Cardinality(Cached) + 1)
Nobody == [entry |-> 0, uniq |-> 0]
Gone == [kind |-> "none", uniq |-> 0]

\* ngx_cached_open_file_t; created and accessed are ages in seconds, up to where they matter
NoFile == [name |-> "", kind |-> "none", fd |-> NoFd, uniq |-> 0, uses |-> 0, count |-> 0,
           close |-> FALSE, event |-> FALSE, use_event |-> FALSE, created |-> 0, accessed |-> 0]

OpenFilesInit ==
  /\ fileConf \in FileConfs
  /\ disk = [n \in Names |-> Gone]
  /\ ofc = [file |-> [e \in Cached |-> NoFile], tree |-> {}, queue |-> <<>>, current |-> 0,
            fds |-> [d \in FileDescs |-> 0], exited |-> FALSE]
  /\ reading = [r \in Readers |-> Nobody]
  /\ lost = [u \in Uniqs |-> 0] /\ told = {} /\ broken = FALSE

-----------------------------------------------------------------------------
(* Parts of the code as functions of the cache k *)

WithFile(k, e, f) == [k EXCEPT !.file[e] = f]
Unqueued(k, e) == [k EXCEPT !.queue = RemoveAt(@, CHOOSE i \in DOMAIN @ : @[i] = e)]
QueuedFirst(k, e) == [k EXCEPT !.queue = <<e>> \o @]
Untreed(k, e) == [k EXCEPT !.tree = @ \ {e}, !.current = @ - 1]
FdClosed(k, d) == IF d = NoFd THEN k ELSE [k EXCEPT !.fds[d] = 0]

\* ngx_open_file_del_event
DelEvent(k, e) == [k EXCEPT !.file[e].event = FALSE, !.file[e].use_event = FALSE]

\* the descriptor of an entry is closed
Shut(k, e) == [FdClosed(DelEvent(k, e), k.file[e].fd) EXCEPT !.file[e].fd = NoFd]

\* ngx_open_file_add_event, after which the event is not yet relied upon
AddEvent(k, e, fd) ==
  IF ~fileConf.vnode \/ k.file[e].event \/ fd = NoFd \/ k.file[e].uses < fileConf.min_uses THEN k
  ELSE [k EXCEPT !.file[e].event = TRUE, !.file[e].use_event = FALSE]

\* mutant: the last test of the count is missing
CloseCachedAnyway(k, e, min) ==
  LET f == k.file[e]
      k1 == IF f.close THEN k ELSE QueuedFirst(Unqueued(WithFile(k, e, [f EXCEPT !.accessed = 0]), e), e)
      k2 == Shut(k1, e)
  IN  IF ~f.close /\ (f.uses >= min \/ f.count > 0) THEN k1
      ELSE IF f.close THEN WithFile(k2, e, NoFile) ELSE k2

\* ngx_close_cached_file
CloseCached(k, e, min) ==
  LET f == k.file[e]
      k1 == IF f.close THEN k ELSE QueuedFirst(Unqueued(WithFile(k, e, [f EXCEPT !.accessed = 0]), e), e)
      k2 == Shut(k1, e)
  IN  IF ~f.close /\ (f.uses >= min \/ f.count > 0) THEN k1
      ELSE IF f.count > 0 THEN DelEvent(k1, e)
      ELSE IF f.close THEN WithFile(k2, e, NoFile) ELSE k2

\* one turn of ngx_expire_old_cached_files: the last entry of the queue, by force or if inactive
ExpireOne(k, force) ==
  IF k.queue = <<>> \/ (~force /\ k.file[Last(k.queue)].accessed <= Inactive) THEN k
  ELSE LET e == Last(k.queue)
           k1 == Untreed(Unqueued(k, e), e)
       IN  IF k.file[e].kind = "file" THEN CloseCached([k1 EXCEPT !.file[e].close = TRUE], e, 0)
           ELSE WithFile(k1, e, NoFile)

ExpireInactive(k) == ExpireOne(ExpireOne(k, FALSE), FALSE)
ExpireForced(k) == ExpireInactive(ExpireOne(k, TRUE))

\* ngx_open_and_stat_file for a name that is `is`, given a descriptor of uniq to test first:
\* the possible [kind, uniq, fd, k]
OpenAndStat(k, is, fd, uniq) ==
  LET new == CHOOSE d \in FileDescs : k.fds[d] = 0
      Out(kind, u, d, k1) == [kind |-> kind, uniq |-> u, fd |-> d, k |-> k1]
  IN  (IF is.kind = "none" THEN {Out("err", 0, NoFd, k)}
       ELSE IF is.kind = "dir" THEN {Out("dir", 0, NoFd, k)}
       ELSE IF fd # NoFd /\ uniq = is.uniq THEN {Out("file", uniq, fd, k)}
       ELSE {Out("file", is.uniq, new, [k EXCEPT !.fds[new] = is.uniq])})
      \cup (IF fileConf.faults THEN {Out("failed", 0, NoFd, k)} ELSE {})      \* fstat() failed

\* label `failed' of ngx_open_cached_file: the entry leaves the cache
FailedEntry(k, e) ==
  LET k1 == Untreed(k, e) IN
  IF k.file[e].count = 0 THEN WithFile(FdClosed(k1, k.file[e].fd), e, NoFile)
  ELSE [k1 EXCEPT !.file[e].close = TRUE]

\* labels `update' and `found': what was opened is in the entry, which is the youngest
Refreshed(k, e, o) ==
  LET f == k.file[e]
      n == IF o.kind = "file" THEN f.count + 1 ELSE f.count
  IN  QueuedFirst(WithFile(k, e, [f EXCEPT !.fd = o.fd, !.kind = o.kind, !.uniq = o.uniq, !.count = n,
                                           !.created = 0, !.accessed = 0, !.close = FALSE]), e)

\* label `create': the new entry for name n, or nothing if there is no memory
Inserted(k, n, o) ==
  LET k1 == IF k.current >= MaxCached THEN ExpireForced(k) ELSE k
      e == CHOOSE x \in Cached : k1.file[x] = NoFile
      k2 == [k1 EXCEPT !.tree = @ \cup {e}, !.current = @ + 1,
                       !.file[e] = [NoFile EXCEPT !.name = n, !.uses = 1]]
  IN  [k |-> Refreshed(AddEvent(k2, e, o.fd), e, o), e |-> e]

CanCreateEntry(k) == \E x \in Cached : k.file[x] = NoFile

-----------------------------------------------------------------------------
(* ngx_open_cached_file *)

CachedAs(n) == {e \in ofc.tree : ofc.file[e].name = n}

\* the end of the function: the request has the entry if it is a file
ReturnEntry(r, k, e) ==
  /\ ofc' = k
  /\ reading' = [reading EXCEPT ![r] =
       IF k.file[e].kind = "file" THEN [entry |-> e, uniq |-> k.file[e].uniq] ELSE Nobody]
  /\ UNCHANGED <<fileConf, disk, lost, told, broken>>

ReturnError(k) ==
  /\ ofc' = k
  /\ UNCHANGED <<fileConf, disk, reading, lost, told, broken>>

GivesUp(o) == o.kind = "failed" \/ (o.kind = "err" /\ ~fileConf.errors)

\* the file was looked up, and its entry is used once more
UsedAgain(e) == [Unqueued(ofc, e) EXCEPT !.file[e].uses = IF @ < fileConf.min_uses THEN @ + 1 ELSE @]

Dormant(f) == f.kind = "file" /\ f.fd = NoFd

\* mutant: the age of an entry is not looked at
TrustedAlways(f) == f.use_event \/ ~f.event

Trusted(f) == f.use_event \/ (~f.event /\ f.created < Valid)

CreateEntry(r, n, k, o) ==
  \/ LET c == Inserted(k, n, o) IN ReturnEntry(r, c.k, c.e)
  \/ fileConf.faults /\ ReturnError(FdClosed(IF k.current >= MaxCached THEN ExpireForced(k) ELSE k, o.fd))   \* no memory

OpenMissed(r, n) ==
  /\ reading[r] = Nobody /\ CachedAs(n) = {} /\ CanCreateEntry(ofc)
  /\ \E o \in OpenAndStat(ofc, disk[n], NoFd, 0) :
       IF GivesUp(o) THEN ReturnError(o.k) ELSE CreateEntry(r, n, o.k, o)

\* the file was not used often enough to keep it open
OpenDormant(r, n) ==
  /\ reading[r] = Nobody
  /\ \E e \in CachedAs(n) :
       /\ Dormant(ofc.file[e])
       /\ \E o \in OpenAndStat(UsedAgain(e), disk[n], NoFd, 0) :
            IF GivesUp(o) THEN ReturnError(FailedEntry(o.k, e))
            ELSE ReturnEntry(r, Refreshed(AddEvent(o.k, e, o.fd), e, o), e)

OpenHit(r, n) ==
  /\ reading[r] = Nobody
  /\ \E e \in CachedAs(n) :
       LET f == ofc.file[e]
           k == QueuedFirst([UsedAgain(e) EXCEPT !.file[e].accessed = 0], e)
       IN  /\ ~Dormant(f) /\ Trusted(f)
           /\ IF f.kind = "file" THEN ReturnEntry(r, AddEvent([k EXCEPT !.file[e].count = @ + 1], e, f.fd), e)
              ELSE ReturnEntry(r, k, e)

\* the entry is tested again: it is too old, or the caller knows another uniq
OpenRetest(r, n, other) ==
  /\ reading[r] = Nobody /\ CanCreateEntry(ofc)
  /\ \E e \in CachedAs(n) :
       LET f == ofc.file[e] IN
       /\ ~Dormant(f) /\ (~Trusted(f) \/ (other /\ ~f.use_event))
       /\ \E o \in OpenAndStat(UsedAgain(e), disk[n], f.fd, f.uniq) :
            \/ GivesUp(o) /\ ReturnError(FailedEntry(o.k, e))
            \/ /\ ~GivesUp(o) /\ f.kind # "file"                       \* it was no file
               /\ ReturnEntry(r, Refreshed(IF o.kind = "file" THEN AddEvent(o.k, e, o.fd) ELSE o.k, e, o), e)
            \/ /\ ~GivesUp(o) /\ f.kind = "file" /\ o.kind = "file" /\ o.uniq = f.uniq      \* the same
               /\ ReturnEntry(r, Refreshed([o.k EXCEPT !.file[e].use_event = f.event], e, o), e)
            \/ /\ ~GivesUp(o) /\ f.kind = "file" /\ (o.kind # "file" \/ o.uniq # f.uniq)    \* another
               /\ IF f.count = 0
                  THEN ReturnEntry(r, Refreshed(AddEvent(Shut(o.k, e), e, o.fd), e, o), e)
                  ELSE CreateEntry(r, n, [Untreed(o.k, e) EXCEPT !.file[e].close = TRUE], o)

-----------------------------------------------------------------------------
(* The rest of the cache's life *)

\* ngx_open_file_cleanup, when the pool of the request is destroyed
CloseFile(r) ==
  /\ reading[r] # Nobody
  /\ LET e == reading[r].entry
         k == CloseCached([ofc EXCEPT !.file[e].count = @ - 1], e, fileConf.min_uses)
     IN  ofc' = ExpireInactive(k)
  /\ reading' = [reading EXCEPT ![r] = Nobody]
  /\ UNCHANGED <<fileConf, disk, lost, told, broken>>

\* ngx_open_file_cache_remove: the kernel says that a file was changed
VnodeEvent(e) ==
  /\ e \in told
  /\ told' = told \ {e}
  /\ IF ~ofc.file[e].event THEN UNCHANGED <<ofc, broken>>              \* deleted meanwhile
     ELSE IF e \notin ofc.tree THEN broken' = TRUE /\ UNCHANGED ofc
     ELSE /\ ofc' = LET k == Untreed(Unqueued(ofc, e), e) IN
                    CloseCached([DelEvent(k, e) EXCEPT !.file[e].close = TRUE], e, 0)
          /\ UNCHANGED broken
  /\ UNCHANGED <<fileConf, disk, reading, lost>>

\* ngx_open_file_cache_cleanup: the cycle's pool is destroyed, and the process
\* ends; whoever uses them, the entries of the queue are closed and freed
CacheExit ==
  /\ LET all == ToSet(ofc.queue) IN
     ofc' = [file |-> [e \in Cached |-> IF e \in all THEN NoFile ELSE ofc.file[e]],
             tree |-> ofc.tree \ all, queue |-> <<>>, current |-> ofc.current - Len(ofc.queue),
             fds |-> [d \in FileDescs |-> IF \E e \in all : ofc.file[e].fd = d THEN 0 ELSE ofc.fds[d]],
             exited |-> TRUE]
  /\ reading' = [r \in Readers |-> Nobody] /\ told' = {}
  /\ UNCHANGED <<fileConf, disk, lost, broken>>

\* somebody changes a file; a number is free when no name and no descriptor has it
ChangeDisk(n) ==
  \E is \in {Gone, [kind |-> "dir", uniq |-> 0]} \cup [kind : {"file"}, uniq : Uniqs] :
    /\ is # disk[n]
    /\ is.kind = "file" => /\ \A m \in Names : disk[m].uniq # is.uniq
                           /\ \A d \in FileDescs : ofc.fds[d] # is.uniq
    /\ disk' = [disk EXCEPT ![n] = is]
    /\ lost' = [u \in Uniqs |-> IF u \in {is.uniq, disk[n].uniq} THEN 0 ELSE lost[u]]
    /\ told' = told \cup {e \in Cached : ofc.file[e].event /\ ofc.file[e].uniq = disk[n].uniq}
    /\ UNCHANGED <<fileConf, ofc, reading, broken>>

Older(age, max) == IF age < max THEN age + 1 ELSE age

Second ==
  /\ ofc' = [ofc EXCEPT !.file = [e \in Cached |->
       IF ofc.file[e] = NoFile THEN NoFile
       ELSE [ofc.file[e] EXCEPT !.created = Older(@, Valid), !.accessed = Older(@, Inactive + 1)]]]
  /\ lost' = [u \in Uniqs |-> IF \E n \in Names : disk[n].uniq = u THEN 0 ELSE Older(lost[u], Valid)]
  /\ UNCHANGED <<fileConf, disk, reading, told, broken>>

OpenFilesNext ==
  /\ ~broken /\ ~ofc.exited
  /\ \/ \E r \in Readers : CloseFile(r) \/ \E n \in Names :
          OpenMissed(r, n) \/ OpenDormant(r, n) \/ OpenHit(r, n) \/ \E other \in BOOLEAN : OpenRetest(r, n, other)
     \/ \E e \in Cached : VnodeEvent(e)
     \/ \E n \in Names : ChangeDisk(n)
     \/ Second \/ CacheExit

OpenFilesSpec == OpenFilesInit /\ [][OpenFilesNext]_ofcVars

-----------------------------------------------------------------------------
(* Properties *)

Having(e) == {r \in Readers : reading[r].entry = e}

\* The tree, the queue and cache->current hold the same entries, one for a name and not more than
\* max; at exit nothing is left, which are the alerts of ngx_open_file_cache_cleanup().
BooksAgree ==
  /\ ofc.tree = ToSet(ofc.queue) /\ Len(ofc.queue) = ofc.current /\ Cardinality(ofc.tree) = ofc.current
  /\ ofc.current <= MaxCached /\ (ofc.exited => ofc.current = 0)
  /\ \A e, f \in ofc.tree : ofc.file[e].name = ofc.file[f].name => e = f

\* No descriptor is closed, or used for another file, under a request; none is open without an
\* entry, and an entry out of the cache is one that requests still use.
DescriptorsKept ==
  /\ \A r \in Readers : reading[r] # Nobody =>
       LET f == ofc.file[reading[r].entry] IN f.fd # NoFd /\ ofc.fds[f.fd] = reading[r].uniq
  /\ ~ofc.exited =>
       /\ \A d \in FileDescs : ofc.fds[d] # 0 => Cardinality({e \in Cached : ofc.file[e].fd = d}) = 1
       /\ \A e \in Cached : ofc.file[e] # NoFile =>
            ofc.file[e].count = Cardinality(Having(e)) /\ (e \notin ofc.tree => Having(e) # {})

\* Whatever requests, expiry, retests and vnode events do in whatever order, the cache's books
\* agree and the requests keep their descriptors - until a vnode event comes for an entry that a
\* retest took out of the cache while it was in use, which takes it out again.
HandlesExact == ~broken => BooksAgree /\ DescriptorsKept

\* A request that opens a file by name gets the one of that name, or one that lost it less than
\* `valid' seconds ago, or whose vnode event is on its way.
ServedFresh ==
  [][\A r \in Readers : reading[r] = Nobody /\ reading'[r] # Nobody =>
       \/ \E n \in Names : disk[n].uniq = reading'[r].uniq
       \/ lost[reading'[r].uniq] < Valid
       \/ reading'[r].entry \in told]_ofcVars
=============================================================================
