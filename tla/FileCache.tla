------------------------------ MODULE FileCache ------------------------------
(***************************************************************************)
(* The HTTP file cache (http/ngx_http_file_cache.c): nodes in a shared     *)
(* memory zone under its mutex, files on disk that are opened, renamed and *)
(* deleted without it, requests of several workers, the cache manager and  *)
(* the cache loader.  An action is what happens between two points where a *)
(* process lets the others go on: a critical section or a system call.     *)
(***************************************************************************)
EXTENDS Integers, Sequences, FiniteSets, SequencesExt

CONSTANTS
  NoKey, NoNode,
  Keys,        \* cache keys; a key names one file
  Nodes,       \* bound: the nodes that fit in the zone
  CacheRequests,    \* requests that use the cache at one time, each in a worker of its own
  Manager,     \* the cache manager process
  MaxSize,     \* max_size of the cache path
  CacheConfs   \* [min: cache_min_uses, stale: use_stale has "updating", warm: the loader is through,
               \*  faults: renames and upstreams fail; bounds: starts: requests that come, deaths: workers
               \*  that die]

ASSUME CacheAssumption ==
  /\ NoKey \notin Keys /\ NoNode \notin Nodes /\ Manager \notin CacheRequests /\ MaxSize \in Nat
  /\ IsFiniteSet(CacheRequests) /\ IsFiniteSet(Nodes)
  /\ \A f \in CacheConfs : f.min \in Nat \ {0} /\ {f.starts, f.deaths} \subseteq Nat

Processes == CacheRequests \cup {Manager}

VARIABLES
  conf,     \* one of CacheConfs
  node,     \* ngx_http_file_cache_node_t of the zone; key NoKey: not allocated
  queue,    \* sh->queue, the most recently used node first
  size,     \* sh->size
  files,    \* the files under the cache path
  cold,     \* sh->cold
  ctx,      \* r->cache of each request and what it does next
  deletes,  \* the node whose file a process deletes, outside of the mutex, and whether it has
  loader,   \* [left: files the loader has still to visit, at: the one it failed to add]
  seen      \* history: how many requests came; how many workers died, and with which node; a request joined a
            \* node whose file was being deleted, an error was renewed over a file, a rename failed

cacheVars == <<conf, node, queue, size, files, cold, ctx, deletes, loader, seen>>

-----------------------------------------------------------------------------
Unused == [key |-> NoKey, uses |-> 0, count |-> 0, exists |-> FALSE, updating |-> FALSE,
           deleting |-> FALSE, error |-> FALSE, fs |-> 0]
IdleCtx == [pc |-> "idle", key |-> NoKey, node |-> NoNode, bypass |-> FALSE, exists |-> FALSE,
            error |-> FALSE, scarce |-> FALSE, updating |-> FALSE, renamed |-> FALSE]

NoDelete == [node |-> NoNode, gone |-> FALSE]

CacheInit ==
  /\ conf \in CacheConfs
  /\ node = [n \in Nodes |-> Unused] /\ queue = <<>> /\ size = 0
  /\ files \in {{}, Keys} /\ cold = ~conf.warm /\ (conf.warm => files = {})
  /\ ctx = [r \in CacheRequests |-> IdleCtx]
  /\ deletes = [p \in Processes |-> NoDelete]
  /\ loader = [left |-> files, at |-> NoKey]
  /\ seen = [starts |-> 0, deaths |-> 0, died |-> [n \in Nodes \cup {NoNode} |-> 0],
             joined |-> FALSE, renewed |-> FALSE, unrenamed |-> FALSE]

Allocated(n) == node[n].key # NoKey
Lookup(k) == {n \in Nodes : node[n].key = k}
Without(n) == RemoveAt(queue, CHOOSE i \in DOMAIN queue : queue[i] = n)
ToHead(n) == <<n>> \o Without(n)

\* what ngx_http_file_cache_exists() returns for a node that it found
FoundRc(f) ==
  IF f.error THEN "error"
  ELSE IF f.exists \/ f.uses + 1 >= conf.min THEN "ok" ELSE "again"

\* the fields that the label renew of ngx_http_file_cache_exists() resets
Renewed(f) == [f EXCEPT !.error = FALSE, !.exists = FALSE, !.fs = 0]

\* where ngx_http_file_cache_open() and ngx_http_file_cache_create() go on
After(r, rc, n, f) ==
  ctx' = [ctx EXCEPT ![r] =
    [@ EXCEPT !.node = n, !.exists = f.exists, !.error = f.error, !.scarce = rc = "again" /\ ~ctx[r].bypass,
              !.pc = IF ctx[r].bypass \/ rc = "again" THEN "fetch"
                     ELSE IF rc = "error" THEN "serve" ELSE IF rc = "ok" THEN "open" ELSE "opennew"]]

\* mutant: a request that finds its node forgets to count itself
HoldUncounted(f) == [f EXCEPT !.uses = IF @ < conf.min THEN @ + 1 ELSE @]

\* fcn->uses++ and fcn->count++; uses matters only up to min_uses
Hold(f) == [f EXCEPT !.uses = IF @ < conf.min THEN @ + 1 ELSE @, !.count = @ + 1]

\* ngx_http_file_cache_exists: the node is there
ExistsFound(r, n) ==
  /\ node[n].key = ctx[r].key
  /\ LET f == Hold(node[n]) IN
       \/ /\ node' = [node EXCEPT ![n] = f]
          /\ After(r, FoundRc(node[n]), n, f)
          /\ seen' = [seen EXCEPT !.joined = @ \/ node[n].deleting]
       \/ /\ node[n].error                     \* the error is no longer valid
          /\ node' = [node EXCEPT ![n] = Renewed(f)]
          /\ After(r, "declined", n, Renewed(f))
          /\ seen' = [seen EXCEPT !.joined = @ \/ node[n].deleting, !.renewed = @ \/ node[n].exists]
  /\ queue' = ToHead(n)
  /\ UNCHANGED <<conf, size, files, cold, deletes, loader>>

\* ngx_http_file_cache_exists: a new node, without a second lookup after a forced expiry: a key
\* may get two nodes
ExistsNew(r) ==
  /\ \E n \in Nodes :
       /\ ~Allocated(n)
       /\ node' = [node EXCEPT ![n] = [Unused EXCEPT !.key = ctx[r].key, !.uses = 1, !.count = 1]]
       /\ queue' = <<n>> \o queue
       /\ After(r, "declined", n, Unused)
  /\ UNCHANGED <<conf, size, files, cold, deletes, loader, seen>>

ZoneFull == \A n \in Nodes : Allocated(n)

-----------------------------------------------------------------------------
(* Deleting nodes: ngx_http_file_cache_forced_expire, _expire and _delete *)

FreeNode(n) == node' = [node EXCEPT ![n] = Unused] /\ queue' = Without(n)

\* fcn->count++ and fcn->deleting = 1
Deleting(f) == [f EXCEPT !.count = @ + 1, !.deleting = TRUE]

\* ngx_http_file_cache_delete up to the deletion of the file, which is outside of the mutex
Delete(p, n) ==
  IF node[n].exists
  THEN /\ size' = size - node[n].fs
       /\ node' = [node EXCEPT ![n] = Deleting(@)]
       /\ deletes' = [deletes EXCEPT ![p] = [@ EXCEPT !.node = n]]
       /\ UNCHANGED queue
  ELSE FreeNode(n) /\ UNCHANGED <<size, deletes>>

\* the last node of the queue that nobody uses
UnusedLast ==
  LET free == {i \in DOMAIN queue : node[queue[i]].count = 0}
  IN  {i \in free : \A j \in free : j <= i}

\* ngx_http_file_cache_forced_expire
ForcedExpire(p) ==
  IF UnusedLast = {} THEN UNCHANGED <<node, queue, size, deletes>>
                     ELSE \E i \in UnusedLast : Delete(p, queue[i])

\* ngx_delete_file
DeleteFile(p) ==
  /\ deletes[p].node # NoNode /\ ~deletes[p].gone
  /\ files' = files \ {node[deletes[p].node].key}
  /\ deletes' = [deletes EXCEPT ![p] = [@ EXCEPT !.gone = TRUE]]
  /\ UNCHANGED <<conf, node, queue, size, cold, ctx, loader, seen>>

\* fcn->count-- and fcn->deleting = 0
Deleted(f) == [f EXCEPT !.count = @ - 1, !.deleting = FALSE]

\* the rest of ngx_http_file_cache_delete: the node stays if a request has come meanwhile
DeleteEnd(p) ==
  /\ deletes[p].gone
  /\ LET n == deletes[p].node IN
       IF node[n].count = 1
       THEN FreeNode(n)
       ELSE /\ node' = [node EXCEPT ![n] = Deleted(@)]
            /\ UNCHANGED queue
  /\ deletes' = [deletes EXCEPT ![p] = NoDelete]
  /\ UNCHANGED <<conf, size, files, cold, ctx, loader, seen>>

\* ngx_http_file_cache_expire, for the last node, whose time is over
Expire ==
  /\ deletes[Manager] = NoDelete /\ queue # <<>>
  /\ LET n == Last(queue) IN
       \/ /\ node[n].count = 0
          /\ Delete(Manager, n)
       \/ /\ node[n].count # 0 /\ ~node[n].deleting
          /\ queue' = ToHead(n)
          /\ UNCHANGED <<node, size, deletes>>
  /\ UNCHANGED <<conf, files, cold, ctx, loader, seen>>

\* ngx_http_file_cache_manager
Shrink ==
  /\ deletes[Manager] = NoDelete /\ size >= MaxSize
  /\ ForcedExpire(Manager)
  /\ UNCHANGED <<conf, files, cold, ctx, loader, seen>>

-----------------------------------------------------------------------------
(* Requests: ngx_http_upstream_cache, ngx_http_file_cache_open, _read, _update and _free *)

Step(r, pc) == ctx' = [ctx EXCEPT ![r] = [@ EXCEPT !.pc = pc]]

\* a request for the key comes, or bypasses the cache and has been answered
Start(r) ==
  /\ ctx[r].pc = "idle" /\ seen.starts < conf.starts
  /\ seen' = [seen EXCEPT !.starts = @ + 1]
  /\ \E k \in Keys, b \in BOOLEAN :
       ctx' = [ctx EXCEPT ![r] = [IdleCtx EXCEPT !.pc = "exists", !.key = k, !.bypass = b]]
  /\ UNCHANGED <<conf, node, queue, size, files, cold, deletes, loader>>

\* ngx_http_file_cache_exists, with room in the zone or after a forced expiry
Exists(r) ==
  \/ /\ ctx[r].pc = "exists" /\ \E n \in Nodes : ExistsFound(r, n)
  \/ /\ ctx[r].pc = "exists" /\ Lookup(ctx[r].key) = {} /\ ~ZoneFull
     /\ ExistsNew(r)
  \/ /\ ctx[r].pc = "exists" /\ Lookup(ctx[r].key) = {} /\ ZoneFull
     /\ Step(r, "forced")
     /\ ForcedExpire(r)
     /\ UNCHANGED <<conf, files, cold, loader, seen>>
  \/ /\ ctx[r].pc = "forced" /\ deletes[r] = NoDelete /\ ~ZoneFull
     /\ ExistsNew(r)
  \/ /\ ctx[r].pc = "forced" /\ deletes[r] = NoDelete /\ ZoneFull
     /\ ctx' = [ctx EXCEPT ![r] = IdleCtx]          \* NGX_ERROR
     /\ UNCHANGED <<conf, node, queue, size, files, cold, deletes, loader, seen>>

\* The rest of ngx_http_file_cache_open: a file is looked for if the node has one, or if the
\* cache is cold.
Open(r) ==
  /\ ctx[r].pc \in {"open", "opennew"}
  /\ LET new  == ctx[r].pc = "opennew"
         test == IF new THEN cold ELSE ctx[r].exists
     IN ctx' = [ctx EXCEPT ![r] = [@ EXCEPT !.pc = IF test /\ ctx[r].key \in files THEN "read" ELSE "fetch",
                                            !.scarce = new /\ conf.min > 1]]
  /\ UNCHANGED <<conf, node, queue, size, files, cold, deletes, loader, seen>>

\* a node of a cold cache gets the file that was found
Learns(f) == ~f.exists

\* ngx_http_file_cache_read, with its first critical section
Read(r) ==
  /\ ctx[r].pc = "read"
  /\ LET n == ctx[r].node IN
       IF cold /\ Learns(node[n])
       THEN /\ node' = [node EXCEPT ![n] = [@ EXCEPT !.uses = 1, !.exists = TRUE, !.fs = 1]]
            /\ size' = size + 1
       ELSE UNCHANGED <<node, size>>
  /\ Step(r, "validate")
  /\ UNCHANGED <<conf, queue, files, cold, deletes, loader, seen>>

\* the second one: the file is valid, or one request takes it on itself to update it
Validate(r) ==
  /\ ctx[r].pc = "validate"
  /\ LET n == ctx[r].node IN
       \/ Step(r, "serve") /\ UNCHANGED node
       \/ /\ node[n].updating
          /\ ctx' = [ctx EXCEPT ![r] = [@ EXCEPT !.pc = IF conf.stale THEN "serve" ELSE "fetch", !.scarce = FALSE]]
          /\ UNCHANGED node
       \/ /\ ~node[n].updating
          /\ node' = [node EXCEPT ![n] = [@ EXCEPT !.updating = TRUE]]
          /\ ctx' = [ctx EXCEPT ![r] = [@ EXCEPT !.updating = TRUE, !.pc = "fetch", !.scarce = FALSE]]
  /\ UNCHANGED <<conf, queue, size, files, cold, deletes, loader, seen>>

\* The upstream has answered and the temporary file becomes the cache file:
\* ngx_http_file_cache_update before it locks the zone.
Rename(r) ==
  /\ ctx[r].pc = "fetch" /\ ~ctx[r].scarce
  /\ \E ok \in IF conf.faults THEN BOOLEAN ELSE {TRUE} :
       /\ files' = IF ok THEN files \cup {ctx[r].key} ELSE files
       /\ ctx' = [ctx EXCEPT ![r] = [@ EXCEPT !.pc = "update", !.renamed = ok, !.updating = FALSE]]
       /\ seen' = [seen EXCEPT !.unrenamed = @ \/ ~ok]
  /\ UNCHANGED <<conf, node, queue, size, cold, deletes, loader>>

\* fs_size - c->node->fs_size
Growth(f, fs) == fs - f.fs

\* the node then
Updated(f, fs, ok) == [f EXCEPT !.count = @ - 1, !.fs = fs, !.updating = FALSE, !.exists = @ \/ ok]

\* its critical section
Update(r) ==
  /\ ctx[r].pc = "update"
  /\ LET n  == ctx[r].node
         fs == IF ctx[r].renamed THEN 1 ELSE 0
     IN /\ size' = size + Growth(node[n], fs)
        /\ node' = [node EXCEPT ![n] = Updated(@, fs, ctx[r].renamed)]
  /\ ctx' = [ctx EXCEPT ![r] = IdleCtx]
  /\ UNCHANGED <<conf, queue, files, cold, deletes, loader, seen>>

\* only the request that updates the node clears the flag
Updating(r, f) == f.updating /\ ~ctx[r].updating

\* mutant: the node goes with its last request
DisposableAny(f) == f.count = 0

\* nobody needs the node any more
Disposable(f) == ~f.exists /\ f.count = 0 /\ conf.min = 1

\* ngx_http_file_cache_free: the response was sent from the file, is not to be cached, or the
\* upstream failed; an error that is cached stays, or comes back, in the node
Free(r) ==
  /\ ctx[r].pc \in {"serve", "fetch"}
  /\ LET n == ctx[r].node
         f == [node[n] EXCEPT !.count = @ - 1, !.updating = Updating(r, node[n])]
     IN \/ /\ ctx[r].error \/ (ctx[r].pc = "fetch" /\ conf.faults /\ ~ctx[r].scarce)
           /\ node' = [node EXCEPT ![n] = [f EXCEPT !.error = TRUE]]
           /\ UNCHANGED queue
        \/ /\ ~ctx[r].error
           /\ IF Disposable(f)
              THEN FreeNode(n)
              ELSE node' = [node EXCEPT ![n] = f] /\ UNCHANGED queue
  /\ ctx' = [ctx EXCEPT ![r] = IdleCtx]
  /\ UNCHANGED <<conf, size, files, cold, deletes, loader, seen>>

\* A worker dies: neither ngx_http_file_cache_cleanup() nor the rest of a deletion runs.
Die(r) ==
  /\ ctx[r].pc # "idle" /\ seen.deaths < conf.deaths
  /\ LET n == IF ctx[r].node # NoNode THEN ctx[r].node ELSE deletes[r].node
     IN  seen' = [seen EXCEPT !.deaths = @ + 1, !.died = [seen.died EXCEPT ![n] = @ + 1]]
  /\ ctx' = [ctx EXCEPT ![r] = IdleCtx]
  /\ deletes' = [deletes EXCEPT ![r] = NoDelete]
  /\ UNCHANGED <<conf, node, queue, size, files, cold, loader>>

-----------------------------------------------------------------------------
(* The cache loader *)

\* ngx_http_file_cache_add for the next file of the tree walk
LoaderAdd ==
  /\ cold /\ loader.at = NoKey
  /\ \E k \in loader.left :
       /\ \/ \E n \in Lookup(k) :
               /\ queue' = ToHead(n)
               /\ loader' = [loader EXCEPT !.left = @ \ {k}]
               /\ UNCHANGED <<node, size>>
          \/ \E n \in Nodes :
               /\ Lookup(k) = {} /\ ~Allocated(n)
               /\ node' = [node EXCEPT ![n] = [Unused EXCEPT !.key = k, !.uses = 1, !.exists = TRUE, !.fs = 1]]
               /\ queue' = <<n>> \o queue
               /\ size' = size + 1
               /\ loader' = [loader EXCEPT !.left = @ \ {k}]
          \/ /\ Lookup(k) = {} /\ ZoneFull
             /\ loader' = [left |-> loader.left \ {k}, at |-> k]
             /\ UNCHANGED <<node, queue, size>>
  /\ UNCHANGED <<conf, files, cold, ctx, deletes, seen>>

\* ngx_http_file_cache_delete_file: there is no room for a node
LoaderDelete ==
  /\ loader.at # NoKey
  /\ files' = files \ {loader.at}
  /\ loader' = [loader EXCEPT !.at = NoKey]
  /\ UNCHANGED <<conf, node, queue, size, cold, ctx, deletes, seen>>

LoaderEnd ==
  /\ cold /\ loader.left = {} /\ loader.at = NoKey
  /\ cold' = FALSE
  /\ UNCHANGED <<conf, node, queue, size, files, ctx, deletes, loader, seen>>

CacheNext ==
  \/ \E r \in CacheRequests :
       Start(r) \/ Exists(r) \/ Open(r) \/ Read(r) \/ Validate(r) \/ Rename(r) \/ Update(r)
       \/ Free(r) \/ Die(r)
  \/ \E p \in Processes : DeleteFile(p) \/ DeleteEnd(p)
  \/ Expire \/ Shrink \/ LoaderAdd \/ LoaderDelete \/ LoaderEnd

CacheSpec == CacheInit /\ [][CacheNext]_cacheVars

-----------------------------------------------------------------------------
(* Properties *)

Holders(n) == {r \in CacheRequests : ctx[r].node = n}
Deleters(n) == {p \in Processes : deletes[p].node = n}

\* The types of the nodes; the queue holds every allocated node once.
CacheTypeOK ==
  /\ \A n \in Nodes : node[n].key \in Keys \cup {NoKey} /\ node[n].count \in Nat
  /\ ToSet(queue) = {n \in Nodes : Allocated(n)} /\ Len(queue) = Cardinality(ToSet(queue))
  /\ files \subseteq Keys

\* fcn->count is the number of requests and processes that point to the node, and of those that
\* died with it: no node is freed, and used for another key, under a request.
NodeCounted ==
  \A n \in Nodes :
    /\ Allocated(n) => node[n].count = Cardinality(Holders(n)) + Cardinality(Deleters(n)) + seen.died[n]
    /\ ~Allocated(n) => Holders(n) \cup Deleters(n) = {}

\* A request keeps the node of its own key.
OwnKey == \A r \in CacheRequests : ctx[r].node # NoNode => node[ctx[r].node].key = ctx[r].key

\* fcn->updating means that a request is updating the file, or that one died with the node: an
\* entry never stays stale with everyone waiting for an update that nobody makes.
UpdatingIsOwned ==
  \A n \in Nodes : node[n].updating /\ seen.died[n] = 0 =>
    \E r \in Holders(n) : ctx[r].updating \/ ctx[r].pc = "update"

\* sh->size is the size of the files that the nodes know of, as long as no request came to a
\* node whose file was being deleted, no error was renewed over a file and no rename failed:
\* in these cases the code loses count.  A file that a worker was deleting when it died is no
\* longer counted.
SizeExact ==
  ~(seen.joined \/ seen.renewed \/ seen.unrenamed) =>
    size = Cardinality({n \in Nodes : node[n].exists /\ ~node[n].deleting})

\* Every file that the workers made has a node that will delete it, or a request that has just
\* renamed it; a file renamed while its predecessor was being deleted and an error renewed over
\* a file are the exceptions, and the file of a node that a worker died with, which stays in the
\* zone for good.  (Files that were there before are lost when a request made their nodes and the
\* cache is no longer cold when it looks.)
NoOrphanFile ==
  conf.warm /\ ~(seen.joined \/ seen.renewed) =>
    \A k \in files : \/ \E n \in Lookup(k) : node[n].exists \/ seen.died[n] > 0
                     \/ \E r \in CacheRequests : ctx[r].key = k /\ ctx[r].pc = "update"

\* Counts and flags of the nodes agree with the processes that use them, in spite of the points
\* where the mutex is dropped: no node is freed or given to another key under a request, and an
\* update that is announced is being made.
NodesOwned == CacheTypeOK /\ NodeCounted /\ OwnKey /\ UpdatingIsOwned

\* The shared zone and the disk agree about the files of the cache, with the exceptions of the
\* two parts.
DiskExact == SizeExact /\ NoOrphanFile

=============================================================================
