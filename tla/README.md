# TLA+ verification of nginx-node (nginx 1.0.14, annotated)

This directory keeps TLA+ models of nginx beside its source: the modules that model it, the
configurations with which TLC checks small instances, and theorems that TLAPS proves for all
values of the constants. `PROJECT.json` lists components, runs, mutants, the map from
definitions to source lines, findings, hazards and theorems. Paths below are relative to
`src/src/`.

## 1. The system

nginx is one master process and several worker processes that share listening sockets and a few
memory zones; each worker is a single-threaded event loop.

| part | state | operations | interacts with |
|---|---|---|---|
| master (`os/unix/ngx_process_cycle.c`, `ngx_process.c`, `core/nginx.c`) | `ngx_processes[]`, `ngx_last_process`, the signal flags, `ngx_new_binary`, `live`, `delay`, `sigio` | start, signal and reap children; reload; upgrade and roll back; stop | children by channel messages, signals and `waitpid()`; the operator by signals |
| cycle (`core/ngx_cycle.c`) | old and new cycle: log files, zones, sockets, pid file | build, commit, roll back, reopen | master, all modules |
| shared memory mutex (`core/ngx_shmtx.c`) | a word with a lock bit and a waiter count, a semaphore | trylock, lock, unlock | all processes; every shared zone and the accept mutex |
| slab allocator (`core/ngx_slab.c`) | pages, page runs, chunks with bitmaps | alloc, free | file cache, limit_req, limit_zone |
| event loop (`event/ngx_event.c`, `ngx_event_accept.c`, `modules/ngx_epoll_module.c`) | `ngx_accept_mutex_held`, `ngx_accept_disabled`, registered sockets, posted events | one iteration: mutex, register, wait, accept, unlock, other events, timers | accept mutex, connection pool, the kernel |
| connection pool (`core/ngx_connection.c`) | free list, reusable queue, instance bits | get, free, close, reuse, drain | event loop, HTTP |
| timers (`event/ngx_event_timer.c`, `core/ngx_rbtree.c`) | a tree of deadlines in wrapping milliseconds | add, delete, find, expire | event loop, every handler |
| request reader (`http/ngx_http_request.c`, `ngx_http_request_body.c`) | header buffers of a connection, lines of a request, its body | read, parse, pipeline, take or discard a body | event loop, phases |
| locations and phases (`http/ngx_http.c`, `ngx_http_core_module.c`) | tree of locations, phase table, the request's handler and flags | search, walk, rewrite, error page, named location | modules' handlers |
| HTTP request (`http/ngx_http_request.c`, `ngx_http_core_module.c`, `ngx_http_postpone_filter_module.c`) | `count`, posted and postponed requests, the connection's use | subrequest, finalize, keepalive, lingering close | event loop, upstream, filters |
| upstream (`http/ngx_http_upstream*.c`), event pipe (`event/ngx_event_pipe.c`) | peers' weights and failures; raw, shadow, busy and file buffers | connect, send, read, next, finalize; flow control | HTTP request, resolver |
| resolver (`core/ngx_resolver.c`) | nodes of names, contexts that wait, queues | resolve, answer, resend, expire, time out | upstream, the DNS server |
| file cache (`http/ngx_http_file_cache.c`) | nodes with counts and flags in a zone, files | open, update, free, expire, load | workers, cache manager and loader |
| limit_req, limit_zone (`http/modules/`) | buckets, counters of keys in zones | handler, cleanup, expiry | workers |
| open file cache (`core/ngx_open_file_cache.c`) | entries with descriptors, use counts and close flags | open, retest, expire, vnode event | requests of one worker, the disk |

What makes it hard:

* **Concurrency.** Workers interleave on words in shared memory between a read and the
  compare-and-set that uses it, and on cache nodes while files are renamed and deleted outside of
  the zone's mutex; signals are pending in any combination when the master wakes up.
* **Failure.** Processes are killed inside critical sections and between the two halves of an
  update; system calls fail half way through a loop, a reload at any step.
* **Ordering and staleness.** Flags and pointers computed in one step are used in a later one:
  `ngx_accept_mutex_held`, `live`, `ngx_new_binary`, an event of a connection that was closed since,
  the verdict of a location that was left.
* **Time-outs and late answers.** TERM is repeated until SIGKILL; DNS answers come late or twice; a
  server answers before it has the whole request; clocks of workers differ.
* **Reuse.** Connections, descriptors, addresses, pages, inode numbers, query identifiers and
  buffers are given out again as soon as they are free.

The `hazards` of `PROJECT.json` give the source line of each danger and the properties aimed at it.

## 2. Modules

| module | models |
|---|---|
| `Mutex` | abstract specification: a lock with an owner |
| `ShMtx` | `ngx_shmtx_t` with atomic operations and a semaphore, one step per memory access |
| `AcceptMutex` | worker iterations sharing the listening sockets, load shedding, the pool as counters |
| `EventLoop` | one worker's connections: free list, instance bits, a batch of events, posted events, timers |
| `MasterCycle` | the master process, its process table and its children |
| `Cycle` | `ngx_init_cycle()` beside a running cycle, over descriptors and addresses |
| `Timers` | deadlines in wrapping words, lazily re-armed |
| `RbTree` | insertion and deletion with their balancing |
| `Resolver` | names, aliases, contexts, queries and answers |
| `Upstream` | requests and the round robin balancer with backup servers |
| `EventPipe` | the pipe with its temporary file and both flow controls, and the write filter |
| `HttpRequest` | a request with subrequests, from the content handler to its end |
| `RequestReader` | pipelined requests through header buffers and body buffers |
| `Locations`, `Phases` | the tree of locations; the phase table, its checkers and the ways back |
| `FileCache` | nodes in shared memory and files on disk |
| `LimitReq`, `LimitZone` | the leaky bucket; connections per key |
| `Slab` | pages, runs of pages and chunks |
| `OpenFileCache` | cached descriptors over a disk that changes |
| `MCShMtx`, `MCAcceptMutex`, `MCMasterCycle`, `MCConnections`, `MCWorker`, `MCHttp`, `MCZones` | instances for TLC |
| `ShMtxProofs`, `ConnectionProofs`, `MasterProofs`, `LoopProofs`, `HttpProofs`, `CacheProofs`, `ZoneProofs` | the theorems (section 5) |
| `SequenceLemmas` | what the proofs keep needing of queues and lists |

Operators whose comment starts with *mutant* are wrong variants of the definition that follows
them; `PROJECT.json` names the property that detects each. They are used by nothing else.

Variables called *history* in a module record what the code does not: who owns a lock, what a
client was sent, how often a connection was taken. Where an action reads one, it is to stay within
a bound.

**Processes.** In `ShMtx`, `word` is `*mtx->lock`, `sem` the semaphore and `val` what each process
read last; `LockRead`, `Cas`, `WaitRead`, `WaitCas`, `SemWait`, `UnlockRead`, `UnlockCas`, `SemPost`
are the single accesses in the three functions, and a process may be killed anywhere. In
`AcceptMutex` each worker walks through `ngx_process_events_and_timers`: trylock or skip, register,
wait, accept, unlock, other handlers, flags; trylock and unlock are atomic there, which `ShMtx`
justifies, since the accept mutex is never waited for. `Reap` is the master's SIGCHLD handler with
the respawn. In `MasterCycle` the table is one function per field of `ngx_process_t`; `Wake` is the
return of `sigsuspend()` with all handlers run, `Reap*` handle one slot per step, and the decisions
after a wake-up exclude each other in the order of the code's if-statements, which is exact because
no flag is set from outside between two suspends. Assumed: the master is daemonised, the kernel does
not reuse a pid that a slot still names, and a write on an open channel or a kill() reaches the
child. In `Cycle` the kernel gives out the lowest free descriptor and address, so that one closed or
unmapped too early is soon somebody else's; each file, zone and socket is a step that may fail.

**The loop of a worker.** `EventLoop` handles a batch in any order; a handler is a sequence of
`Handler*` actions (open, close, keep alive, drain, post). `Timers` has the words of the machine and
beside them the real time left. `RbTree` has one step for the change of the binary tree and one per
iteration of the balancing loops. In `Resolver` a handler is one action, answers are on their way
until they come, and names are shared between contexts as in the code: a context whose name was
freed keeps `FreedName`. `Upstream` has the state of the balancer per request and lets no other
request move while a handler runs. `EventPipe` has real bytes in its buffers: one that is filled
again too early shows in what the client gets.

**Requests.** In `HttpRequest` the C functions are on a stack of calls, each one action; events come
in when it is empty. `RequestReader` has the stream of a client as places whose meaning to the parser the configuration gives, buffers with `pos` and
`last`, and lines as pointers into them. `Locations` builds the tree and searches it as the code
does; `Phases` builds the table of `ngx_http_init_phase_handlers()` and walks it.

**Shared memory.** An action of `FileCache` lies between two points where a process lets the others
go on: a critical section or a system call. Handlers of `LimitReq` and `LimitZone`, and calls of
`Slab`, hold the mutex of the zone and are one action each. The three ways in which the slab allocator
keeps a bitmap are one in `Slab`, with a number of chunks given up for it. `OpenFileCache` is of one
worker; the disk changes and inode numbers return under it.

## 3. Runs

Bounds are the `Max...` constants and those marked *bound* in a module. A run of several parts is a
sum: `moving` is chosen at the start, and one part moves while the others stand still. The parts
share no state of the models, so a product would add nothing but states.

| run | instance | shows |
|---|---|---|
| `shmtx` | 3 processes, 1 spin round, 2 faults | exclusion by refinement of `Mutex`, waiter accounting, no stranded sleeper, somebody always gets the lock |
| `connections` | accept: 2 workers, 2 sockets, 5 connections, multi_accept, a killed worker; loop: 2 connections and a listening one taken 5 times; cycle: 4 configurations, 3 reloads, 9 descriptors and addresses; reader: 3 pipelined requests in buffers that hold less than a header; locations: up to 3 with nested ones; phases: 3 sites | accepting under the mutex, no event of a closed connection, exact descriptors after failed reloads, headers and bodies whole, the right location, no way around its access checks |
| `accept_full` | 2 workers, 2 sockets, 8 connections, a failing epoll_ctl(), a killed worker | connections add up; the mutex is released every iteration; nobody sleeps deaf |
| `accept_live` | 2 workers, 1 socket, 8 connections, 2 clients | clients are served |
| `master_reload` | 2 workers, 4 slots, 2 signals, a death | one generation of at most worker_processes, the master last |
| `master_upgrade` | worker, manager and loader in a table of 3 slots, 2 signals, 2 deaths, a failing fork | table and kernel agree, upgrades tracked, no fork when stopping |
| `master_live` | 1 worker, 3 slots, 2 signals, 2 deaths | TERM ends the master even if children ignore it; workers are restored |
| `worker_loop` | tree: 6 nodes, keys modulo 16; 2 timers modulo 32; resolver: 2 names, 2 contexts, 3 queries; upstream: 7 configurations, 2 requests; pipe: 10 bytes in buffers of 2, 4 configurations | timers in time, tree sound, contexts where they will be found, servers tried once, one conversation with a timer, the reply unchanged, no stall |
| `http_request` | 2 subrequests, 2 pieces each, 1 partial send, 5 worlds of what may happen | count exact, output in document order, every request ends |
| `shared_zones` | cache: 2 keys, 2 nodes, 2 requests, 4 configurations; bucket: rate 2, burst 4, unit 3, skew 1; 3 clients; slab of 3 pages, 2 classes; open files: 2 names, 3 entries, 3 configurations | what several workers keep in shared memory, workers that die included, and open files never closed under a request |
| `accept_foreign_unlock`, `http_discard_count` | the smallest instance that shows it | the findings of section 4 |

Why the bounds are enough. Three processes are a holder or unlocker that owes a post, a sleeper and
a newcomer. Two workers make every race about the accept mutex, which is between the one that has it
and another; eight connections are the least for which load shedding starts (`connection_n / 8`), five
the least that serve clients with two sockets and a channel. Two signals give each pair of requests
to the master in any order and position, and one death can fall between any two steps. Five takes
are enough to reuse a connection twice within a batch. Six nodes make trees of three levels, so that
insertions and deletions balance more than once on their way up. Two keys and two nodes make each request meet a node that is held, deleted or expired
by force; three pages let a run be split and its neighbours freed in both orders. Each mutant of
`PROJECT.json` is found within the bounds of its run. Deadlock is not checked where the system
may stop (owner dead, workers gone, master exited, request ended). Processes, pids, keys and nodes
are interchangeable, hence the symmetry in runs of safety properties; runs with liveness use none.

**Fairness.** `ShMtx`: each process inside the three functions, or holding the lock, is scheduled
(callers unlock in the function that locks). `AcceptMutex`: each worker's loop proceeds, as
epoll_wait() returns on readiness or time-out, and the master reaps; no other event need occur.
`MasterCycle`: the master proceeds and SIGALRM comes; no child need ever react. `HttpRequest`: calls
return; a client's socket that is armed for writing becomes writable or its timer expires, again
and again (strong fairness, since a write may be partial); the timer of a discarded body and of a
lingering close expires, and each upstream answers or times out.

## 4. Findings

Each is a run with `expect: violation` whose property is what the code says of itself.

1. `accept_foreign_unlock` - a worker that skips the mutex because of `ngx_accept_disabled` still has
   `ngx_accept_mutex_held` set and clears somebody else's lock (`event/ngx_event.c:257`).
2. `http_discard_count` - `ngx_http_subrequest()` copies `discard_body`
   (`http/ngx_http_core_module.c:2449`), so that a subrequest that waits for its upstream gives back a
   count which it never took: the main request closes with a count of zero, what
   `ngx_http_close_request()` treats as impossible (`http/ngx_http_request.c:2941`).

Seen while modelling and proving; each is an exception that a property names, a hypothesis of a
theorem, or an assumption of a module:

* **Master.** The recovery of the accept mutex compares the word with a pid, but the word holds
  0x80000000 (`ngx_process.c:542`). Workers started by HUP during an upgrade are not counted as live,
  so that QUIT makes the master exit at once (`ngx_process_cycle.c:250`), and they run beside those
  that still serve; when no process could be forked at start-up TERM and QUIT have no effect
  (`:148`). A worker whose respawn failed is started again although a reload has replaced it. A failed
  USR2 leaves -1 in `ngx_new_binary`, after which HUP starts workers and loads nothing (`:301`). The
  reap loop announces a closed channel as an opened one after a respawn in the same loop (`:666`),
  and a channel message that could not be written is not written again (`:482`).
* **Workers.** The instance bit tells one reuse of a connection from none, but not two. A worker that
  sheds load, or whose `epoll_ctl()` failed on its second socket, accepts without the mutex.
* **Reload.** A reload that fails after it resized a zone, or moved the pid file, leaves the running
  cycle without them, and leaks the zones it allocated; a later reload with the old size takes over
  an address that is not mapped. `ngx_cycle.c:553` looks up the backlog with the wrong index. An
  address that both http and mail listen on inherits one descriptor twice (excluded by
  `CycleAssumption`).
* **Requests.** A redirect to a location with a trailing slash is missed when another name goes on
  with a character below the slash. One large buffer refuses a short pipelined request. With
  `client_body_buffer_size` below 4 its quarter is zero (`http/ngx_http_request_body.c:190`): a rest of
  just that size gets no file, and a body asked for in one buffer loses what came with the header. Under
  `satisfy any` the verdict of a failed location stays in the request, a rewrite followed by a named
  error page leaves `uri_changed` set, and the slot after the access phase is counted without access
  modules. `ngx_http_subrequest()` gives back what it took from `r->subrequests` as soon as the
  subrequest has been made (`http/ngx_http_core_module.c:2459`), so that nothing bounds the subrequests
  at a time, and `r->main->count` has eight bits.
* **Upstream.** A failing server that is passed over is counted again ("no live upstreams" while one
  lives); a backup server that is down keeps its weight ("stuck"); when the last main server is chosen
  its tries are those of the backup servers. A server that answers early leaves the write timer, which
  may ask the next server after the header was sent.
* **Event pipe.** The check of the busy size and its message differ; data in `p->in` is dropped on an
  error of the upstream; a partially sent file buffer is not pushed on by a write event.
* **Resolver.** A CNAME answered to several contexts loses or misnames all but the first; contexts
  that join a query get no timer; a node whose query could not be sent is in no queue. A context that
  followed a CNAME goes by the name that the node of the CNAME owns (`core/ngx_resolver.c:439`,
  `:1383`): when that node expires (`:480`), also for the only context there is, its name is freed, and
  `ngx_resolve_name_done()` (`:324`) no longer finds the list that it is on. Until its answer comes it is
  on one list still; when it is given up before, the list keeps a freed context.
* **File cache.** Size and files disagree when a request joins a node that is being deleted, when an
  error is renewed over a file and when a rename fails; a file renamed during the deletion of its
  node is left to nobody, as are files met by a request between the loader's end and its lookup; a
  worker that dies leaves its count, and perhaps its updating flag.
* **limit_req, limit_zone, slab.** Long keys are never found again; a clock that lags drains the
  bucket; a rate of zero is possible; counts of dead workers stay; free runs of pages are not joined.
* **Open file cache.** With vnode events (kqueue only) an entry may be taken out of the tree twice.
* **SSL session cache** (not modelled): the length is read after the unlock
  (`event/ngx_event_openssl.c:1816`).

## 5. Proofs

All theorems hold for every value of the constants that the named ASSUMEs of the modules allow: any
number of processes, slots, connections, names, nodes, keys, pages, signals, faults and deaths. Each
is an inductive invariant, proved to hold at first, to be kept by each action (one lemma or step per
action) and to imply the property.

**ShMtxProofs.** `TypeCorrect`; `MutexSafe`, from `MutexInv`: exclusion is inductive only with
`ValOK`, that a compare-and-set to the locked value starts from an unlocked `val` and an unlocking
one from a locked one. `Refinement`: every step is a step of `Mutex` or a stutter under the mapping
`Owner`. `Accounting`: the sum of waiters, tokens and owed posts changes by the same amount on both
sides. `NoLostWakeup`, from `Handover`: a free lock with waiters has somebody awake who will take
and release it.

**ConnectionProofs.** Of the accept mutex: `TypeCorrect`; `ConnSafe`; `NoDeafWorker`, from `RegOK`
(belief in holding the mutex, load shedding and sleeping without a time-out all imply registered
sockets); `MutexReleased`, from `OwnOK` (an owner past the registration has `held` set and so
unlocks); `SmallPoolOwnerReleases`, from `SmallOK`: below eight connections no worker skips the
mutex and who believes to hold it owns it; `AcceptExclusive`, with `ActOK`: without epoll_ctl()
errors sockets are registered only by a worker that believes to hold the mutex. Both hypotheses are
needed: finding 1 is what happens without the first, and a socket that stays registered without the
second. Of the phases: `PhasesCorrect`, from `PhasesInv`. `Tabled` says what the table holds at each
index (`EngineOutlined`: the handlers of a phase lie side by side, in the order of the phases, and
`next` leads behind them); it follows from one lemma per phase appended, since a fold has no
induction here. `FitsPlace` says of the request what each place has made sure of: the changes of the
URI that are left bound the locations still to be entered, as many verdicts were heard as handlers
of the access phase lie behind it, and behind the search for a location the content handler is of
that location or none. Of the request reader: `HeadersCorrect` and `BodiesCorrect`, from
`ReaderInv`, for any stream of requests one behind the other (`ReaderAssumption`; where a request
begins and how long its header is, is data of the stream) and any sizes and numbers of buffers.
`HeadersIntact` is not inductive: that no byte is skipped needs the bytes of an incomplete line to
lie before `pos` in `header_in` (`StreamOK`), which is what moves into the next buffer; that a large
buffer may be given out needs those in use and those that are free to be apart, and those not in use
to be empty (`ListsOK`); that a short header is not refused needs a second large buffer to hold
nothing but bytes of that header (`PlaceOK`). `BodyOK` says of a body that is being read which bytes
are in the file, in the buffer and in `header_in`. `BodiesCorrect` has one hypothesis: where a body
is asked for in a single buffer, `client_body_buffer_size` is at least 4 (section 4 says what
happens below).

**MasterProofs.** `TypeCorrect`; `TableSafe`: the three parts of `TableAgrees` are inductive only
together (a slot may be freed because *exited* means waited for, a pid is found because slots are
distinct). `StopForksNone`, from `StopInv`. `MasterLast`, without USR2, from `LiveInv`: `live = 0`
means that no slot has a running child, while reaping for the slots already passed, elsewhere for
all. `UpgradeTracked`, from `TrackInv`: USR2 is heard only while no new binary runs, and a detached
process is never respawned. `GenerationCurrent`, from `GenInv`: *exiting* means told so, and
`just_spawn` protects only the processes of the reload that is going on. `ReloadExact`, without USR2
and failing forks, from `CountInv`: in the start loop the new workers are those it has passed,
outside of it the slots that were not told to leave are at most worker_processes.

**LoopProofs.** `ConnectionsKept`, from `LoopInv`: the instance bit is the parity of how often a
connection was taken, an entry of the batch is about an earlier socket or the present one, and the
present one while events are posted. `TimersKept`, from `TimersInv` and lemmas about differences of
words that wrap: the signed difference is exact within half of the words, and a lazily re-armed
timer is off by less than the laziness. `OneConversation`, from `ConversationInv`: a request whose
whole is with the server has no write timer, and one whose header was sent has the handlers of the
body. `WaitersKept`, from `ResolverInv`: `Books` says of nodes and contexts that each context is on
one list, of its name's node, or of any one node when its name was freed, and that nodes with
contexts are never in the queue that frees them; chains of CNAMEs are followed by induction on the
recursion that is left (a least counterexample). `Mishap` says who the exceptions are, each for what
happened to it: the contexts that a CNAME left behind the first one or for whose alias no query
could be sent (`astray`), and those finished after their name was freed (`left`), be there one
context or several; a node whose resend failed has a queue value of its own. Everything else about
them, and all of it about the others, is proved without a condition.

**HttpProofs.** `RequestKept`, from `RequestInv`. The calls on the stack have one shape: one that
works, closes or terminates, some owed calls with NGX_DONE, the loop over posted requests (`Shape`).
The count is the requests that are not done, the handler that discards the body and the calls that
owe one (`CountOK`). That nobody gives back the last one too early needs to know who is done and who
may still finish, and so the tree (`TreeOK`: from the main request a path of first places in the
postponed lists leads to the active request, every other live subrequest is in the list of its
parent, and parents outlive their subrequests) and the handlers (`HandlersOK`). After
`ngx_http_terminate_request()` the count is no longer exact; `TerminatedOK` says why it suffices:
its handler is the first that is posted, no upstream is left, and the calls that may come before it
return a count each and leave one. `RequestKeptUntilCopied` has two hypotheses. `BodyNotCopied`,
that no subrequest has copied `discard_body`: finding 2 is what happens without it, and TLC also
shows a function run for a freed request where such a subrequest meets an error;
`RequestKeptWhenApart` derives it for requests that do not both make subrequests and discard a body.
And `MaxSubs + MaxUri + 4 <= 255`, that the count does not wrap (section 4).

**CacheProofs.** `NodesKept`, from `OwnedInv`: a node's count is its holders, deleters and the
pointers of dead workers, and the queue is exactly the allocated nodes; an updating flag is a live
request's, but for nodes that a worker died with. `DiskKept`, from `DiskInv`: a node whose file is
being deleted is in nobody else's hands, and stays so when the worker that deletes it dies; each
file has a node that will delete it, or that a worker died with, or an update about to announce it;
the size is the sum over the files that nobody began to delete. `HandlesKept`, from `FilesInv`,
which the steps of `OpenFileCache` keep although they break it on the way: `Sound` says it of a
cache with one descriptor that has no entry yet (`loose`), one entry that is out of the queue while
it is looked at (`away`) and one out of the tree that perhaps nobody uses any more (`odd`), and each
lemma is about one of these exceptions coming or going. That open() finds a free descriptor is the
pigeonhole principle: each open one has an entry of its own. `FreshServed`, from `FreshInv`: an open
entry is *honest* - its file has a name or lost it no earlier than the entry was tested, and where
the entry relies on its event, the event is there and the kernel has spoken if the name is gone.

**ZoneProofs.** `MemoryKept`, from `SlabInv`: the areas that callers have and the free runs tile the
zone, and a page's bitmap is its own chunks and those of the callers. `CycleKept`, from `CycleInv`:
while a cycle is built, each open descriptor belongs to the running cycle, the one being built or
both, where it was taken over; what was done so far (`Progress`) says which; the zones of both lie
apart, unless one was resized, and the pid file is there, unless it was moved. `ConnCharged`, from
`ConnInv`: a key is charged for the live requests that counted themselves and for the dead.
`BucketsKept`, from `LimitInv`: in integers, what a key owes is never more than its bucket says plus
what the node's rounding and the clock's skew forgave (`Owes`).

**SequenceLemmas.** What taking an element out of a queue, or putting one at its head or tail, does
to its places, its elements and its injectivity; how lists are joined and flattened.

`TypeCorrect` (twice), `MutexSafe`, `Refinement` and `GenerationCurrent` state what no run has as a
property of its own: the runs check the refinement as `RefinesMutex`, and `WorkersCurrent` contains
one generation.

**Only model-checked.** Liveness: `LockProgress`, `Served`, `TermExits`, `WorkersRestored`,
`RequestEnds`; the prover handles neither fairness nor ENABLED. `TreeSound` and `LocationFound`:
their modules define trees recursively, and what a recursive operator computes for every input needs
an induction over data that the prover cannot instantiate. `PeersTried`, `PipeFaithful`,
`PipeNeverStalls` and `OutputFaithful` are not proved yet (section 7).

## 6. What is not modelled

`PROJECT.json` gives the reason per component. In the modelled parts: the fcntl() variant of the
mutex, other event methods, threads, accept_mutex off; command line, daemonisation, single-process
mode, the sockets a new binary inherits, unix domain sockets, the old cycles kept for connections;
what other workers do with announced channels; file AIO, post_action, limit_rate, unbuffered
proxying, storing, ip_hash, SSL sessions of peers; the characters of header lines and of file headers;
the choice of the server and script variables.

Not modelled at all, in the order in which they would be worth it: the mail proxy's sessions (POP3,
IMAP and SMTP as protocol automata over the same event loop), the SSL session cache in a shared zone,
the time slots that a signal handler reads, the channels between workers. Content, access and filter
modules, the configuration, the HTTP parser, pools, strings and logging are sequential code that
tests reach better.

## 7. Plan

1. `PeersTried`, `PipeFaithful`, `PipeNeverStalls` - the search over the peers; who has each raw buffer
   of the pipe.
2. `OutputFaithful` - the pieces still to come, as leaves of the tree that `TreeOK` describes.
3. Mail sessions.
