------------------------------ MODULE MCWorker ------------------------------
(* What a worker runs from its event loop: timers and the tree that holds them,  *)
(* the resolver, upstream servers and the pipe from an upstream to a client, for *)
(* TLC.  They share no state of the models, so that a behaviour moves one of     *)
(* them and the others stand still.                                              *)
EXTENDS Timers, RbTree, Resolver, Upstream, EventPipe, TLC

VARIABLE moving

\* names that are aliases of each other
MCAliases == [q \in Questions |-> Questions \ {q}]

Server(weight, max_fails, down) == [weight |-> weight, max_fails |-> max_fails, down |-> down]
S1 == Server(1, 1, FALSE)
S2 == Server(2, 1, FALSE)

MCUpstreams ==
  {<<<<S1>>, <<>>, 1>>,                          \* one server
   <<<<S2, S1, S1>>, <<>>, 1>>,                  \* weights
   <<<<S2, S1>>, <<S1>>, 1>>,                    \* and a backup server
   <<<<S1>>, <<S1>>, 2>>,                        \* two requests
   <<<<Server(1, 2, FALSE)>>, <<S1>>, 1>>,
   <<<<Server(2, 0, FALSE), Server(1, 1, TRUE)>>, <<>>, 1>>,
   <<<<S1>>, <<S1, Server(1, 1, TRUE)>>, 1>>}

PipeConf(bufs, busy, temp, chunk, postpone, pre, cacheable) ==
  [bufs |-> bufs, busy |-> busy, temp |-> temp, chunk |-> chunk, postpone |-> postpone, pre |-> pre,
   cacheable |-> cacheable]
MCPipeConfs ==
  {PipeConf(3, 2, 0, 2, 0, 0, FALSE), PipeConf(3, 4, 4, 2, 3, 1, FALSE),
   PipeConf(3, 2, 0, 2, 2, 2, TRUE), PipeConf(2, 2, 6, 4, 0, 2, FALSE)}

\* pairs of equal keys, below and above the point where they wrap
MCKeyOf == [n \in TreeNodes |-> (13 + n \div 2) % Word]

WorkerSymmetry == Permutations(Proxied)

workerVars == <<treeVars, timerVars, resolverVars, upstreamVars, pipeVars, moving>>

Moves(part) == moving = part /\ UNCHANGED moving

WorkerInit ==
  /\ TreeInit /\ TimersInit /\ ResolverInit /\ UpstreamInit /\ PipeInit
  /\ moving \in {"tree", "timers", "resolver", "upstream", "pipe"}
  \* of a part that stands still one configuration is enough
  /\ moving # "upstream" => servers[1] = <<S1>> /\ servers[2] = <<>>
  /\ moving # "pipe" => pipeConf.cacheable

WorkerNext ==
  \/ /\ Moves("tree") /\ TreeNext
     /\ UNCHANGED <<timerVars, resolverVars, upstreamVars, pipeVars>>
  \/ /\ Moves("timers") /\ TimersNext
     /\ UNCHANGED <<treeVars, resolverVars, upstreamVars, pipeVars>>
  \/ /\ Moves("resolver") /\ ResolverNext
     /\ UNCHANGED <<treeVars, timerVars, upstreamVars, pipeVars>>
  \/ /\ Moves("upstream") /\ UpstreamNext
     /\ UNCHANGED <<treeVars, timerVars, resolverVars, pipeVars>>
  \/ /\ Moves("pipe") /\ PipeNext
     /\ UNCHANGED <<treeVars, timerVars, resolverVars, upstreamVars>>

\* a pipe that is done may stop, nothing else may
WorkerOver == moving = "pipe" /\ pipe.at = "done" /\ UNCHANGED workerVars

WorkerSpec == WorkerInit /\ [][WorkerNext \/ WorkerOver]_workerVars
=============================================================================
