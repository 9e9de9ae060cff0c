CONSTANTS
  TreeNodes = {1, 2, 3, 4, 5, 6}
  Sentinel = 0
  Word = 16
  KeyOf <- MCKeyOf
  Events = {e1, e2}
  Modulus = 32
  Lazy = 2
  MaxTime = 4
  MaxLag = 1
  Questions = {"a", "b"}
  Aliases <- MCAliases
  Contexts = {x1, x2}
  NoQuestion = NoQuestion
  MaxRecursion = 1
  MaxQueries = 3
  Upstreams <- MCUpstreams
  Proxied = {r1, r2}
  NextUpstream = {"error", "timeout", "http_404"}
  MaxDepth = 4
  Total = 10
  BufSize = 2
  PipeConfs <- MCPipeConfs
SYMMETRY WorkerSymmetry
SPECIFICATION WorkerSpec
INVARIANTS
  TreeSound 
  PeersTried ConversationKept
  PipeFaithful PipeNeverStalls
PROPERTIES TimersInTime
