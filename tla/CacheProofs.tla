----------------------------- MODULE CacheProofs -----------------------------
(***************************************************************************)
(* Proofs about the caches: the HTTP file cache, for any number of         *)
(* requests, keys and nodes, any configuration, and any number of workers  *)
(* that die; and the cache of open files of a worker, for any number of    *)
(* names, files, requests and entries.                                     *)
(***************************************************************************)
EXTENDS FileCache, OpenFileCache, SequenceLemmas

-----------------------------------------------------------------------------
(* The inductive invariant *)

NodeType ==
  [key : Keys \cup {NoKey}, uses : Nat, count : Int, exists : BOOLEAN, updating : BOOLEAN,
   deleting : BOOLEAN, error : BOOLEAN, fs : Int]

\* where a request has no node, and where it has one
Away == {"idle", "exists", "forced"}
Held == {"open", "opennew", "fetch", "read", "validate", "serve", "update"}

CtxType ==
  [pc : Away \cup Held, key : Keys \cup {NoKey}, node : Nodes \cup {NoNode}, bypass : BOOLEAN,
   exists : BOOLEAN, error : BOOLEAN, scarce : BOOLEAN, updating : BOOLEAN, renamed : BOOLEAN]

SeenType ==
  [starts : Nat, deaths : Nat, died : [Nodes \cup {NoNode} -> Nat],
   joined : BOOLEAN, renewed : BOOLEAN, unrenamed : BOOLEAN]

CacheTypes ==
  /\ conf \in CacheConfs
  /\ node \in [Nodes -> NodeType]
  /\ ctx \in [CacheRequests -> CtxType]
  /\ deletes \in [Processes -> [node : Nodes \cup {NoNode}, gone : BOOLEAN]]
  /\ seen \in SeenType
  /\ size \in Int /\ cold \in BOOLEAN
  /\ files \subseteq Keys /\ loader.left \subseteq Keys /\ loader.at \in Keys \cup {NoKey}
  /\ loader = [left |-> loader.left, at |-> loader.at]

\* Who has a node, and who deletes a file.
Places ==
  /\ \A r \in CacheRequests :
       /\ ctx[r].node = NoNode <=> ctx[r].pc \in Away
       /\ ctx[r].pc # "idle" => ctx[r].key \in Keys
       /\ deletes[r].node # NoNode => ctx[r].pc = "forced"
  /\ \A p \in Processes : deletes[p].gone => deletes[p].node # NoNode

\* The queue is a list of the allocated nodes; a free node keeps nothing of its past.
QueueOK ==
  /\ queue \in Seq(Nodes) /\ IsInjective(queue)
  /\ ToSet(queue) = {n \in Nodes : Allocated(n)}
  /\ \A n \in Nodes : ~Allocated(n) => node[n] = Unused

\* The count of every node, the free ones included.
Pointers(n) == Cardinality(Holders(n)) + Cardinality(Deleters(n)) + seen.died[n]
Counted == \A n \in Nodes : node[n].count = Pointers(n)

OwnedInv == CacheTypes /\ Places /\ QueueOK /\ Counted /\ OwnKey /\ UpdatingIsOwned

\* A node whose file is being deleted is in nobody else's hands until a request joins it, and stays
\* so when the worker that deletes the file dies.
DeletedAlone ==
  ~seen.joined =>
    \A n \in Nodes :
      /\ node[n].deleting => Holders(n) = {} /\ node[n].count # 0
      /\ Deleters(n) # {} => node[n].deleting /\ node[n].count = 1

\* The size that a node accounts for, and what a request about to update it knows.
FsOK ==
  ~seen.unrenamed =>
    /\ \A n \in Nodes : node[n].fs = IF node[n].exists THEN 1 ELSE 0
    /\ \A r \in CacheRequests : ctx[r].pc = "update" => ctx[r].renamed

\* A file has a node whose deletion, if any, is still to come, or one that a worker died with.
Covers(n, k) ==
  /\ node[n].key = k
  /\ seen.died[n] > 0 \/ (node[n].exists /\ \A p \in Deleters(n) : ~deletes[p].gone)

FilesCovered ==
  /\ conf.warm => ~cold /\ loader.at = NoKey
  /\ conf.warm /\ ~(seen.joined \/ seen.renewed) =>
       \A k \in files :
         \/ \E n \in Nodes : Covers(n, k)
         \/ \E r \in CacheRequests : ctx[r].key = k /\ ctx[r].pc = "update" /\ ctx[r].renamed

DiskInv == DeletedAlone /\ FsOK /\ SizeExact /\ FilesCovered

CacheInv == OwnedInv /\ DiskInv

-----------------------------------------------------------------------------
(* Counting the pointers to a node *)

Bit(a, n) == IF a = n THEN 1 ELSE 0

\* When one place of a table of pointers changes, the number of those that point to n changes by
\* what that place did and does.
LEMMA PointersMove ==
  ASSUME NEW S, IsFiniteSet(S), NEW A \in SUBSET S, NEW B \in SUBSET S, NEW x \in S,
         \A y \in S \ {x} : y \in A <=> y \in B
  PROVE  /\ IsFiniteSet(A) /\ Cardinality(A) \in Nat /\ Cardinality(B) \in Nat
         /\ Cardinality(B) = Cardinality(A) + (IF x \in B THEN 1 ELSE 0) - (IF x \in A THEN 1 ELSE 0)
<1>1. IsFiniteSet(A) /\ IsFiniteSet(B)
  BY FS_Subset
<1>2. Cardinality(A) \in Nat /\ Cardinality(B) \in Nat
  BY <1>1, FS_CardinalityType
<1>3. CASE x \in A /\ x \notin B
  <2>1. B = A \ {x}
    BY <1>3
  <2> QED BY <1>1, <1>2, <1>3, <2>1, FS_RemoveElement
<1>4. CASE x \notin A /\ x \in B
  <2>1. A = B \ {x}
    BY <1>4
  <2> QED BY <1>1, <1>2, <1>4, <2>1, FS_RemoveElement
<1>5. CASE x \in A <=> x \in B
  <2>1. A = B
    BY <1>5
  <2> QED BY <1>1, <1>2, <2>1
<1> QED BY <1>1, <1>2, <1>3, <1>4, <1>5

\* The same for the requests that hold a node.
LEMMA HoldersStep ==
  ASSUME NEW n \in Nodes, NEW r \in CacheRequests,
         \A s \in CacheRequests \ {r} : ctx'[s].node = ctx[s].node
  PROVE  Cardinality(Holders(n)') = Cardinality(Holders(n)) + Bit(ctx'[r].node, n) - Bit(ctx[r].node, n)
<1>1. Holders(n) \in SUBSET CacheRequests /\ Holders(n)' \in SUBSET CacheRequests
  BY DEF Holders
<1>2. \A y \in CacheRequests \ {r} : y \in Holders(n) <=> y \in Holders(n)'
  BY DEF Holders
<1> DEFINE A == Holders(n) B == Holders(n)'
<1>3. (r \in B <=> ctx'[r].node = n) /\ (r \in A <=> ctx[r].node = n)
  BY DEF Holders
<1>4. IsFiniteSet(CacheRequests)
  BY CacheAssumption
<1> HIDE DEF A, B
<1>5. A \in SUBSET CacheRequests /\ B \in SUBSET CacheRequests /\ \A y \in CacheRequests \ {r} : y \in A <=> y \in B
  BY <1>1, <1>2 DEF A, B
<1>6. Cardinality(B) = Cardinality(A) + (IF r \in B THEN 1 ELSE 0) - (IF r \in A THEN 1 ELSE 0)
  BY <1>4, <1>5, PointersMove
<1>7. Cardinality(B) = Cardinality(A) + Bit(ctx'[r].node, n) - Bit(ctx[r].node, n)
  BY <1>3, <1>6 DEF Bit
<1> QED BY <1>7 DEF A, B

\* And for the processes that delete its file.
LEMMA DeletersStep ==
  ASSUME NEW n \in Nodes, NEW p \in Processes,
         \A q \in Processes \ {p} : deletes'[q].node = deletes[q].node
  PROVE  Cardinality(Deleters(n)') =
           Cardinality(Deleters(n)) + Bit(deletes'[p].node, n) - Bit(deletes[p].node, n)
<1>1. Deleters(n) \in SUBSET Processes /\ Deleters(n)' \in SUBSET Processes
  BY DEF Deleters
<1>2. \A y \in Processes \ {p} : y \in Deleters(n) <=> y \in Deleters(n)'
  BY DEF Deleters
<1> DEFINE A == Deleters(n) B == Deleters(n)'
<1>3. (p \in B <=> deletes'[p].node = n) /\ (p \in A <=> deletes[p].node = n)
  BY DEF Deleters
<1>4. IsFiniteSet(Processes)
  BY CacheAssumption, FS_AddElement DEF Processes
<1> HIDE DEF A, B
<1>5. A \in SUBSET Processes /\ B \in SUBSET Processes /\ \A y \in Processes \ {p} : y \in A <=> y \in B
  BY <1>1, <1>2 DEF A, B
<1>6. Cardinality(B) = Cardinality(A) + (IF p \in B THEN 1 ELSE 0) - (IF p \in A THEN 1 ELSE 0)
  BY <1>4, <1>5, PointersMove
<1>7. Cardinality(B) = Cardinality(A) + Bit(deletes'[p].node, n) - Bit(deletes[p].node, n)
  BY <1>3, <1>6 DEF Bit
<1> QED BY <1>7 DEF A, B

\* Pointers are counted by numbers, and a node without any has none of either kind.
LEMMA PointersNat ==
  ASSUME NEW n \in Nodes
  PROVE  /\ Cardinality(Holders(n)) \in Nat /\ Cardinality(Deleters(n)) \in Nat
         /\ Cardinality(Holders(n)) = 0 <=> Holders(n) = {}
         /\ Cardinality(Deleters(n)) = 0 <=> Deleters(n) = {}
<1>1. Holders(n) \in SUBSET CacheRequests /\ Deleters(n) \in SUBSET Processes
  BY DEF Holders, Deleters
<1>2. IsFiniteSet(CacheRequests) /\ IsFiniteSet(Processes)
  BY CacheAssumption, FS_AddElement DEF Processes
<1>3. IsFiniteSet(Holders(n)) /\ IsFiniteSet(Deleters(n))
  <2> DEFINE A == Holders(n) B == Deleters(n)
  <2> HIDE DEF A, B
  <2>1. A \in SUBSET CacheRequests /\ B \in SUBSET Processes
    BY <1>1 DEF A, B
  <2>2. IsFiniteSet(A) /\ IsFiniteSet(B)
    BY <1>2, <2>1, FS_Subset
  <2> QED BY <2>2 DEF A, B
<1> QED BY <1>3, FS_CardinalityType, FS_EmptySet

\* Nobody holds a node whose count is zero.
LEMMA FreeNodeAlone ==
  ASSUME OwnedInv, NEW n \in Nodes, node[n].count = 0
  PROVE  Holders(n) = {} /\ Deleters(n) = {} /\ seen.died[n] = 0
<1> DEFINE a == Cardinality(Holders(n)) b == Cardinality(Deleters(n)) d == seen.died[n]
<1>1. a \in Nat /\ b \in Nat /\ d \in Nat /\ 0 = a + b + d
  BY PointersNat DEF OwnedInv, Counted, Pointers, CacheTypes, SeenType
<1> HIDE DEF a, b, d
<1>2. a = 0 /\ b = 0 /\ d = 0
  BY <1>1
<1> QED BY <1>2, PointersNat DEF a, b, d

-----------------------------------------------------------------------------
(* The queue *)

\* An allocated node moves to the head.
LEMMA QueueUsed ==
  ASSUME QueueOK, NEW n \in Nodes, Allocated(n)
  PROVE  ToHead(n) \in Seq(Nodes) /\ IsInjective(ToHead(n)) /\ ToSet(ToHead(n)) = ToSet(queue)
<1>1. n \in ToSet(queue) /\ queue \in Seq(Nodes) /\ IsInjective(queue)
  BY DEF QueueOK
<1> DEFINE q == Without(n)
<1>2. q \in Seq(Nodes) /\ IsInjective(q) /\ ToSet(q) = ToSet(queue) \ {n}
  BY <1>1, ListPlace DEF Without
<1> DEFINE h == <<n>> \o q
<1>3. h \in Seq(Nodes) /\ IsInjective(h) /\ ToSet(h) = ToSet(q) \cup {n}
  <2> HIDE DEF q
  <2> QED BY <1>2, ListHead
<1>4. h = ToHead(n)
  BY DEF ToHead
<1> HIDE DEF h, q
<1> QED BY <1>1, <1>2, <1>3, <1>4

\* A node leaves the queue when it is freed.
LEMMA QueueFreed ==
  ASSUME QueueOK, NEW n \in Nodes, Allocated(n)
  PROVE  Without(n) \in Seq(Nodes) /\ IsInjective(Without(n)) /\ ToSet(Without(n)) = ToSet(queue) \ {n}
<1>1. n \in ToSet(queue) /\ queue \in Seq(Nodes) /\ IsInjective(queue)
  BY DEF QueueOK
<1> QED BY <1>1, ListPlace DEF Without

\* A new node comes to the head.
LEMMA QueueNew ==
  ASSUME QueueOK, NEW n \in Nodes, ~Allocated(n)
  PROVE  LET q == <<n>> \o queue IN
         q \in Seq(Nodes) /\ IsInjective(q) /\ ToSet(q) = ToSet(queue) \cup {n}
<1>1. n \notin ToSet(queue) /\ queue \in Seq(Nodes) /\ IsInjective(queue)
  BY DEF QueueOK
<1> QED BY <1>1, ListHead

-----------------------------------------------------------------------------
(* What a step does to the ownership of the nodes *)

\* No pointer moves.
LEMMA KeepStep ==
  ASSUME OwnedInv,
         queue' \in Seq(Nodes), IsInjective(queue'), ToSet(queue') = ToSet(queue),
         seen'.died = seen.died,
         \A p \in Processes : deletes'[p].node = deletes[p].node,
         \A s \in CacheRequests :
           /\ ctx'[s].node = ctx[s].node
           /\ ctx[s].node # NoNode => ctx'[s].key = ctx[s].key
           /\ ctx[s].node # NoNode /\ (ctx[s].updating \/ ctx[s].pc = "update") =>
                ctx'[s].updating \/ ctx'[s].pc = "update",
         \A n \in Nodes :
           /\ node'[n].key = node[n].key /\ node'[n].count = node[n].count
           /\ ~Allocated(n) => node'[n] = node[n]
           /\ node'[n].updating =>
                node[n].updating \/ \E r \in CacheRequests : ctx'[r].node = n /\ ctx'[r].updating
  PROVE  QueueOK' /\ Counted' /\ OwnKey' /\ UpdatingIsOwned'
<1> USE DEF OwnedInv
<1>1. \A n \in Nodes : Holders(n)' = Holders(n) /\ Deleters(n)' = Deleters(n) /\ (Allocated(n)' <=> Allocated(n))
  BY DEF Holders, Deleters, Allocated
<1>2. QueueOK'
  BY <1>1 DEF QueueOK
<1>3. \A n \in Nodes : Pointers(n)' = Pointers(n)
  BY <1>1 DEF Pointers
<1>4. Counted'
  BY <1>3 DEF Counted
<1>5. OwnKey'
  BY DEF OwnKey, CacheTypes, CtxType
<1>6. UpdatingIsOwned'
  <2> SUFFICES ASSUME NEW n \in Nodes, node'[n].updating, seen'.died[n] = 0
               PROVE  \E r \in Holders(n)' : ctx'[r].updating \/ ctx'[r].pc = "update"
    BY DEF UpdatingIsOwned
  <2>1. CASE node[n].updating
    <3>1. PICK r \in Holders(n) : ctx[r].updating \/ ctx[r].pc = "update"
      BY <2>1 DEF UpdatingIsOwned
    <3>2. r \in CacheRequests /\ ctx[r].node # NoNode
      BY CacheAssumption DEF Holders
    <3> QED BY <1>1, <3>1, <3>2
  <2>2. CASE \E r \in CacheRequests : ctx'[r].node = n /\ ctx'[r].updating
    BY <2>2 DEF Holders
  <2> QED BY <2>1, <2>2
<1> QED BY <1>2, <1>4, <1>5, <1>6

\* A request gets a node.
LEMMA HoldStep ==
  ASSUME OwnedInv, NEW r \in CacheRequests, NEW n \in Nodes, NEW x,
         ctx[r].node = NoNode, ctx'[r].node = n, ctx'[r].key = x.key,
         \A s \in CacheRequests \ {r} : ctx'[s] = ctx[s],
         node' = [node EXCEPT ![n] = x], x.key # NoKey, x.count = node[n].count + 1,
         Allocated(n) => x.key = node[n].key, x.updating => node[n].updating,
         queue' \in Seq(Nodes), IsInjective(queue'), ToSet(queue') = ToSet(queue) \cup {n},
         deletes' = deletes, seen'.died = seen.died
  PROVE  QueueOK' /\ Counted' /\ OwnKey' /\ UpdatingIsOwned'
<1> USE DEF OwnedInv
<1>1. /\ node'[n] = x /\ \A m \in Nodes \ {n} : node'[m] = node[m]
      /\ \A m \in Nodes : m # NoNode
  BY CacheAssumption DEF CacheTypes
<1>2. QueueOK'
  BY <1>1 DEF QueueOK, Allocated
<1>3. ASSUME NEW m \in Nodes PROVE node'[m].count = Pointers(m)'
  <2>1. Cardinality(Holders(m)') = Cardinality(Holders(m)) + Bit(ctx'[r].node, m) - Bit(ctx[r].node, m)
    BY HoldersStep
  <2>2. Deleters(m)' = Deleters(m)
    BY DEF Deleters
  <2>3. Cardinality(Holders(m)) \in Nat /\ Cardinality(Deleters(m)) \in Nat /\ seen.died[m] \in Nat
    BY PointersNat DEF CacheTypes, SeenType
  <2>4. node[m].count = Cardinality(Holders(m)) + Cardinality(Deleters(m)) + seen.died[m]
    BY DEF Counted, Pointers
  <2>5. Pointers(m)' = Cardinality(Holders(m)') + Cardinality(Deleters(m)) + seen.died[m]
    BY <2>2 DEF Pointers
  <2>6. CASE m = n
    <3>1. Bit(ctx'[r].node, m) = 1 /\ Bit(ctx[r].node, m) = 0
      BY <1>1, <2>6 DEF Bit
    <3> QED BY <1>1, <2>1, <2>3, <2>4, <2>5, <2>6, <3>1
  <2>7. CASE m # n
    <3>1. Bit(ctx'[r].node, m) = 0 /\ Bit(ctx[r].node, m) = 0
      BY <1>1, <2>7 DEF Bit
    <3> QED BY <1>1, <2>1, <2>3, <2>4, <2>5, <2>7, <3>1
  <2> QED BY <2>6, <2>7
<1>4. Counted'
  BY <1>3 DEF Counted
<1>5. OwnKey'
  <2> SUFFICES ASSUME NEW s \in CacheRequests, ctx'[s].node # NoNode
               PROVE  node'[ctx'[s].node].key = ctx'[s].key
    BY DEF OwnKey
  <2>1. CASE s = r
    BY <1>1, <2>1
  <2>2. CASE s # r
    <3>1. ctx'[s] = ctx[s] /\ node[ctx[s].node].key = ctx[s].key /\ ctx[s].node \in Nodes /\ ctx[s].key # NoKey
      BY <2>2, CacheAssumption DEF OwnKey, CacheTypes, CtxType, Places, Away
    <3> QED BY <1>1, <3>1 DEF Allocated
  <2> QED BY <2>1, <2>2
<1>6. UpdatingIsOwned'
  <2> SUFFICES ASSUME NEW m \in Nodes, node'[m].updating, seen'.died[m] = 0
               PROVE  \E s \in Holders(m)' : ctx'[s].updating \/ ctx'[s].pc = "update"
    BY DEF UpdatingIsOwned
  <2>1. node[m].updating /\ seen.died[m] = 0
    BY <1>1
  <2>2. PICK s \in Holders(m) : ctx[s].updating \/ ctx[s].pc = "update"
    BY <2>1 DEF UpdatingIsOwned
  <2>3. s \in CacheRequests \ {r}
    BY <1>1, <2>2 DEF Holders
  <2> QED BY <2>2, <2>3 DEF Holders
<1> QED BY <1>2, <1>4, <1>5, <1>6

\* A request leaves its node, which goes with the last pointer or stays.
LEMMA DropStep ==
  ASSUME OwnedInv, NEW r \in CacheRequests, NEW n \in Nodes, NEW x,
         ctx[r].node = n, ctx' = [ctx EXCEPT ![r] = IdleCtx],
         node' = [node EXCEPT ![n] = x],
         \/ x.key = node[n].key /\ x.count = node[n].count - 1 /\ queue' = queue
         \/ x = Unused /\ node[n].count = 1 /\ queue' = Without(n),
         x.updating => node[n].updating /\ ~ctx[r].updating /\ ctx[r].pc # "update",
         deletes' = deletes, seen'.died = seen.died
  PROVE  QueueOK' /\ Counted' /\ OwnKey' /\ UpdatingIsOwned'
<1> USE DEF OwnedInv
<1>1. /\ node'[n] = x /\ \A m \in Nodes \ {n} : node'[m] = node[m]
      /\ \A m \in Nodes : m # NoNode
      /\ ctx'[r] = IdleCtx /\ \A s \in CacheRequests \ {r} : ctx'[s] = ctx[s]
  BY CacheAssumption DEF CacheTypes
<1>2. Allocated(n)
  BY <1>1, CacheAssumption DEF Allocated, OwnKey, Places, Away
<1>3. QueueOK'
  <2>1. CASE x.key = node[n].key /\ queue' = queue
    BY <1>1, <1>2, <2>1 DEF QueueOK, Allocated
  <2>2. CASE x = Unused /\ queue' = Without(n)
    <3>1. queue' \in Seq(Nodes) /\ IsInjective(queue') /\ ToSet(queue') = ToSet(queue) \ {n}
      BY <1>2, <2>2, QueueFreed
    <3>2. x.key = NoKey /\ x = Unused
      BY <2>2 DEF Unused
    <3>3. \A m \in Nodes : (Allocated(m)' <=> Allocated(m) /\ m # n) /\ (~Allocated(m)' => node'[m] = Unused)
      BY <1>1, <3>2 DEF QueueOK, Allocated
    <3>4. ToSet(queue') = {m \in Nodes : Allocated(m)'}
      BY <3>1, <3>3 DEF QueueOK
    <3> QED BY <3>1, <3>3, <3>4 DEF QueueOK
  <2> QED BY <2>1, <2>2
<1>4. /\ ctx'[r].node = NoNode
      /\ \A m \in Nodes :
           /\ Deleters(m)' = Deleters(m)
           /\ Pointers(m)' = Cardinality(Holders(m)') + Cardinality(Deleters(m)) + seen.died[m]
           /\ Cardinality(Holders(m)') = Cardinality(Holders(m)) + Bit(NoNode, m) - Bit(n, m)
           /\ Cardinality(Holders(m)) \in Nat /\ Cardinality(Deleters(m)) \in Nat /\ seen.died[m] \in Nat
           /\ node[m].count = Cardinality(Holders(m)) + Cardinality(Deleters(m)) + seen.died[m]
  <2>1. ctx'[r].node = NoNode
    BY <1>1 DEF IdleCtx
  <2> SUFFICES ASSUME NEW m \in Nodes
      PROVE /\ Deleters(m)' = Deleters(m)
            /\ Pointers(m)' = Cardinality(Holders(m)') + Cardinality(Deleters(m)) + seen.died[m]
            /\ Cardinality(Holders(m)') = Cardinality(Holders(m)) + Bit(NoNode, m) - Bit(n, m)
            /\ Cardinality(Holders(m)) \in Nat /\ Cardinality(Deleters(m)) \in Nat /\ seen.died[m] \in Nat
            /\ node[m].count = Cardinality(Holders(m)) + Cardinality(Deleters(m)) + seen.died[m]
    BY <2>1
  <2>2. Deleters(m)' = Deleters(m)
    BY DEF Deleters
  <2>3. Cardinality(Holders(m)') = Cardinality(Holders(m)) + Bit(ctx'[r].node, m) - Bit(ctx[r].node, m)
    BY <1>1, HoldersStep
  <2>4. Cardinality(Holders(m)) \in Nat /\ Cardinality(Deleters(m)) \in Nat /\ seen.died[m] \in Nat
    BY PointersNat DEF CacheTypes, SeenType
  <2>5. node[m].count = Cardinality(Holders(m)) + Cardinality(Deleters(m)) + seen.died[m]
    BY DEF Counted, Pointers
  <2>6. Pointers(m)' = Cardinality(Holders(m)') + Cardinality(Deleters(m)) + seen.died[m]
    BY <2>2 DEF Pointers
  <2> QED BY <2>1, <2>2, <2>3, <2>4, <2>5, <2>6
<1>5. x.count = node[n].count - 1
  BY DEF Unused
<1>6. ASSUME NEW m \in Nodes PROVE node'[m].count = Pointers(m)'
  <2>1. CASE m = n
    <3>1. Bit(NoNode, m) = 0 /\ Bit(n, m) = 1
      BY <1>1, <2>1 DEF Bit
    <3> QED BY <1>1, <1>4, <1>5, <2>1, <3>1
  <2>2. CASE m # n
    <3>1. Bit(NoNode, m) = 0 /\ Bit(n, m) = 0
      BY <1>1, <2>2 DEF Bit
    <3> QED BY <1>1, <1>4, <2>2, <3>1
  <2> QED BY <2>1, <2>2
<1>7. Counted'
  BY <1>6 DEF Counted
<1>8. OwnKey'
  <2> SUFFICES ASSUME NEW s \in CacheRequests, ctx'[s].node # NoNode
               PROVE  node'[ctx'[s].node].key = ctx'[s].key
    BY DEF OwnKey
  <2>1. s # r /\ ctx'[s] = ctx[s] /\ ctx[s].node \in Nodes /\ node[ctx[s].node].key = ctx[s].key
    BY <1>1, <1>4 DEF OwnKey, CacheTypes, CtxType
  <2>2. CASE x.key = node[n].key
    BY <1>1, <2>1, <2>2
  <2>3. CASE x = Unused /\ node[n].count = 1
    <3>1. ctx[s].node # n
      <4> SUFFICES ASSUME ctx[s].node = n PROVE FALSE
        OBVIOUS
      <4>1. s \in Holders(n)'
        BY <1>1, <2>1 DEF Holders
      <4>2. Cardinality(Holders(n)') \in Nat /\ Cardinality(Holders(n)') # 0
        <5> DEFINE B == Holders(n)'
        <5>1. IsFiniteSet(B)
          <6>1. B \in SUBSET CacheRequests /\ IsFiniteSet(CacheRequests)
            BY CacheAssumption DEF Holders
          <6> HIDE DEF B
          <6> QED BY <6>1, FS_Subset
        <5> QED BY <4>1, <5>1, FS_CardinalityType, FS_EmptySet
      <4>3. Bit(NoNode, n) = 0 /\ Bit(n, n) = 1
        BY <1>1 DEF Bit
      <4> DEFINE a == Cardinality(Holders(n)) b == Cardinality(Deleters(n)) d == seen.died[n] e == Cardinality(Holders(n)')
      <4>4. a \in Nat /\ b \in Nat /\ d \in Nat /\ 1 = a + b + d /\ e \in Nat /\ e # 0 /\ e = a + 0 - 1
        BY <1>4, <2>3, <4>2, <4>3
      <4> HIDE DEF a, b, d, e
      <4> QED BY <4>4
    <3> QED BY <1>1, <2>1, <3>1
  <2> QED BY <2>2, <2>3
<1>9. UpdatingIsOwned'
  <2> SUFFICES ASSUME NEW m \in Nodes, node'[m].updating, seen'.died[m] = 0
               PROVE  \E s \in Holders(m)' : ctx'[s].updating \/ ctx'[s].pc = "update"
    BY DEF UpdatingIsOwned
  <2>1. /\ node[m].updating /\ seen.died[m] = 0
        /\ m = n => ~ctx[r].updating /\ ctx[r].pc # "update"
    BY <1>1
  <2>2. PICK s \in Holders(m) : ctx[s].updating \/ ctx[s].pc = "update"
    BY <2>1 DEF UpdatingIsOwned
  <2>3. s \in CacheRequests \ {r}
    BY <1>1, <2>1, <2>2 DEF Holders
  <2> QED BY <1>1, <2>2, <2>3 DEF Holders
<1> QED BY <1>3, <1>7, <1>8, <1>9

\* A node that nobody points to is freed, or is counted by the process that deletes its file.
LEMMA DeleteStep ==
  ASSUME OwnedInv, NEW p \in Processes, NEW n \in Nodes, Allocated(n), node[n].count = 0,
         deletes[p].node = NoNode, Delete(p, n), seen'.died = seen.died,
         \A s \in CacheRequests : ctx'[s] = ctx[s] \/ (ctx[s].node = NoNode /\ ctx'[s].node = NoNode)
  PROVE  /\ QueueOK' /\ Counted' /\ OwnKey' /\ UpdatingIsOwned'
         /\ Holders(n) = {} /\ Deleters(n) = {} /\ seen.died[n] = 0
<1> USE DEF OwnedInv
<1>1. \A m \in Nodes : m # NoNode
  BY CacheAssumption
<1>2. ASSUME NEW m \in Nodes
      PROVE  /\ Holders(m)' = Holders(m)
             /\ Cardinality(Holders(m)) \in Nat /\ Cardinality(Deleters(m)) \in Nat /\ seen.died[m] \in Nat
             /\ node[m].count = Cardinality(Holders(m)) + Cardinality(Deleters(m)) + seen.died[m]
             /\ Pointers(m)' = Cardinality(Holders(m)) + Cardinality(Deleters(m)') + seen.died[m]
  <2>1. Holders(m)' = Holders(m)
    BY <1>1 DEF Holders
  <2>2. Cardinality(Holders(m)) \in Nat /\ Cardinality(Deleters(m)) \in Nat /\ seen.died[m] \in Nat
    BY PointersNat DEF CacheTypes, SeenType
  <2>3. node[m].count = Cardinality(Holders(m)) + Cardinality(Deleters(m)) + seen.died[m]
    BY DEF Counted, Pointers
  <2>4. Pointers(m)' = Cardinality(Holders(m)) + Cardinality(Deleters(m)') + seen.died[m]
    BY <2>1 DEF Pointers
  <2> QED BY <2>1, <2>2, <2>3, <2>4
<1>3. Holders(n) = {} /\ Deleters(n) = {} /\ seen.died[n] = 0
  BY FreeNodeAlone
<1>4. ASSUME NEW s \in CacheRequests, ctx'[s].node # NoNode
      PROVE  ctx'[s] = ctx[s] /\ ctx[s].node \in Nodes \ {n} /\ node[ctx[s].node].key = ctx[s].key
  BY <1>3, <1>4 DEF Holders, OwnKey, CacheTypes, CtxType
<1>5. ASSUME NEW m \in Nodes \ {n}, seen'.died[m] = 0, node[m].updating
      PROVE  \E s \in Holders(m)' : ctx'[s].updating \/ ctx'[s].pc = "update"
  <2>1. PICK s \in Holders(m) : ctx[s].updating \/ ctx[s].pc = "update"
    BY <1>5 DEF UpdatingIsOwned
  <2>2. ctx'[s] = ctx[s] /\ s \in CacheRequests /\ s \in Holders(m)'
    BY <1>1, <1>2, <2>1 DEF Holders
  <2> QED BY <2>1, <2>2
<1>6. ~node[n].updating
  BY <1>3 DEF UpdatingIsOwned
<1>7. CASE node[n].exists
  <2> DEFINE x == [node[n] EXCEPT !.count = @ + 1, !.deleting = TRUE]
  <2>1. /\ node' = [node EXCEPT ![n] = x] /\ queue' = queue
        /\ deletes' = [deletes EXCEPT ![p] = [@ EXCEPT !.node = n]]
        /\ node[n] \in NodeType
    BY <1>7 DEF Delete, Deleting, CacheTypes
  <2>2. x.key = node[n].key /\ x.count = 1 /\ x.updating = node[n].updating
    BY <2>1 DEF NodeType
  <2> HIDE DEF x
  <2>3. /\ node'[n] = x /\ \A m \in Nodes \ {n} : node'[m] = node[m]
        /\ deletes'[p].node = n /\ \A q \in Processes \ {p} : deletes'[q] = deletes[q]
    BY <2>1 DEF CacheTypes
  <2>4. QueueOK'
    BY <2>1, <2>2, <2>3 DEF QueueOK, Allocated
  <2>5. ASSUME NEW m \in Nodes PROVE node'[m].count = Pointers(m)'
    <3>1. Cardinality(Deleters(m)') = Cardinality(Deleters(m)) + Bit(n, m) - Bit(NoNode, m)
      BY <2>3, DeletersStep
    <3>2. Bit(NoNode, m) = 0
      BY <1>1 DEF Bit
    <3>3. CASE m = n
      <4>1. Bit(n, m) = 1
        BY <3>3 DEF Bit
      <4>2. node'[m].count = 1 /\ node[m].count = 0
        BY <2>2, <2>3, <3>3
      <4> DEFINE a == Cardinality(Holders(m)) b == Cardinality(Deleters(m)) d == seen.died[m] e == Cardinality(Deleters(m)')
      <4>3. /\ a \in Nat /\ b \in Nat /\ d \in Nat /\ 0 = a + b + d /\ Pointers(m)' = a + e + d
            /\ e = b + 1 - 0
        BY <1>2, <3>1, <3>2, <4>1, <4>2
      <4> HIDE DEF a, b, d, e
      <4> QED BY <4>2, <4>3
    <3>4. CASE m # n
      <4>1. Bit(n, m) = 0
        BY <3>4 DEF Bit
      <4> QED BY <1>2, <2>3, <3>1, <3>2, <3>4, <4>1
    <3> QED BY <3>3, <3>4
  <2>6. OwnKey'
    BY <1>4, <2>3 DEF OwnKey
  <2>7. UpdatingIsOwned'
    BY <1>5, <1>6, <2>2, <2>3 DEF UpdatingIsOwned
  <2> QED BY <1>3, <2>4, <2>5, <2>6, <2>7 DEF Counted
<1>8. CASE ~node[n].exists
  <2>1. node' = [node EXCEPT ![n] = Unused] /\ queue' = Without(n) /\ deletes' = deletes
    BY <1>8 DEF Delete, FreeNode
  <2>2. node'[n] = Unused /\ \A m \in Nodes \ {n} : node'[m] = node[m]
    BY <2>1 DEF CacheTypes
  <2>3. Unused.key = NoKey /\ Unused.count = 0 /\ ~Unused.updating
    BY DEF Unused
  <2>4. QueueOK'
    <3>1. queue' \in Seq(Nodes) /\ IsInjective(queue') /\ ToSet(queue') = ToSet(queue) \ {n}
      BY <2>1, QueueFreed
    <3>2. \A m \in Nodes : (Allocated(m)' <=> Allocated(m) /\ m # n) /\ (~Allocated(m)' => node'[m] = Unused)
      BY <2>2, <2>3 DEF QueueOK, Allocated
    <3>3. ToSet(queue') = {m \in Nodes : Allocated(m)'}
      BY <3>1, <3>2 DEF QueueOK
    <3> QED BY <3>1, <3>2, <3>3 DEF QueueOK
  <2>5. ASSUME NEW m \in Nodes PROVE node'[m].count = Pointers(m)'
    <3>1. Deleters(m)' = Deleters(m)
      BY <2>1 DEF Deleters
    <3> QED BY <1>2, <2>2, <2>3, <3>1
  <2>6. OwnKey'
    BY <1>4, <2>2 DEF OwnKey
  <2>7. UpdatingIsOwned'
    BY <1>5, <2>2, <2>3 DEF UpdatingIsOwned
  <2> QED BY <1>3, <2>4, <2>5, <2>6, <2>7 DEF Counted
<1> QED BY <1>7, <1>8

\* The file is gone: the node is freed, unless a request has come to it meanwhile.
LEMMA DeleteEndStep ==
  ASSUME OwnedInv, NEW p \in Processes, DeleteEnd(p)
  PROVE  QueueOK' /\ Counted' /\ OwnKey' /\ UpdatingIsOwned'
<1> USE DEF OwnedInv
<1> DEFINE n == deletes[p].node
           x == IF node[n].count = 1 THEN Unused ELSE [node[n] EXCEPT !.count = @ - 1, !.deleting = FALSE]
<1>1. \A m \in Nodes : m # NoNode
  BY CacheAssumption
<1>2. /\ n \in Nodes /\ p \in Deleters(n) /\ ctx' = ctx /\ seen' = seen /\ deletes' = [deletes EXCEPT ![p] = NoDelete]
      /\ node[n] \in NodeType /\ deletes[p].node = n
  BY DEF DeleteEnd, Places, Deleters, CacheTypes
<1>3. /\ node' = [node EXCEPT ![n] = x]
      /\ queue' = IF node[n].count = 1 THEN Without(n) ELSE queue
  <2>1. CASE node[n].count = 1
    BY <2>1 DEF DeleteEnd, FreeNode
  <2>2. CASE node[n].count # 1
    <3>1. node' = [node EXCEPT ![n] = Deleted(node[n])] /\ queue' = queue
      BY <2>2 DEF DeleteEnd
    <3> QED BY <2>2, <3>1 DEF Deleted
  <2> QED BY <2>1, <2>2
<1>4. /\ node[n].count = 1 => x = Unused
      /\ node[n].count # 1 => x.key = node[n].key /\ x.count = node[n].count - 1 /\ x.updating = node[n].updating
      /\ Unused.key = NoKey /\ Unused.count = 0 /\ ~Unused.updating
  BY <1>2 DEF NodeType, Unused
<1> HIDE DEF x, n
<1>5. /\ node'[n] = x /\ \A m \in Nodes \ {n} : node'[m] = node[m]
      /\ deletes'[p].node = NoNode /\ \A q \in Processes \ {p} : deletes'[q] = deletes[q]
  BY <1>2, <1>3 DEF CacheTypes, NoDelete
<1>6. ASSUME NEW m \in Nodes
      PROVE  /\ Holders(m)' = Holders(m)
             /\ Cardinality(Holders(m)) \in Nat /\ Cardinality(Deleters(m)) \in Nat /\ seen.died[m] \in Nat
             /\ Cardinality(Deleters(m)') \in Nat
             /\ Cardinality(Deleters(m)') = Cardinality(Deleters(m)) - Bit(n, m)
             /\ node[m].count = Cardinality(Holders(m)) + Cardinality(Deleters(m)) + seen.died[m]
             /\ Pointers(m)' = Cardinality(Holders(m)) + Cardinality(Deleters(m)') + seen.died[m]
  <2>1. Holders(m)' = Holders(m)
    BY <1>2 DEF Holders
  <2>2. Cardinality(Holders(m)) \in Nat /\ Cardinality(Deleters(m)) \in Nat /\ seen.died[m] \in Nat
    BY PointersNat DEF CacheTypes, SeenType
  <2>3. node[m].count = Cardinality(Holders(m)) + Cardinality(Deleters(m)) + seen.died[m]
    BY DEF Counted, Pointers
  <2>4. Pointers(m)' = Cardinality(Holders(m)) + Cardinality(Deleters(m)') + seen.died[m]
    BY <1>2, <2>1 DEF Pointers
  <2>5. Cardinality(Deleters(m)') = Cardinality(Deleters(m)) + Bit(NoNode, m) - Bit(n, m)
    BY <1>2, <1>5, DeletersStep
  <2>6. Bit(NoNode, m) = 0 /\ (Bit(n, m) = 1 \/ Bit(n, m) = 0)
    BY <1>1 DEF Bit
  <2>7. Bit(n, m) = 1 => Cardinality(Deleters(m)) # 0
    BY <1>2, PointersNat DEF Bit
  <2>8. Cardinality(Deleters(m)') = Cardinality(Deleters(m)) - Bit(n, m) /\ Cardinality(Deleters(m)') \in Nat
    BY <2>2, <2>5, <2>6, <2>7
  <2> QED BY <2>1, <2>2, <2>3, <2>4, <2>8
<1>7. Allocated(n)
  <2>1. node[n].count # 0
    BY <1>2, <1>6, PointersNat
  <2> QED BY <1>2, <1>4, <2>1 DEF QueueOK
<1>8. QueueOK'
  <2>1. CASE node[n].count = 1
    <3>1. queue' \in Seq(Nodes) /\ IsInjective(queue') /\ ToSet(queue') = ToSet(queue) \ {n}
      BY <1>2, <1>3, <1>7, <2>1, QueueFreed
    <3>2. \A m \in Nodes : (Allocated(m)' <=> Allocated(m) /\ m # n) /\ (~Allocated(m)' => node'[m] = Unused)
      BY <1>4, <1>5, <2>1 DEF QueueOK, Allocated
    <3>3. ToSet(queue') = {m \in Nodes : Allocated(m)'}
      BY <3>1, <3>2 DEF QueueOK
    <3> QED BY <3>1, <3>2, <3>3 DEF QueueOK
  <2>2. CASE node[n].count # 1
    BY <1>3, <1>4, <1>5, <1>7, <2>2 DEF QueueOK, Allocated
  <2> QED BY <2>1, <2>2
<1>9. x.count = node[n].count - 1
  BY <1>4
<1>10. ASSUME NEW m \in Nodes PROVE node'[m].count = Pointers(m)'
  <2>1. CASE m = n
    <3>1. Bit(n, m) = 1
      BY <2>1 DEF Bit
    <3> QED BY <1>5, <1>6, <1>9, <2>1, <3>1
  <2>2. CASE m # n
    <3>1. Bit(n, m) = 0
      BY <2>2 DEF Bit
    <3> QED BY <1>5, <1>6, <2>2, <3>1
  <2> QED BY <2>1, <2>2
<1>11. node[n].count = 1 => Holders(n) = {}
  <2> SUFFICES ASSUME node[n].count = 1 PROVE Cardinality(Holders(n)) = 0
    BY <1>2, PointersNat
  <2>1. Cardinality(Deleters(n)) # 0
    BY <1>2, PointersNat
  <2> DEFINE a == Cardinality(Holders(n)) b == Cardinality(Deleters(n)) d == seen.died[n]
  <2>2. a \in Nat /\ b \in Nat /\ d \in Nat /\ 1 = a + b + d
    BY <1>2, <1>6
  <2> HIDE DEF a, b, d
  <2>3. b # 0 => a = 0
    BY <2>2
  <2> QED BY <2>1, <2>3 DEF a, b
<1>12. OwnKey'
  <2> SUFFICES ASSUME NEW s \in CacheRequests, ctx'[s].node # NoNode
               PROVE  node'[ctx'[s].node].key = ctx'[s].key
    BY DEF OwnKey
  <2>1. ctx'[s] = ctx[s] /\ ctx[s].node \in Nodes /\ node[ctx[s].node].key = ctx[s].key
    BY <1>2 DEF OwnKey, CacheTypes, CtxType
  <2>2. node[n].count = 1 => ctx[s].node # n
    BY <1>11, <2>1 DEF Holders
  <2> QED BY <1>4, <1>5, <2>1, <2>2
<1>13. UpdatingIsOwned'
  <2> SUFFICES ASSUME NEW m \in Nodes, node'[m].updating, seen'.died[m] = 0
               PROVE  \E s \in Holders(m)' : ctx'[s].updating \/ ctx'[s].pc = "update"
    BY DEF UpdatingIsOwned
  <2>1. node[m].updating /\ seen.died[m] = 0
    BY <1>2, <1>4, <1>5
  <2> QED BY <1>2, <1>6, <2>1 DEF UpdatingIsOwned
<1> QED BY <1>8, <1>10, <1>12, <1>13 DEF Counted

\* A worker dies: what it pointed to stays counted.
LEMMA DieStep ==
  ASSUME OwnedInv, NEW r \in CacheRequests, Die(r)
  PROVE  QueueOK' /\ Counted' /\ OwnKey' /\ UpdatingIsOwned'
<1> USE DEF OwnedInv
<1> DEFINE a == ctx[r].node b == deletes[r].node n == IF a # NoNode THEN a ELSE b
<1>1. /\ ctx' = [ctx EXCEPT ![r] = IdleCtx] /\ deletes' = [deletes EXCEPT ![r] = NoDelete]
      /\ node' = node /\ queue' = queue
      /\ seen' = [seen EXCEPT !.deaths = @ + 1, !.died = [seen.died EXCEPT ![n] = @ + 1]]
  BY DEF Die
<1>2. /\ \A m \in Nodes : m # NoNode
      /\ a \in Nodes \cup {NoNode} /\ b \in Nodes \cup {NoNode} /\ (b # NoNode => a = NoNode)
      /\ r \in Processes /\ seen \in SeenType
  BY CacheAssumption DEF CacheTypes, CtxType, Places, Away, Processes
<1> HIDE DEF n, a, b
<1>3. \A m \in Nodes : seen'.died[m] = seen.died[m] + Bit(n, m) /\ seen.died[m] \in Nat
  <2>1. seen'.died = [seen.died EXCEPT ![n] = @ + 1] /\ seen.died \in [Nodes \cup {NoNode} -> Nat]
    BY <1>1, <1>2 DEF SeenType
  <2> QED BY <2>1 DEF Bit
<1>4. /\ ctx'[r] = IdleCtx /\ ctx'[r].node = NoNode /\ deletes'[r].node = NoNode
      /\ \A s \in CacheRequests \ {r} : ctx'[s] = ctx[s]
      /\ \A p \in Processes \ {r} : deletes'[p] = deletes[p]
  BY <1>1, <1>2 DEF CacheTypes, IdleCtx, NoDelete
<1>5. QueueOK'
  BY <1>1 DEF QueueOK, Allocated
<1>6. ASSUME NEW m \in Nodes PROVE node'[m].count = Pointers(m)'
  <2>1. Cardinality(Holders(m)') = Cardinality(Holders(m)) + Bit(NoNode, m) - Bit(a, m)
    BY <1>4, HoldersStep DEF a
  <2>2. Cardinality(Deleters(m)') = Cardinality(Deleters(m)) + Bit(NoNode, m) - Bit(b, m)
    BY <1>2, <1>4, DeletersStep DEF b
  <2>3. /\ Bit(NoNode, m) = 0 /\ Bit(a, m) + Bit(b, m) = Bit(n, m)
        /\ Bit(a, m) \in Int /\ Bit(b, m) \in Int /\ Bit(n, m) \in Int
    BY <1>2 DEF Bit, n
  <2>4. node[m].count = Cardinality(Holders(m)) + Cardinality(Deleters(m)) + seen.died[m]
    BY DEF Counted, Pointers
  <2>5. Pointers(m)' = Cardinality(Holders(m)') + Cardinality(Deleters(m)') + seen'.died[m]
    BY DEF Pointers
  <2>6. Cardinality(Holders(m)) \in Nat /\ Cardinality(Deleters(m)) \in Nat
    BY PointersNat
  <2>7. node'[m].count = node[m].count
    BY <1>1
  <2> DEFINE h == Cardinality(Holders(m)) d == Cardinality(Deleters(m)) e == seen.died[m]
             x == Bit(a, m) y == Bit(b, m) z == Bit(n, m)
  <2>8. /\ h \in Nat /\ d \in Nat /\ e \in Nat /\ x \in Int /\ y \in Int /\ z \in Int /\ x + y = z
        /\ node'[m].count = h + d + e /\ Pointers(m)' = (h + 0 - x) + (d + 0 - y) + (e + z)
    BY <1>3, <2>1, <2>2, <2>3, <2>4, <2>5, <2>6, <2>7
  <2> HIDE DEF h, d, e, x, y, z
  <2> QED BY <2>8
<1>7. OwnKey'
  BY <1>1, <1>4 DEF OwnKey
<1>8. UpdatingIsOwned'
  <2> SUFFICES ASSUME NEW m \in Nodes, node'[m].updating, seen'.died[m] = 0
               PROVE  \E s \in Holders(m)' : ctx'[s].updating \/ ctx'[s].pc = "update"
    BY DEF UpdatingIsOwned
  <2>1. seen.died[m] = 0 /\ n # m
    BY <1>3 DEF Bit
  <2>2. PICK s \in Holders(m) : ctx[s].updating \/ ctx[s].pc = "update"
    BY <1>1, <2>1 DEF UpdatingIsOwned
  <2>3. s \in CacheRequests \ {r}
    BY <1>2, <2>1, <2>2 DEF Holders, n, a
  <2> QED BY <1>4, <2>2, <2>3 DEF Holders
<1> QED BY <1>5, <1>6, <1>7, <1>8 DEF Counted

\* The loader adds a node that nobody points to.
LEMMA LoaderNewStep ==
  ASSUME OwnedInv, NEW n \in Nodes, NEW k \in Keys, ~Allocated(n),
         node' = [node EXCEPT ![n] = [Unused EXCEPT !.key = k, !.uses = 1, !.exists = TRUE, !.fs = 1]],
         queue' = <<n>> \o queue, ctx' = ctx, deletes' = deletes, seen' = seen
  PROVE  /\ QueueOK' /\ Counted' /\ OwnKey' /\ UpdatingIsOwned'
         /\ Holders(n) = {} /\ Deleters(n) = {}
<1> USE DEF OwnedInv
<1> DEFINE x == [Unused EXCEPT !.key = k, !.uses = 1, !.exists = TRUE, !.fs = 1]
<1>1. x.key = k /\ x.count = 0 /\ ~x.updating /\ Unused.count = 0
  BY DEF Unused
<1> HIDE DEF x
<1>2. node'[n] = x /\ \A m \in Nodes \ {n} : node'[m] = node[m]
  BY DEF CacheTypes, x
<1>3. k # NoKey
  BY CacheAssumption
<1>4. QueueOK'
  <2>1. queue' \in Seq(Nodes) /\ IsInjective(queue') /\ ToSet(queue') = ToSet(queue) \cup {n}
    BY QueueNew
  <2> QED BY <1>1, <1>2, <1>3, <2>1 DEF QueueOK, Allocated
<1>5. \A m \in Nodes : Holders(m)' = Holders(m) /\ Deleters(m)' = Deleters(m) /\ Pointers(m)' = Pointers(m)
  BY DEF Holders, Deleters, Pointers
<1>6. node[n] = Unused
  BY DEF QueueOK
<1>7. Counted'
  BY <1>1, <1>2, <1>5, <1>6 DEF Counted
<1>8. Holders(n) = {} /\ Deleters(n) = {}
  <2> DEFINE a == Cardinality(Holders(n)) b == Cardinality(Deleters(n)) d == seen.died[n]
  <2>1. a \in Nat /\ b \in Nat /\ d \in Nat /\ 0 = a + b + d
    BY <1>1, <1>6, PointersNat DEF Counted, Pointers, CacheTypes, SeenType
  <2> HIDE DEF a, b, d
  <2>2. a = 0 /\ b = 0
    BY <2>1
  <2> QED BY <2>2, PointersNat DEF a, b
<1>9. OwnKey'
  BY <1>2, <1>8 DEF OwnKey, Holders, CacheTypes, CtxType
<1>10. UpdatingIsOwned'
  BY <1>1, <1>2, <1>5 DEF UpdatingIsOwned
<1> QED BY <1>4, <1>7, <1>8, <1>9, <1>10

-----------------------------------------------------------------------------
(* The actions of the requests *)

\* What the assignments to the fields of a node leave.
LEMMA NodeFields ==
  ASSUME NEW f \in NodeType, conf \in CacheConfs
  PROVE  /\ Hold(f) \in NodeType /\ Hold(f).key = f.key /\ Hold(f).count = f.count + 1
         /\ Hold(f).updating = f.updating /\ Hold(f).deleting = f.deleting /\ Hold(f).exists = f.exists
         /\ Hold(f).fs = f.fs
         /\ Renewed(f) \in NodeType /\ Renewed(f).key = f.key /\ Renewed(f).count = f.count
         /\ Renewed(f).updating = f.updating /\ Renewed(f).deleting = f.deleting
         /\ ~Renewed(f).exists /\ Renewed(f).fs = 0
<1>1. conf.min \in Nat
  BY CacheAssumption
<1> DEFINE u == IF f.uses < conf.min THEN f.uses + 1 ELSE f.uses
<1>2. u \in Nat
  BY <1>1 DEF NodeType
<1>3. Hold(f) = [f EXCEPT !.uses = u, !.count = f.count + 1]
  BY DEF Hold
<1> HIDE DEF u
<1>4. f.count + 1 \in Int /\ 0 \in Int
  BY DEF NodeType
<1>5. /\ Hold(f) \in NodeType /\ Hold(f).key = f.key /\ Hold(f).count = f.count + 1
      /\ Hold(f).updating = f.updating /\ Hold(f).deleting = f.deleting /\ Hold(f).exists = f.exists
      /\ Hold(f).fs = f.fs
  BY <1>2, <1>3, <1>4 DEF NodeType
<1>6. /\ Renewed(f) \in NodeType /\ Renewed(f).key = f.key /\ Renewed(f).count = f.count
      /\ Renewed(f).updating = f.updating /\ Renewed(f).deleting = f.deleting
      /\ ~Renewed(f).exists /\ Renewed(f).fs = 0
  BY <1>4 DEF NodeType, Renewed
<1> QED BY <1>5, <1>6

\* The node of a valid file that a request has opened (the values of Exists and Open that count a use).
LEMMA FileFields ==
  ASSUME NEW f \in NodeType, NEW x, x = [f EXCEPT !.uses = 1, !.exists = TRUE, !.fs = 1]
  PROVE  /\ x \in NodeType /\ x.key = f.key /\ x.count = f.count /\ x.updating = f.updating
         /\ x.deleting = f.deleting /\ x.exists /\ x.fs = 1
<1>1. 1 \in Nat /\ 1 \in Int
  OBVIOUS
<1> QED BY <1>1 DEF NodeType

\* A node that a request allocates, field by field.
LEMMA NewRecord ==
  ASSUME NEW k, NEW x, x = [Unused EXCEPT !.key = k, !.uses = 1, !.count = 1]
  PROVE  x = [key |-> k, uses |-> 1, count |-> 1, exists |-> FALSE, updating |-> FALSE,
              deleting |-> FALSE, error |-> FALSE, fs |-> 0]
BY DEF Unused

\* A node that the loader makes for a file it finds is of no request.
LEMMA LoadedFields ==
  ASSUME NEW k \in Keys, NEW x, x = [Unused EXCEPT !.key = k, !.uses = 1, !.exists = TRUE, !.fs = 1]
  PROVE  x \in NodeType /\ x.key = k /\ x.count = 0 /\ x.exists /\ x.fs = 1 /\ ~x.deleting
<1>1. x = [key |-> k, uses |-> 1, count |-> 0, exists |-> TRUE, updating |-> FALSE,
           deleting |-> FALSE, error |-> FALSE, fs |-> 1]
  BY DEF Unused
<1>2. \A y : y = [key |-> k, uses |-> 1, count |-> 0, exists |-> TRUE, updating |-> FALSE,
                 deleting |-> FALSE, error |-> FALSE, fs |-> 1] =>
             y \in NodeType /\ y.key = k /\ y.count = 0 /\ y.exists /\ y.fs = 1 /\ ~y.deleting
  BY DEF NodeType
<1> QED BY <1>1, <1>2

\* A node that a request allocates is counted once, for that request.
LEMMA NewFields ==
  ASSUME NEW k \in Keys, NEW x,
         x = [key |-> k, uses |-> 1, count |-> 1, exists |-> FALSE, updating |-> FALSE,
              deleting |-> FALSE, error |-> FALSE, fs |-> 0]
  PROVE  /\ x \in NodeType /\ x.key = k /\ x.count = 1 /\ ~x.updating /\ ~x.exists /\ ~x.deleting
         /\ x.fs = 0
BY DEF NodeType

\* The place of a request that got a node.
HeldCtx(d, n, e, w, u, pc) == [d EXCEPT !.node = n, !.exists = e, !.error = w, !.scarce = u, !.pc = pc]

\* A request that got a node stays at its key.
LEMMA HeldFields ==
  ASSUME NEW d \in CtxType, NEW n \in Nodes, NEW e \in BOOLEAN, NEW w \in BOOLEAN, NEW u \in BOOLEAN,
         NEW pc \in Held
  PROVE  /\ HeldCtx(d, n, e, w, u, pc) \in CtxType /\ HeldCtx(d, n, e, w, u, pc).node = n
         /\ HeldCtx(d, n, e, w, u, pc).pc = pc /\ HeldCtx(d, n, e, w, u, pc).key = d.key
BY DEF CtxType, HeldCtx

\* A request takes its next step, with the node that it has and without changing the node.
LEMMA CtxStep ==
  ASSUME OwnedInv, NEW r \in CacheRequests, NEW c \in CtxType, ctx' = [ctx EXCEPT ![r] = c],
         c.node = ctx[r].node, c.node = NoNode <=> c.pc \in Away,
         c.pc # "idle" => c.key \in Keys, c.node # NoNode => c.key = ctx[r].key,
         ctx[r].node # NoNode /\ (ctx[r].updating \/ ctx[r].pc = "update") => c.updating \/ c.pc = "update",
         deletes[r].node = NoNode \/ c.pc = "forced",
         conf' = conf, node' = node, queue' = queue, size' = size, files' \subseteq Keys,
         cold' = cold, deletes' = deletes, loader' = loader, seen' \in SeenType,
         seen'.died = seen.died
  PROVE  OwnedInv'
<1> USE DEF OwnedInv
<1>1. ctx'[r] = c /\ \A s \in CacheRequests \ {r} : ctx'[s] = ctx[s]
  BY DEF CacheTypes
<1>2. CacheTypes'
  BY DEF CacheTypes
<1>3. Places'
  BY <1>1 DEF Places
<1>4. queue \in Seq(Nodes) /\ IsInjective(queue)
  BY DEF QueueOK
<1>5. \A s \in CacheRequests :
        /\ ctx'[s].node = ctx[s].node
        /\ ctx[s].node # NoNode => ctx'[s].key = ctx[s].key
        /\ ctx[s].node # NoNode /\ (ctx[s].updating \/ ctx[s].pc = "update") =>
             ctx'[s].updating \/ ctx'[s].pc = "update"
  BY <1>1
<1>6. QueueOK' /\ Counted' /\ OwnKey' /\ UpdatingIsOwned'
  BY <1>4, <1>5, KeepStep
<1> QED BY <1>2, <1>3, <1>6

\* A request that is given its key touches no node.
LEMMA StartOwned ==
  ASSUME OwnedInv, NEW r \in CacheRequests, Start(r) PROVE OwnedInv'
<1>1. PICK k \in Keys, b \in BOOLEAN : ctx' = [ctx EXCEPT ![r] = [IdleCtx EXCEPT !.pc = "exists", !.key = k, !.bypass = b]]
  BY DEF Start
<1> DEFINE c == [IdleCtx EXCEPT !.pc = "exists", !.key = k, !.bypass = b]
<1>2. c \in CtxType /\ c.node = NoNode /\ c.pc = "exists" /\ c.key = k
  BY DEF IdleCtx, CtxType, Away
<1>3. ctx[r].node = NoNode /\ ctx[r].pc = "idle" /\ deletes[r].node = NoNode
  BY DEF Start, OwnedInv, Places, Away
<1>4. seen' \in SeenType /\ seen'.died = seen.died
  BY DEF Start, OwnedInv, CacheTypes, SeenType
<1> HIDE DEF c
<1>5. /\ ctx' = [ctx EXCEPT ![r] = c]
      /\ conf' = conf /\ node' = node /\ queue' = queue /\ size' = size /\ files' \subseteq Keys
      /\ cold' = cold /\ deletes' = deletes /\ loader' = loader
  BY <1>1 DEF Start, OwnedInv, CacheTypes, c
<1> QED BY <1>2, <1>3, <1>4, <1>5, CtxStep DEF Away

\* Opening the file of the node, or failing to, keeps the accounts of the nodes.
LEMMA OpenOwned ==
  ASSUME OwnedInv, NEW r \in CacheRequests, Open(r) PROVE OwnedInv'
<1> DEFINE new  == ctx[r].pc = "opennew"
           test == IF new THEN cold ELSE ctx[r].exists
           c == [ctx[r] EXCEPT !.pc = IF test /\ ctx[r].key \in files THEN "read" ELSE "fetch",
                               !.scarce = new /\ conf.min > 1]
<1>1. ctx[r] \in CtxType /\ ctx[r].node # NoNode /\ ctx[r].key \in Keys /\ ctx[r].pc # "update" /\ deletes[r].node = NoNode
  BY DEF Open, OwnedInv, CacheTypes, Places, Away
<1>2. /\ ctx' = [ctx EXCEPT ![r] = c]
      /\ conf' = conf /\ node' = node /\ queue' = queue /\ size' = size /\ files' \subseteq Keys
      /\ cold' = cold /\ deletes' = deletes /\ loader' = loader /\ seen' = seen /\ seen \in SeenType
  BY DEF Open, OwnedInv, CacheTypes
<1>3. /\ c \in CtxType /\ c.node = ctx[r].node /\ c.pc \in {"read", "fetch"} /\ c.key = ctx[r].key
      /\ c.updating = ctx[r].updating
  BY <1>1 DEF CtxType, Held
<1> HIDE DEF c
<1> QED BY <1>1, <1>2, <1>3, CtxStep DEF Away

\* Renaming the temporary file over the old one keeps the accounts of the nodes.
LEMMA RenameOwned ==
  ASSUME OwnedInv, NEW r \in CacheRequests, Rename(r) PROVE OwnedInv'
<1>1. PICK ok \in BOOLEAN :
        /\ files' = IF ok THEN files \cup {ctx[r].key} ELSE files
        /\ ctx' = [ctx EXCEPT ![r] = [@ EXCEPT !.pc = "update", !.renamed = ok, !.updating = FALSE]]
        /\ seen' = [seen EXCEPT !.unrenamed = @ \/ ~ok]
  BY DEF Rename
<1> DEFINE c == [ctx[r] EXCEPT !.pc = "update", !.renamed = ok, !.updating = FALSE]
<1>2. ctx[r] \in CtxType /\ ctx[r].node # NoNode /\ ctx[r].key \in Keys /\ deletes[r].node = NoNode
  BY DEF Rename, OwnedInv, CacheTypes, Places, Away
<1>3. c \in CtxType /\ c.node = ctx[r].node /\ c.pc = "update" /\ c.key = ctx[r].key
  BY <1>2 DEF CtxType, Held
<1>4. seen' \in SeenType /\ seen'.died = seen.died
  BY <1>1 DEF OwnedInv, CacheTypes, SeenType
<1>5. /\ ctx' = [ctx EXCEPT ![r] = c]
      /\ conf' = conf /\ node' = node /\ queue' = queue /\ size' = size /\ files' \subseteq Keys
      /\ cold' = cold /\ deletes' = deletes /\ loader' = loader
  BY <1>1, <1>2 DEF Rename, OwnedInv, CacheTypes
<1> HIDE DEF c
<1> QED BY <1>2, <1>3, <1>4, <1>5, CtxStep DEF Away

\* A request reads the file or takes the update on itself: a flag of its node changes.
LEMMA FlagStep ==
  ASSUME OwnedInv, NEW r \in CacheRequests, NEW c \in CtxType, ctx' = [ctx EXCEPT ![r] = c],
         c.node = ctx[r].node, c.pc \in Held, ctx[r].pc \in Held, c.key = ctx[r].key, ctx[r].pc # "update",
         ctx[r].updating => c.updating,
         NEW x \in NodeType, node' = [node EXCEPT ![ctx[r].node] = x],
         x.key = node[ctx[r].node].key, x.count = node[ctx[r].node].count,
         x.updating => node[ctx[r].node].updating \/ c.updating,
         conf' = conf, queue' = queue, size' \in Int, files' = files,
         cold' = cold, deletes' = deletes, loader' = loader, seen' = seen
  PROVE  OwnedInv'
<1> USE DEF OwnedInv
<1>1. ctx'[r] = c /\ \A s \in CacheRequests \ {r} : ctx'[s] = ctx[s]
  BY DEF CacheTypes
<1>2. CacheTypes'
  BY DEF CacheTypes
<1>3. Places'
  BY <1>1 DEF Places, Held, Away
<1> DEFINE n == ctx[r].node
<1>4. n \in Nodes /\ Allocated(n)
  BY CacheAssumption DEF OwnKey, Allocated, Places, Away, Held, CacheTypes, CtxType
<1>5. node'[n] = x /\ \A m \in Nodes \ {n} : node'[m] = node[m]
  BY <1>4 DEF CacheTypes
<1>6. queue \in Seq(Nodes) /\ IsInjective(queue)
  BY DEF QueueOK
<1>7. \A s \in CacheRequests :
        /\ ctx'[s].node = ctx[s].node
        /\ ctx[s].node # NoNode => ctx'[s].key = ctx[s].key
        /\ ctx[s].node # NoNode /\ (ctx[s].updating \/ ctx[s].pc = "update") =>
             ctx'[s].updating \/ ctx'[s].pc = "update"
  BY <1>1
<1>8. \A m \in Nodes :
        /\ node'[m].key = node[m].key /\ node'[m].count = node[m].count
        /\ ~Allocated(m) => node'[m] = node[m]
        /\ node'[m].updating =>
             node[m].updating \/ \E s \in CacheRequests : ctx'[s].node = m /\ ctx'[s].updating
  BY <1>1, <1>4, <1>5
<1> HIDE DEF n
<1>9. QueueOK' /\ Counted' /\ OwnKey' /\ UpdatingIsOwned'
  BY <1>6, <1>7, <1>8, KeepStep
<1> QED BY <1>2, <1>3, <1>9

\* ngx_http_file_cache_read keeps the accounts: an update is announced by the request that will make it.
LEMMA ReadOwned ==
  ASSUME OwnedInv, NEW r \in CacheRequests, Read(r) PROVE OwnedInv'
<1> DEFINE n == ctx[r].node
           x == IF cold /\ Learns(node[n]) THEN [node[n] EXCEPT !.uses = 1, !.exists = TRUE, !.fs = 1] ELSE node[n]
           c == [ctx[r] EXCEPT !.pc = "validate"]
<1>1. ctx[r] \in CtxType /\ ctx[r].pc = "read" /\ n \in Nodes /\ node[n] \in NodeType
  BY DEF Read, OwnedInv, CacheTypes, CtxType, Places, Away
<1>2. c \in CtxType /\ c.node = n /\ c.pc = "validate" /\ c.key = ctx[r].key /\ c.updating = ctx[r].updating
  BY <1>1 DEF CtxType, Held
<1>6. x \in NodeType /\ x.key = node[n].key /\ x.count = node[n].count /\ x.updating = node[n].updating
  <2>1. CASE cold /\ Learns(node[n])
    <3>1. x = [node[n] EXCEPT !.uses = 1, !.exists = TRUE, !.fs = 1] /\ node[n] \in NodeType
      BY <1>1, <2>1
    <3> HIDE DEF x
    <3> QED BY <3>1, FileFields
  <2>2. CASE ~(cold /\ Learns(node[n]))
    BY <1>1, <2>2
  <2> QED BY <2>1, <2>2
<1>3. ctx' = [ctx EXCEPT ![r] = c]
  BY DEF Read, Step
<1>4. node' = [node EXCEPT ![n] = x] /\ size' \in Int
  <2>1. CASE cold /\ Learns(node[n])
    BY <2>1 DEF Read, OwnedInv, CacheTypes
  <2>2. CASE ~(cold /\ Learns(node[n]))
    BY <1>1, <2>2 DEF Read, OwnedInv, CacheTypes
  <2> QED BY <2>1, <2>2
<1>5. /\ conf' = conf /\ queue' = queue /\ files' = files
      /\ cold' = cold /\ deletes' = deletes /\ loader' = loader /\ seen' = seen
  BY DEF Read
<1> HIDE DEF x, c
<1> QED BY <1>1, <1>2, <1>3, <1>4, <1>5, <1>6, FlagStep DEF Held

\* The answer that validates a stale file ends the update or goes on to replace the file.
LEMMA ValidateOwned ==
  ASSUME OwnedInv, NEW r \in CacheRequests, Validate(r) PROVE OwnedInv'
<1> DEFINE n == ctx[r].node
<1>1. ctx[r] \in CtxType /\ ctx[r].pc = "validate" /\ n \in Nodes /\ node[n] \in NodeType
  BY DEF Validate, OwnedInv, CacheTypes, CtxType, Places, Away
<1>2. /\ conf' = conf /\ queue' = queue /\ size' = size /\ size \in Int /\ files' = files
      /\ cold' = cold /\ deletes' = deletes /\ loader' = loader /\ seen' = seen
  BY DEF Validate, OwnedInv, CacheTypes
<1>3. CASE Step(r, "serve") /\ UNCHANGED node
  <2> DEFINE c == [ctx[r] EXCEPT !.pc = "serve"]
  <2>1. /\ c \in CtxType /\ c.node = n /\ c.pc = "serve" /\ c.key = ctx[r].key /\ c.updating = ctx[r].updating
        /\ ctx' = [ctx EXCEPT ![r] = c] /\ node' = [node EXCEPT ![n] = node[n]]
    BY <1>1, <1>3 DEF CtxType, Held, Step, OwnedInv, CacheTypes
  <2> HIDE DEF c
  <2> QED BY <1>1, <1>2, <2>1, FlagStep DEF Held
<1>4. CASE /\ node[n].updating /\ UNCHANGED node
           /\ ctx' = [ctx EXCEPT ![r] = [@ EXCEPT !.pc = IF conf.stale THEN "serve" ELSE "fetch", !.scarce = FALSE]]
  <2> DEFINE c == [ctx[r] EXCEPT !.pc = IF conf.stale THEN "serve" ELSE "fetch", !.scarce = FALSE]
  <2>1. /\ c \in CtxType /\ c.node = n /\ c.pc \in {"serve", "fetch"} /\ c.key = ctx[r].key
        /\ c.updating = ctx[r].updating
        /\ ctx' = [ctx EXCEPT ![r] = c] /\ node' = [node EXCEPT ![n] = node[n]]
    BY <1>1, <1>4 DEF CtxType, Held, OwnedInv, CacheTypes
  <2> HIDE DEF c
  <2> QED BY <1>1, <1>2, <2>1, FlagStep DEF Held
<1>5. CASE /\ ~node[n].updating
           /\ node' = [node EXCEPT ![n] = [@ EXCEPT !.updating = TRUE]]
           /\ ctx' = [ctx EXCEPT ![r] = [@ EXCEPT !.updating = TRUE, !.pc = "fetch", !.scarce = FALSE]]
  <2> DEFINE c == [ctx[r] EXCEPT !.updating = TRUE, !.pc = "fetch", !.scarce = FALSE]
             x == [node[n] EXCEPT !.updating = TRUE]
  <2>1. /\ c \in CtxType /\ c.node = n /\ c.pc = "fetch" /\ c.key = ctx[r].key /\ c.updating
        /\ x \in NodeType /\ x.key = node[n].key /\ x.count = node[n].count
        /\ ctx' = [ctx EXCEPT ![r] = c] /\ node' = [node EXCEPT ![n] = x]
    BY <1>1, <1>5 DEF CtxType, NodeType, Held
  <2> HIDE DEF c, x
  <2> QED BY <1>1, <1>2, <2>1, FlagStep DEF Held
<1> QED BY <1>3, <1>4, <1>5 DEF Validate

\* A request finds a node or makes one.
LEMMA FoundOwned ==
  ASSUME OwnedInv, NEW r \in CacheRequests, ctx[r].pc = "exists", NEW n \in Nodes, ExistsFound(r, n)
  PROVE  OwnedInv'
<1> USE DEF OwnedInv
<1> DEFINE f == Hold(node[n])
<1>1. /\ ctx[r] \in CtxType /\ ctx[r].node = NoNode /\ ctx[r].key \in Keys /\ node[n] \in NodeType
      /\ deletes[r].node = NoNode /\ node[n].key = ctx[r].key /\ n # NoNode /\ ctx[r].key # NoKey
      /\ Allocated(n)
  BY CacheAssumption DEF CacheTypes, Places, Away, ExistsFound, Allocated
<1>2. f \in NodeType /\ f.key = node[n].key /\ f.count = node[n].count + 1 /\ f.updating = node[n].updating
  BY <1>1, NodeFields DEF CacheTypes
<1> HIDE DEF f
<1>3. \E x \in NodeType, rc \in {"error", "ok", "again", "declined"} :
        /\ node' = [node EXCEPT ![n] = x] /\ After(r, rc, n, x)
        /\ x.key = node[n].key /\ x.count = node[n].count + 1 /\ x.updating = node[n].updating
        /\ seen' \in SeenType /\ seen'.died = seen.died
  <2>1. CASE /\ node' = [node EXCEPT ![n] = f]
             /\ After(r, FoundRc(node[n]), n, f)
             /\ seen' = [seen EXCEPT !.joined = @ \/ node[n].deleting]
    <3>1. seen' \in SeenType /\ seen'.died = seen.died
      BY <1>1, <2>1 DEF CacheTypes, SeenType, NodeType
    <3>2. FoundRc(node[n]) \in {"error", "ok", "again", "declined"}
      BY DEF FoundRc
    <3> QED BY <1>2, <2>1, <3>1, <3>2
  <2>2. CASE /\ node' = [node EXCEPT ![n] = Renewed(f)]
             /\ After(r, "declined", n, Renewed(f))
             /\ seen' = [seen EXCEPT !.joined = @ \/ node[n].deleting, !.renewed = @ \/ node[n].exists]
    <3>1. seen' \in SeenType /\ seen'.died = seen.died
      BY <1>1, <2>2 DEF CacheTypes, SeenType, NodeType
    <3>2. /\ Renewed(f) \in NodeType /\ Renewed(f).key = f.key /\ Renewed(f).count = f.count
          /\ Renewed(f).updating = f.updating
      BY <1>2, NodeFields DEF CacheTypes
    <3> QED BY <1>2, <2>2, <3>1, <3>2
  <2> QED BY <2>1, <2>2 DEF ExistsFound, f
<1>4. PICK x \in NodeType, rc \in {"error", "ok", "again", "declined"} :
        /\ node' = [node EXCEPT ![n] = x] /\ After(r, rc, n, x)
        /\ x.key = node[n].key /\ x.count = node[n].count + 1 /\ x.updating = node[n].updating
        /\ seen' \in SeenType /\ seen'.died = seen.died
  BY <1>3
<1> DEFINE u  == rc = "again" /\ ~ctx[r].bypass
           pc == IF ctx[r].bypass \/ rc = "again" THEN "fetch"
                 ELSE IF rc = "error" THEN "serve" ELSE IF rc = "ok" THEN "open" ELSE "opennew"
           c  == [ctx[r] EXCEPT !.node = n, !.exists = x.exists, !.error = x.error, !.scarce = u, !.pc = pc]
<1>5. ctx' = [ctx EXCEPT ![r] = c] /\ u \in BOOLEAN /\ pc \in Held
  BY <1>4 DEF After, Held
<1> HIDE DEF u, pc
<1>6. /\ x.exists \in BOOLEAN /\ x.error \in BOOLEAN
  BY DEF NodeType
<1>7. c \in CtxType /\ c.node = n /\ c.pc \in Held /\ c.key = ctx[r].key
  <2>1. c = HeldCtx(ctx[r], n, x.exists, x.error, u, pc)
    BY DEF HeldCtx
  <2> HIDE DEF c
  <2> QED BY <1>1, <1>5, <1>6, <2>1, HeldFields
<1> HIDE DEF c
<1>8. ctx'[r] = c /\ \A s \in CacheRequests \ {r} : ctx'[s] = ctx[s]
  BY <1>5 DEF CacheTypes
<1>9. /\ queue' = ToHead(n) /\ conf' = conf /\ size' = size /\ files' = files
      /\ cold' = cold /\ deletes' = deletes /\ loader' = loader
  BY DEF ExistsFound
<1>10. queue' \in Seq(Nodes) /\ IsInjective(queue') /\ ToSet(queue') = ToSet(queue) \cup {n}
  <2>1. ToHead(n) \in Seq(Nodes) /\ IsInjective(ToHead(n)) /\ ToSet(ToHead(n)) = ToSet(queue)
    BY <1>1, QueueUsed
  <2> QED BY <1>1, <1>9, <2>1 DEF QueueOK
<1>11. CacheTypes'
  BY <1>4, <1>5, <1>7, <1>9 DEF CacheTypes
<1>12. Places'
  BY <1>1, <1>7, <1>8, <1>9 DEF Places, Held, Away
<1>13. QueueOK' /\ Counted' /\ OwnKey' /\ UpdatingIsOwned'
  <2>1. /\ ctx[r].node = NoNode /\ ctx'[r].node = n /\ ctx'[r].key = x.key /\ x.key # NoKey
        /\ x.key = node[n].key /\ (x.updating => node[n].updating)
    BY <1>1, <1>4, <1>7, <1>8
  <2> QED BY <1>4, <1>8, <1>9, <1>10, <2>1, HoldStep
<1> QED BY <1>11, <1>12, <1>13

\* ngx_http_file_cache_exists for a key without a node: the node it allocates is counted for the request.
LEMMA NewOwned ==
  ASSUME OwnedInv, NEW r \in CacheRequests, ctx[r].pc \in {"exists", "forced"}, deletes[r].node = NoNode,
         ExistsNew(r)
  PROVE  OwnedInv'
<1> USE DEF OwnedInv
<1>1. PICK n \in Nodes :
        /\ ~Allocated(n)
        /\ node' = [node EXCEPT ![n] = [Unused EXCEPT !.key = ctx[r].key, !.uses = 1, !.count = 1]]
        /\ queue' = <<n>> \o queue
        /\ After(r, "declined", n, Unused)
  BY DEF ExistsNew
<1> DEFINE x == [Unused EXCEPT !.key = ctx[r].key, !.uses = 1, !.count = 1]
           u  == "declined" = "again" /\ ~ctx[r].bypass
           pc == IF ctx[r].bypass \/ "declined" = "again" THEN "fetch"
                 ELSE IF "declined" = "error" THEN "serve"
                 ELSE IF "declined" = "ok" THEN "open" ELSE "opennew"
           c  == [ctx[r] EXCEPT !.node = n, !.exists = Unused.exists, !.error = Unused.error, !.scarce = u,
                                !.pc = pc]
<1>2. /\ ctx[r] \in CtxType /\ ctx[r].node = NoNode /\ ctx[r].key \in Keys /\ ctx[r].key # NoKey
      /\ n # NoNode /\ node[n] = Unused /\ Unused.count = 0
  BY <1>1, CacheAssumption DEF CacheTypes, Places, Away, QueueOK, Unused
<1>3. x \in NodeType /\ x.key = ctx[r].key /\ x.count = node[n].count + 1 /\ ~x.updating
  <2>1. node[n].count = 0
    BY <1>2
  <2>2. x = [Unused EXCEPT !.key = ctx[r].key, !.uses = 1, !.count = 1]
    OBVIOUS
  <2> HIDE DEF x
  <2> DEFINE k == ctx[r].key
  <2>4. k \in Keys /\ x = [Unused EXCEPT !.key = k, !.uses = 1, !.count = 1]
    BY <1>2, <2>2
  <2> HIDE DEF k
  <2>5. x = [key |-> k, uses |-> 1, count |-> 1, exists |-> FALSE, updating |-> FALSE,
             deleting |-> FALSE, error |-> FALSE, fs |-> 0]
    BY <2>4, NewRecord
  <2>6. x.count = 1 /\ x \in NodeType /\ x.key = k /\ ~x.updating
    BY <2>4, <2>5, NewFields
  <2>3. x.count = 1 /\ x \in NodeType /\ x.key = ctx[r].key /\ ~x.updating
    BY <2>6 DEF k
  <2> QED BY <2>1, <2>3
<1>4. ctx' = [ctx EXCEPT ![r] = c] /\ u \in BOOLEAN /\ pc \in Held
  BY <1>1 DEF After, Held
<1> HIDE DEF u, pc
<1>5. Unused.exists \in BOOLEAN /\ Unused.error \in BOOLEAN
  BY DEF Unused
<1>6. c \in CtxType /\ c.node = n /\ c.pc \in Held /\ c.key = ctx[r].key
  <2>1. c = HeldCtx(ctx[r], n, Unused.exists, Unused.error, u, pc)
    BY DEF HeldCtx
  <2> HIDE DEF c
  <2> QED BY <1>2, <1>4, <1>5, <2>1, HeldFields
<1> HIDE DEF c
<1>7. ctx'[r] = c /\ \A s \in CacheRequests \ {r} : ctx'[s] = ctx[s]
  BY <1>4 DEF CacheTypes
<1>8. /\ conf' = conf /\ size' = size /\ files' = files /\ seen' = seen
      /\ cold' = cold /\ deletes' = deletes /\ loader' = loader /\ node' = [node EXCEPT ![n] = x]
  BY <1>1 DEF ExistsNew
<1> HIDE DEF x
<1>9. queue' \in Seq(Nodes) /\ IsInjective(queue') /\ ToSet(queue') = ToSet(queue) \cup {n}
  BY <1>1, QueueNew
<1>10. CacheTypes'
  BY <1>3, <1>4, <1>6, <1>8 DEF CacheTypes
<1>11. Places'
  BY <1>2, <1>6, <1>7, <1>8 DEF Places, Held, Away
<1>12. QueueOK' /\ Counted' /\ OwnKey' /\ UpdatingIsOwned'
  <2>1. /\ ctx[r].node = NoNode /\ ctx'[r].node = n /\ ctx'[r].key = x.key /\ x.key # NoKey
        /\ (Allocated(n) => x.key = node[n].key) /\ (x.updating => node[n].updating)
        /\ x.count = node[n].count + 1 /\ seen'.died = seen.died
    BY <1>1, <1>2, <1>3, <1>6, <1>7, <1>8
  <2> QED BY <1>7, <1>8, <1>9, <2>1, HoldStep
<1> QED BY <1>10, <1>11, <1>12

\* What a node is after an update, and after a deletion that it survived.
LEMMA UpdatedFields ==
  ASSUME NEW f \in NodeType, NEW ok \in BOOLEAN, NEW fs \in Int
  PROVE  /\ Updated(f, fs, ok) \in NodeType /\ Updated(f, fs, ok).key = f.key
         /\ Updated(f, fs, ok).count = f.count - 1 /\ ~Updated(f, fs, ok).updating
         /\ Updated(f, fs, ok).fs = fs /\ (Updated(f, fs, ok).exists <=> f.exists \/ ok)
         /\ Updated(f, fs, ok).deleting = f.deleting
<1>1. f.count - 1 \in Int
  BY DEF NodeType
<1> DEFINE e == f.exists \/ ok n == f.count - 1
<1>2. Updated(f, fs, ok) = [f EXCEPT !.count = n, !.fs = fs, !.updating = FALSE, !.exists = e]
  BY DEF Updated
<1>3. e \in BOOLEAN /\ n \in Int
  BY <1>1
<1> HIDE DEF e, n
<1>4. /\ Updated(f, fs, ok) \in NodeType /\ Updated(f, fs, ok).key = f.key
      /\ Updated(f, fs, ok).count = n /\ ~Updated(f, fs, ok).updating
      /\ Updated(f, fs, ok).fs = fs /\ Updated(f, fs, ok).exists = e
      /\ Updated(f, fs, ok).deleting = f.deleting
  BY <1>2, <1>3 DEF NodeType
<1> QED BY <1>4 DEF e, n

\* What deleting a file counts on its node, before the mutex is dropped and after.
LEMMA DeletedFields ==
  ASSUME NEW f \in NodeType
  PROVE  /\ Deleted(f) \in NodeType /\ Deleted(f).key = f.key /\ Deleted(f).count = f.count - 1
         /\ Deleted(f).exists = f.exists /\ Deleted(f).fs = f.fs
         /\ Deleting(f) \in NodeType /\ Deleting(f).key = f.key /\ Deleting(f).count = f.count + 1
         /\ Deleting(f).exists = f.exists /\ Deleting(f).fs = f.fs /\ Deleting(f).deleting
<1>1. f.count - 1 \in Int /\ f.count + 1 \in Int
  BY DEF NodeType
<1>2. /\ Deleted(f) \in NodeType /\ Deleted(f).key = f.key /\ Deleted(f).count = f.count - 1
      /\ Deleted(f).exists = f.exists /\ Deleted(f).fs = f.fs
  BY <1>1 DEF NodeType, Deleted
<1>3. /\ Deleting(f) \in NodeType /\ Deleting(f).key = f.key /\ Deleting(f).count = f.count + 1
      /\ Deleting(f).exists = f.exists /\ Deleting(f).fs = f.fs /\ Deleting(f).deleting
  BY <1>1 DEF NodeType, Deleting
<1> QED BY <1>2, <1>3

\* A free node and an idle request are of their types.
LEMMA Empties ==
  /\ Unused \in NodeType /\ Unused.key = NoKey /\ Unused.count = 0 /\ ~Unused.updating /\ ~Unused.exists
  /\ Unused.fs = 0 /\ ~Unused.deleting
  /\ IdleCtx \in CtxType /\ IdleCtx.node = NoNode /\ IdleCtx.pc = "idle" /\ ~IdleCtx.updating
  /\ NoDelete.node = NoNode /\ ~NoDelete.gone /\ NoDelete \in [node : Nodes \cup {NoNode}, gone : BOOLEAN]
<1>1. /\ Unused \in NodeType /\ Unused.key = NoKey /\ Unused.count = 0 /\ ~Unused.updating /\ ~Unused.exists
      /\ Unused.fs = 0 /\ ~Unused.deleting
  BY DEF Unused, NodeType
<1>2. IdleCtx \in CtxType /\ IdleCtx.node = NoNode /\ IdleCtx.pc = "idle" /\ ~IdleCtx.updating
  BY DEF IdleCtx, CtxType, Away
<1>3. NoDelete.node = NoNode /\ ~NoDelete.gone /\ NoDelete \in [node : Nodes \cup {NoNode}, gone : BOOLEAN]
  BY DEF NoDelete
<1> QED BY <1>1, <1>2, <1>3

\* A request gives its node back.
LEMMA BackStep ==
  ASSUME OwnedInv, NEW r \in CacheRequests, NEW n \in Nodes, NEW x \in NodeType,
         ctx[r].node = n, ctx[r].pc \in Held, ctx' = [ctx EXCEPT ![r] = IdleCtx],
         node' = [node EXCEPT ![n] = x],
         \/ x.key = node[n].key /\ x.count = node[n].count - 1 /\ queue' = queue
         \/ x = Unused /\ node[n].count = 1 /\ queue' = Without(n),
         x.updating => node[n].updating /\ ~ctx[r].updating /\ ctx[r].pc # "update",
         conf' = conf, size' \in Int, files' = files,
         cold' = cold, deletes' = deletes, loader' = loader, seen' = seen
  PROVE  OwnedInv'
<1> USE DEF OwnedInv
<1>1. CacheTypes'
  BY Empties DEF CacheTypes
<1>2. Places'
  <2>1. ctx'[r] = IdleCtx /\ \A s \in CacheRequests \ {r} : ctx'[s] = ctx[s]
    BY DEF CacheTypes
  <2>2. deletes[r].node = NoNode
    BY DEF Places, Held
  <2> QED BY <2>1, <2>2, Empties DEF Places, Away
<1>3. QueueOK' /\ Counted' /\ OwnKey' /\ UpdatingIsOwned'
  BY DropStep
<1> QED BY <1>1, <1>2, <1>3

\* ngx_http_file_cache_update gives its node back with the counts of the others unchanged.
LEMMA UpdateOwned ==
  ASSUME OwnedInv, NEW r \in CacheRequests, Update(r) PROVE OwnedInv'
<1> DEFINE n  == ctx[r].node
           fs == IF ctx[r].renamed THEN 1 ELSE 0
           x  == Updated(node[n], fs, ctx[r].renamed)
<1>1. /\ ctx[r] \in CtxType /\ ctx[r].pc = "update" /\ ctx[r].pc \in Held /\ n \in Nodes /\ node[n] \in NodeType
      /\ ctx[r].renamed \in BOOLEAN /\ fs \in {0, 1} /\ size \in Int /\ node[n].fs \in Int
  BY DEF Update, OwnedInv, CacheTypes, CtxType, NodeType, Places, Away, Held
<1>2. /\ ctx' = [ctx EXCEPT ![r] = IdleCtx] /\ node' = [node EXCEPT ![n] = x]
      /\ size' = size + (fs - node[n].fs)
      /\ queue' = queue /\ conf' = conf /\ files' = files
      /\ cold' = cold /\ deletes' = deletes /\ loader' = loader /\ seen' = seen
  BY DEF Update, Growth
<1>3. x \in NodeType /\ x.key = node[n].key /\ x.count = node[n].count - 1 /\ ~x.updating
  <2> DEFINE f == node[n] ok == ctx[r].renamed
  <2>1. x = Updated(f, fs, ok) /\ f \in NodeType /\ fs \in {0, 1} /\ ok \in BOOLEAN
    BY <1>1
  <2> HIDE DEF x, f, fs, ok
  <2>2. x \in NodeType /\ x.key = f.key /\ x.count = f.count - 1 /\ ~x.updating
    BY <2>1, UpdatedFields
  <2> QED BY <2>2 DEF f
<1>4. size' \in Int
  BY <1>1, <1>2
<1> HIDE DEF x, fs
<1> QED BY <1>1, <1>2, <1>3, <1>4, BackStep

\* What ngx_http_file_cache_free leaves of a node that stays.
Left(f, u, w) == [f EXCEPT !.count = f.count - 1, !.updating = u, !.error = w]

\* A request leaves its node: one count less, the rest as it was but for the update and the error.
LEMMA FreeFields ==
  ASSUME NEW f \in NodeType, NEW u \in BOOLEAN, NEW w \in BOOLEAN
  PROVE  /\ Left(f, u, w) \in NodeType /\ Left(f, u, w).key = f.key /\ Left(f, u, w).count = f.count - 1
         /\ Left(f, u, w).updating = u /\ Left(f, u, w).exists = f.exists /\ Left(f, u, w).fs = f.fs
         /\ Left(f, u, w).deleting = f.deleting
<1>1. f.count - 1 \in Int
  BY DEF NodeType
<1> QED BY <1>1 DEF NodeType, Left

\* Its outcomes: the node stays, with or without an error, or is freed.
LEMMA FreeResult ==
  ASSUME OwnedInv, NEW r \in CacheRequests, Free(r)
  PROVE  \E x \in NodeType :
           /\ node' = [node EXCEPT ![ctx[r].node] = x]
           /\ \/ /\ x.key = node[ctx[r].node].key /\ x.count = node[ctx[r].node].count - 1 /\ queue' = queue
                 /\ x.exists = node[ctx[r].node].exists /\ x.fs = node[ctx[r].node].fs
                 /\ x.deleting = node[ctx[r].node].deleting
              \/ /\ x = Unused /\ node[ctx[r].node].count = 1 /\ queue' = Without(ctx[r].node)
                 /\ ~node[ctx[r].node].exists
           /\ x.updating => node[ctx[r].node].updating /\ ~ctx[r].updating
<1> DEFINE n == ctx[r].node
           u == Updating(r, node[n])
           f == [node[n] EXCEPT !.count = @ - 1, !.updating = u]
<1>1. ctx[r] \in CtxType /\ n \in Nodes /\ node[n] \in NodeType
  BY DEF Free, OwnedInv, CacheTypes, CtxType, NodeType, Places, Away
<1>2. u \in BOOLEAN /\ (u => node[n].updating /\ ~ctx[r].updating) /\ node[n].error \in BOOLEAN
  BY <1>1 DEF Updating, CtxType, NodeType
<1>3. \/ node' = [node EXCEPT ![n] = [f EXCEPT !.error = TRUE]] /\ queue' = queue
      \/ Disposable(f) /\ FreeNode(n)
      \/ node' = [node EXCEPT ![n] = f] /\ queue' = queue
  BY DEF Free
<1> HIDE DEF u
<1> DEFINE g(w) == Left(node[n], u, w)
<1>4. f = g(node[n].error) /\ [f EXCEPT !.error = TRUE] = g(TRUE)
  BY <1>1, <1>2 DEF NodeType, Left
<1>5. ASSUME NEW w \in BOOLEAN
      PROVE  /\ g(w) \in NodeType /\ g(w).key = node[n].key /\ g(w).count = node[n].count - 1
             /\ (g(w).updating => u) /\ g(w).exists = node[n].exists /\ g(w).fs = node[n].fs
             /\ g(w).deleting = node[n].deleting
  <2> DEFINE a == node[n]
  <2>1. a \in NodeType
    BY <1>1
  <2> HIDE DEF a
  <2>2. /\ Left(a, u, w) \in NodeType /\ Left(a, u, w).key = a.key /\ Left(a, u, w).count = a.count - 1
        /\ Left(a, u, w).updating = u /\ Left(a, u, w).exists = a.exists /\ Left(a, u, w).fs = a.fs
        /\ Left(a, u, w).deleting = a.deleting
    BY <1>2, <1>5, <2>1, FreeFields
  <2> QED BY <2>2 DEF a
<1> HIDE DEF g
<1>6. CASE Disposable(f) /\ FreeNode(n)
  <2>1. node' = [node EXCEPT ![n] = Unused] /\ queue' = Without(n)
    BY <1>6 DEF FreeNode
  <2>2. f.count = 0 /\ ~f.exists
    BY <1>6 DEF Disposable
  <2> HIDE DEF f
  <2>3. node[n].count - 1 = 0 /\ ~node[n].exists /\ node[n].count \in Int
    BY <1>1, <1>2, <1>4, <1>5, <2>2 DEF NodeType
  <2>4. node[n].count = 1
    BY <2>3
  <2> QED BY <2>1, <2>3, <2>4, Empties
<1>7. CASE node' = [node EXCEPT ![n] = f] /\ queue' = queue
  <2> HIDE DEF f
  <2> QED BY <1>2, <1>4, <1>5, <1>7
<1>8. CASE node' = [node EXCEPT ![n] = [f EXCEPT !.error = TRUE]] /\ queue' = queue
  <2>1. node' = [node EXCEPT ![n] = g(TRUE)]
    BY <1>4, <1>8
  <2> QED BY <1>2, <1>5, <1>8, <2>1
<1> QED BY <1>3, <1>6, <1>7, <1>8

\* ngx_http_file_cache_free: the node left unused is freed when nobody else counts on it.
LEMMA FreeOwned ==
  ASSUME OwnedInv, NEW r \in CacheRequests, Free(r) PROVE OwnedInv'
<1> DEFINE n == ctx[r].node
<1>1. /\ n \in Nodes /\ ctx[r].pc \in Held /\ ctx[r].pc # "update" /\ ctx' = [ctx EXCEPT ![r] = IdleCtx]
      /\ conf' = conf /\ size' \in Int /\ files' = files
      /\ cold' = cold /\ deletes' = deletes /\ loader' = loader /\ seen' = seen
  BY DEF Free, OwnedInv, CacheTypes, CtxType, Places, Away, Held
<1>2. PICK x \in NodeType :
        /\ node' = [node EXCEPT ![n] = x]
        /\ \/ x.key = node[n].key /\ x.count = node[n].count - 1 /\ queue' = queue
           \/ x = Unused /\ node[n].count = 1 /\ queue' = Without(n)
        /\ x.updating => node[n].updating /\ ~ctx[r].updating
  BY FreeResult
<1> QED BY <1>1, <1>2, BackStep

-----------------------------------------------------------------------------
(* Deletions *)

\* A forced expiry takes a node that nobody uses, if there is one.
LEMMA ForcedTakes ==
  ASSUME OwnedInv, NEW p, ForcedExpire(p)
  PROVE  \/ UNCHANGED <<node, queue, size, deletes>>
         \/ \E n \in Nodes : Allocated(n) /\ node[n].count = 0 /\ Delete(p, n)
<1>1. CASE UnusedLast = {}
  BY <1>1 DEF ForcedExpire
<1>2. CASE UnusedLast # {}
  <2>1. PICK i \in UnusedLast : Delete(p, queue[i])
    BY <1>2 DEF ForcedExpire
  <2>2. i \in DOMAIN queue /\ node[queue[i]].count = 0
    BY DEF UnusedLast
  <2>3. queue[i] \in Nodes /\ Allocated(queue[i])
    BY <2>2 DEF OwnedInv, QueueOK, ToSet
  <2> QED BY <2>1, <2>2, <2>3
<1> QED BY <1>1, <1>2

\* The deletion of a node, by the manager or by a request that needs room.
LEMMA DeleteOwned ==
  ASSUME OwnedInv, NEW p \in Processes, NEW n \in Nodes, Allocated(n), node[n].count = 0,
         deletes[p].node = NoNode, Delete(p, n),
         conf' = conf, files' = files, cold' = cold, loader' = loader, seen' = seen,
         ctx' \in [CacheRequests -> CtxType],
         \A s \in CacheRequests :
           /\ ctx'[s] = ctx[s] \/ (ctx[s].node = NoNode /\ ctx'[s].node = NoNode)
           /\ ctx'[s].node = NoNode <=> ctx'[s].pc \in Away
           /\ ctx'[s].pc # "idle" => ctx'[s].key \in Keys
           /\ deletes[s].node # NoNode \/ s = p => ctx'[s].pc = "forced"
  PROVE  OwnedInv'
<1> USE DEF OwnedInv
<1>1. QueueOK' /\ Counted' /\ OwnKey' /\ UpdatingIsOwned'
  BY DeleteStep
<1>2. node[n] \in NodeType /\ node[n].fs \in Int /\ ~deletes[p].gone
  BY DEF CacheTypes, NodeType, Places
<1>3. CASE node[n].exists
  <2> DEFINE d == [deletes[p] EXCEPT !.node = n]
  <2>1. /\ node' = [node EXCEPT ![n] = Deleting(node[n])]
        /\ deletes' = [deletes EXCEPT ![p] = d]
        /\ size' = size - node[n].fs
    BY <1>3 DEF Delete
  <2>2. Deleting(node[n]) \in NodeType /\ d \in [node : Nodes \cup {NoNode}, gone : BOOLEAN] /\ d.node = n
    BY <1>2, DeletedFields DEF CacheTypes
  <2> HIDE DEF d
  <2>3. CacheTypes'
    BY <1>2, <2>1, <2>2 DEF CacheTypes
  <2>4. deletes'[p].node = n /\ n # NoNode /\ \A q \in Processes \ {p} : deletes'[q] = deletes[q]
    BY <2>1, <2>2, CacheAssumption DEF CacheTypes
  <2>5. Places'
    <3>1. CacheRequests \subseteq Processes
      BY DEF Processes
    <3>2. \A s \in CacheRequests : deletes'[s].node # NoNode => deletes[s].node # NoNode \/ s = p
      BY <2>4, <3>1
    <3>3. \A q \in Processes : deletes'[q].gone => deletes'[q].node # NoNode
      BY <2>4 DEF Places
    <3> QED BY <3>2, <3>3 DEF Places
  <2> QED BY <1>1, <2>3, <2>5
<1>4. CASE ~node[n].exists
  <2>1. node' = [node EXCEPT ![n] = Unused] /\ deletes' = deletes /\ size' = size
    BY <1>4 DEF Delete, FreeNode
  <2>2. CacheTypes'
    BY <2>1, Empties DEF CacheTypes
  <2>3. Places'
    BY <2>1 DEF Places
  <2> QED BY <1>1, <2>2, <2>3
<1> QED BY <1>3, <1>4

\* Nothing but the zone's queue, the files or the loader changes, or the flag of a deletion.
LEMMA QuietStep ==
  ASSUME OwnedInv, CacheTypes', ctx' = ctx, node' = node, seen' = seen,
         queue' \in Seq(Nodes), IsInjective(queue'), ToSet(queue') = ToSet(queue),
         \A p \in Processes :
           deletes'[p].node = deletes[p].node /\ (deletes'[p].gone => deletes'[p].node # NoNode)
  PROVE  OwnedInv'
<1> USE DEF OwnedInv
<1>1. Places'
  BY DEF Places, Processes
<1>2. QueueOK' /\ Counted' /\ OwnKey' /\ UpdatingIsOwned'
  BY KeepStep
<1> QED BY <1>1, <1>2

\* The file is removed while the mutex is dropped: nothing in the zone changes.
LEMMA DeleteFileOwned ==
  ASSUME OwnedInv, NEW p \in Processes, DeleteFile(p) PROVE OwnedInv'
<1> DEFINE d == [deletes[p] EXCEPT !.gone = TRUE]
<1>1. deletes[p] \in [node : Nodes \cup {NoNode}, gone : BOOLEAN] /\ deletes[p].node # NoNode
  BY DEF OwnedInv, CacheTypes, DeleteFile
<1>2. d \in [node : Nodes \cup {NoNode}, gone : BOOLEAN] /\ d.node = deletes[p].node
  BY <1>1
<1>3. deletes' = [deletes EXCEPT ![p] = d] /\ files' \subseteq Keys
  BY DEF DeleteFile, OwnedInv, CacheTypes
<1> HIDE DEF d
<1>4. /\ conf' = conf /\ ctx' = ctx /\ node' = node /\ queue' = queue /\ size' = size /\ cold' = cold
      /\ loader' = loader /\ seen' = seen
  BY DEF DeleteFile
<1>5. CacheTypes'
  BY <1>2, <1>3, <1>4 DEF OwnedInv, CacheTypes
<1>6. \A q \in Processes :
        deletes'[q].node = deletes[q].node /\ (deletes'[q].gone => deletes'[q].node # NoNode)
  BY <1>1, <1>2, <1>3 DEF OwnedInv, CacheTypes, Places
<1>7. queue' \in Seq(Nodes) /\ IsInjective(queue') /\ ToSet(queue') = ToSet(queue)
  BY <1>4 DEF OwnedInv, QueueOK
<1> QED BY <1>4, <1>5, <1>6, <1>7, QuietStep

\* The deleter takes the mutex again and frees the node unless a request joined it meanwhile.
LEMMA DeleteEndOwned ==
  ASSUME OwnedInv, NEW p \in Processes, DeleteEnd(p) PROVE OwnedInv'
<1> USE DEF OwnedInv
<1> DEFINE n == deletes[p].node
<1>1. QueueOK' /\ Counted' /\ OwnKey' /\ UpdatingIsOwned'
  BY DeleteEndStep
<1>2. n \in Nodes /\ node[n] \in NodeType
  BY DEF DeleteEnd, Places, CacheTypes
<1>3. \E x \in NodeType : node' = [node EXCEPT ![n] = x]
  <2>1. CASE node[n].count = 1
    <3>1. node' = [node EXCEPT ![n] = Unused]
      BY <2>1 DEF DeleteEnd, FreeNode
    <3> QED BY <3>1, Empties
  <2>2. CASE node[n].count # 1
    <3>1. node' = [node EXCEPT ![n] = Deleted(node[n])]
      BY <2>2 DEF DeleteEnd
    <3>2. Deleted(node[n]) \in NodeType
      BY <1>2, DeletedFields
    <3> QED BY <3>1, <3>2
  <2> QED BY <2>1, <2>2
<1>4. /\ conf' = conf /\ ctx' = ctx /\ size' = size /\ cold' = cold /\ files' = files
      /\ loader' = loader /\ seen' = seen /\ deletes' = [deletes EXCEPT ![p] = NoDelete]
  BY DEF DeleteEnd
<1>5. CacheTypes'
  <2>1. PICK x \in NodeType : node' = [node EXCEPT ![n] = x]
    BY <1>3
  <2>2. node' \in [Nodes -> NodeType]
    BY <2>1 DEF CacheTypes
  <2>3. deletes' \in [Processes -> [node : Nodes \cup {NoNode}, gone : BOOLEAN]]
    BY <1>4, Empties DEF CacheTypes
  <2> QED BY <1>4, <2>2, <2>3 DEF CacheTypes
<1>6. \A q \in Processes : deletes'[q] = deletes[q] \/ deletes'[q] = NoDelete
  BY <1>4 DEF CacheTypes
<1>7. Places'
  BY <1>4, <1>6, Empties DEF Places, Processes
<1> QED BY <1>1, <1>5, <1>7

\* The cache manager and a forced expiry count on a node before they drop the mutex.
LEMMA ManagerOwned ==
  ASSUME OwnedInv, Expire \/ Shrink PROVE OwnedInv'
<1> USE DEF OwnedInv
<1>1. /\ conf' = conf /\ files' = files /\ cold' = cold /\ loader' = loader /\ seen' = seen /\ ctx' = ctx
      /\ Manager \in Processes /\ deletes[Manager].node = NoNode
  BY Empties DEF Expire, Shrink, Processes
<1>2. /\ ctx' \in [CacheRequests -> CtxType]
      /\ \A s \in CacheRequests :
           /\ ctx'[s] = ctx[s] \/ (ctx[s].node = NoNode /\ ctx'[s].node = NoNode)
           /\ ctx'[s].node = NoNode <=> ctx'[s].pc \in Away
           /\ ctx'[s].pc # "idle" => ctx'[s].key \in Keys
           /\ deletes[s].node # NoNode \/ s = Manager => ctx'[s].pc = "forced"
  BY <1>1, CacheAssumption DEF CacheTypes, Places
<1>3. CASE \E n \in Nodes : Allocated(n) /\ node[n].count = 0 /\ Delete(Manager, n)
  BY <1>1, <1>2, <1>3, DeleteOwned
<1>4. ASSUME NEW n \in Nodes, Allocated(n), queue' = ToHead(n), UNCHANGED <<node, size, deletes>> PROVE OwnedInv'
  <2>1. queue' \in Seq(Nodes) /\ IsInjective(queue') /\ ToSet(queue') = ToSet(queue)
    BY <1>4, QueueUsed
  <2>2. CacheTypes'
    BY <1>1, <1>4 DEF CacheTypes
  <2> QED BY <1>1, <1>4, <2>1, <2>2, QuietStep DEF Places
<1>5. CASE UNCHANGED <<node, queue, size, deletes>>
  <2>1. queue' \in Seq(Nodes) /\ IsInjective(queue') /\ ToSet(queue') = ToSet(queue)
    BY <1>5 DEF QueueOK
  <2>2. CacheTypes'
    BY <1>1, <1>5 DEF CacheTypes
  <2> QED BY <1>1, <1>5, <2>1, <2>2, QuietStep DEF Places
<1>6. CASE Shrink
  <2>1. ForcedExpire(Manager)
    BY <1>6 DEF Shrink
  <2> QED BY <1>3, <1>5, <2>1, ForcedTakes
<1>7. CASE Expire
  <2> DEFINE n == Last(queue)
  <2>1. n \in Nodes /\ Allocated(n)
    <3>1. queue \in Seq(Nodes) /\ queue # <<>>
      BY <1>7 DEF Expire, QueueOK
    <3>2. Len(queue) \in DOMAIN queue
      BY <3>1, LenProperties, EmptySeq
    <3> QED BY <3>1, <3>2, InDomain DEF Last, QueueOK, ToSet
  <2>2. \/ node[n].count = 0 /\ Delete(Manager, n)
        \/ queue' = ToHead(n) /\ UNCHANGED <<node, size, deletes>>
    BY <1>7 DEF Expire
  <2> HIDE DEF n
  <2> QED BY <1>3, <1>4, <2>1, <2>2
<1> QED BY <1>6, <1>7

\* ngx_http_file_cache_exists in its three outcomes: a node found, a node made, no memory.
LEMMA ExistsOwned ==
  ASSUME OwnedInv, NEW r \in CacheRequests, Exists(r) PROVE OwnedInv'
<1> USE DEF OwnedInv
<1>1. r \in Processes /\ (deletes[r] = NoDelete => deletes[r].node = NoNode) /\ ctx[r] \in CtxType
  BY Empties DEF Processes, CacheTypes
<1>2. ctx[r].pc = "exists" => deletes[r].node = NoNode
  BY DEF Places
<1>3. ASSUME ctx[r].pc = "exists", NEW n \in Nodes, ExistsFound(r, n) PROVE OwnedInv'
  BY <1>3, FoundOwned
<1>4. ASSUME ctx[r].pc \in {"exists", "forced"}, deletes[r].node = NoNode, ExistsNew(r) PROVE OwnedInv'
  BY <1>4, NewOwned
<1>5. ASSUME ctx[r].pc = "exists", Step(r, "forced"), ForcedExpire(r),
             UNCHANGED <<conf, files, cold, loader, seen>>
      PROVE  OwnedInv'
  <2> DEFINE c == [ctx[r] EXCEPT !.pc = "forced"]
  <2>1. /\ ctx' = [ctx EXCEPT ![r] = c] /\ c \in CtxType /\ c.pc = "forced" /\ c.node = ctx[r].node
        /\ c.key = ctx[r].key /\ c.updating = ctx[r].updating
    BY <1>1, <1>5 DEF Step, CtxType, Away
  <2> HIDE DEF c
  <2>2. ctx'[r] = c /\ \A s \in CacheRequests \ {r} : ctx'[s] = ctx[s]
    BY <2>1 DEF CacheTypes
  <2>3. ctx[r].node = NoNode /\ ctx[r].key \in Keys
    BY <1>5 DEF Places, Away
  <2>4. /\ ctx' \in [CacheRequests -> CtxType]
        /\ \A s \in CacheRequests :
             /\ ctx'[s] = ctx[s] \/ (ctx[s].node = NoNode /\ ctx'[s].node = NoNode)
             /\ ctx'[s].node = NoNode <=> ctx'[s].pc \in Away
             /\ ctx'[s].pc # "idle" => ctx'[s].key \in Keys
             /\ deletes[s].node # NoNode \/ s = r => ctx'[s].pc = "forced"
    BY <2>1, <2>2, <2>3 DEF CacheTypes, Places, Away
  <2>5. CASE \E n \in Nodes : Allocated(n) /\ node[n].count = 0 /\ Delete(r, n)
    BY <1>1, <1>2, <1>5, <2>4, <2>5, DeleteOwned
  <2>6. CASE UNCHANGED <<node, queue, size, deletes>>
    <3>1. files' \subseteq Keys /\ seen' \in SeenType /\ seen'.died = seen.died
      BY <1>5 DEF CacheTypes
    <3> QED BY <1>5, <2>1, <2>3, <2>6, <3>1, CtxStep DEF Away
  <2> QED BY <1>5, <2>5, <2>6, ForcedTakes
<1>6. ASSUME ctx[r].pc = "forced", deletes[r].node = NoNode, ctx' = [ctx EXCEPT ![r] = IdleCtx],
             UNCHANGED <<conf, node, queue, size, files, cold, deletes, loader, seen>>
      PROVE  OwnedInv'
  <2>1. ctx[r].node = NoNode
    BY <1>6 DEF Places, Away
  <2>2. files' \subseteq Keys /\ seen' \in SeenType /\ seen'.died = seen.died
    BY <1>6 DEF CacheTypes
  <2> QED BY <1>6, <2>1, <2>2, Empties, CtxStep DEF Away
<1> QED BY <1>1, <1>2, <1>3, <1>4, <1>5, <1>6 DEF Exists

\* A worker that dies leaves its counts on the nodes it held or was deleting.
LEMMA DieOwned ==
  ASSUME OwnedInv, NEW r \in CacheRequests, Die(r) PROVE OwnedInv'
<1> USE DEF OwnedInv
<1>1. QueueOK' /\ Counted' /\ OwnKey' /\ UpdatingIsOwned'
  BY DieStep
<1> DEFINE n == IF ctx[r].node # NoNode THEN ctx[r].node ELSE deletes[r].node
<1>2. /\ ctx' = [ctx EXCEPT ![r] = IdleCtx] /\ deletes' = [deletes EXCEPT ![r] = NoDelete]
      /\ seen' = [seen EXCEPT !.deaths = @ + 1, !.died = [seen.died EXCEPT ![n] = @ + 1]]
      /\ conf' = conf /\ node' = node /\ queue' = queue /\ size' = size /\ cold' = cold /\ files' = files
      /\ loader' = loader
  BY DEF Die
<1>3. n \in Nodes \cup {NoNode}
  BY DEF CacheTypes, CtxType, Processes
<1> HIDE DEF n
<1> DEFINE d == [seen.died EXCEPT ![n] = @ + 1]
<1>4. d \in [Nodes \cup {NoNode} -> Nat]
  BY <1>3 DEF CacheTypes, SeenType
<1>5. seen' \in SeenType
  <2>1. seen' = [seen EXCEPT !.deaths = seen.deaths + 1, !.died = d] /\ seen.deaths + 1 \in Nat /\ seen \in SeenType
    BY <1>2 DEF CacheTypes, SeenType
  <2> HIDE DEF d
  <2> QED BY <1>4, <2>1 DEF SeenType
<1>6. CacheTypes'
  BY <1>2, <1>5, Empties DEF CacheTypes
<1>7. /\ \A s \in CacheRequests : (s # r => ctx'[s] = ctx[s]) /\ (s = r => ctx'[s] = IdleCtx)
      /\ \A q \in Processes : deletes'[q] = deletes[q] \/ deletes'[q] = NoDelete
      /\ r \in Processes /\ deletes'[r] = NoDelete
  <2>1. r \in Processes
    BY DEF Processes
  <2>2. ctx'[r] = IdleCtx /\ \A s \in CacheRequests : s # r => ctx'[s] = ctx[s]
    BY <1>2 DEF CacheTypes
  <2>3. deletes'[r] = NoDelete /\ \A q \in Processes : q # r => deletes'[q] = deletes[q]
    BY <1>2, <2>1 DEF CacheTypes
  <2>4. \A s \in CacheRequests : (s # r => ctx'[s] = ctx[s]) /\ (s = r => ctx'[s] = IdleCtx)
    BY <2>2
  <2>5. ASSUME NEW q \in Processes PROVE deletes'[q] = deletes[q] \/ deletes'[q] = NoDelete
    BY <2>3
  <2> QED BY <2>1, <2>3, <2>4, <2>5
<1>8. Places'
  BY <1>7, Empties DEF Places, Away, Processes
<1> QED BY <1>1, <1>6, <1>8

\* The loader adds the files it finds, as nodes that nobody counts on.
LEMMA LoaderOwned ==
  ASSUME OwnedInv, LoaderAdd \/ LoaderDelete \/ LoaderEnd PROVE OwnedInv'
<1> USE DEF OwnedInv
<1>1. conf' = conf /\ ctx' = ctx /\ deletes' = deletes /\ seen' = seen
  BY DEF LoaderAdd, LoaderDelete, LoaderEnd
<1>2. \A p \in Processes : deletes'[p].node = deletes[p].node /\ (deletes'[p].gone => deletes'[p].node # NoNode)
  BY <1>1 DEF Places
<1>3. /\ loader.left \subseteq Keys /\ loader.at \in Keys \cup {NoKey} /\ files \subseteq Keys
      /\ loader = [left |-> loader.left, at |-> loader.at]
  BY DEF CacheTypes
<1>4. CASE LoaderDelete \/ LoaderEnd
  <2>1. node' = node /\ queue' = queue /\ size' = size /\ files' \subseteq Keys /\ cold' \in BOOLEAN
    BY <1>3, <1>4 DEF LoaderDelete, LoaderEnd, CacheTypes
  <2>2. loader'.left \subseteq Keys /\ loader'.at \in Keys \cup {NoKey} /\ loader' = [left |-> loader'.left, at |-> loader'.at]
    BY <1>3, <1>4 DEF LoaderDelete, LoaderEnd
  <2>3. CacheTypes'
    BY <1>1, <2>1, <2>2 DEF CacheTypes
  <2>4. queue' \in Seq(Nodes) /\ IsInjective(queue') /\ ToSet(queue') = ToSet(queue)
    BY <2>1 DEF QueueOK
  <2> QED BY <1>1, <1>2, <2>1, <2>3, <2>4, QuietStep
<1>5. CASE LoaderAdd
  <2>1. PICK k \in loader.left :
          \/ \E n \in Lookup(k) :
               queue' = ToHead(n) /\ loader' = [loader EXCEPT !.left = @ \ {k}] /\ UNCHANGED <<node, size>>
          \/ \E n \in Nodes :
               /\ Lookup(k) = {} /\ ~Allocated(n)
               /\ node' = [node EXCEPT ![n] = [Unused EXCEPT !.key = k, !.uses = 1, !.exists = TRUE, !.fs = 1]]
               /\ queue' = <<n>> \o queue
               /\ size' = size + 1
               /\ loader' = [loader EXCEPT !.left = @ \ {k}]
          \/ loader' = [left |-> loader.left \ {k}, at |-> k] /\ UNCHANGED <<node, queue, size>>
    BY <1>5 DEF LoaderAdd
  <2>2. /\ loader'.left \subseteq Keys /\ loader'.at \in Keys \cup {NoKey}
        /\ loader' = [left |-> loader'.left, at |-> loader'.at]
    <3>1. CASE loader' = [loader EXCEPT !.left = @ \ {k}]
      BY <1>3, <3>1
    <3>2. CASE loader' = [left |-> loader.left \ {k}, at |-> k]
      BY <1>3, <3>2
    <3> QED BY <2>1, <3>1, <3>2
  <2>3. files' = files /\ cold' = cold /\ k \in Keys /\ k # NoKey
    BY <1>3, <1>5, CacheAssumption DEF LoaderAdd
  <2>4. ASSUME NEW n \in Lookup(k), queue' = ToHead(n), UNCHANGED <<node, size>> PROVE OwnedInv'
    <3>1. n \in Nodes /\ Allocated(n)
      BY <2>3 DEF Lookup, Allocated
    <3>2. queue' \in Seq(Nodes) /\ IsInjective(queue') /\ ToSet(queue') = ToSet(queue)
      BY <2>4, <3>1, QueueUsed
    <3>3. CacheTypes'
      BY <1>1, <2>2, <2>3, <2>4 DEF CacheTypes
    <3> QED BY <1>1, <1>2, <2>4, <3>2, <3>3, QuietStep
  <2>5. CASE UNCHANGED <<node, queue, size>>
    <3>1. CacheTypes'
      BY <1>1, <2>2, <2>3, <2>5 DEF CacheTypes
    <3>2. queue' \in Seq(Nodes) /\ IsInjective(queue') /\ ToSet(queue') = ToSet(queue)
      BY <2>5 DEF QueueOK
    <3> QED BY <1>1, <1>2, <2>5, <3>1, <3>2, QuietStep
  <2>6. ASSUME NEW n \in Nodes, ~Allocated(n),
               node' = [node EXCEPT ![n] = [Unused EXCEPT !.key = k, !.uses = 1, !.exists = TRUE, !.fs = 1]],
               queue' = <<n>> \o queue, size' = size + 1
        PROVE  OwnedInv'
    <3>1. QueueOK' /\ Counted' /\ OwnKey' /\ UpdatingIsOwned'
      BY <1>1, <2>3, <2>6, LoaderNewStep
    <3> DEFINE x == [Unused EXCEPT !.key = k, !.uses = 1, !.exists = TRUE, !.fs = 1]
    <3>2. x \in NodeType
      <4>1. x = [Unused EXCEPT !.key = k, !.uses = 1, !.exists = TRUE, !.fs = 1]
        OBVIOUS
      <4> HIDE DEF x
      <4> QED BY <2>3, <4>1, LoadedFields
    <3> HIDE DEF x
    <3>3. CacheTypes'
      <4>1. node' = [node EXCEPT ![n] = x] /\ size' \in Int
        BY <2>6 DEF x, CacheTypes
      <4> QED BY <1>1, <2>2, <2>3, <3>2, <4>1 DEF CacheTypes
    <3>4. Places'
      BY <1>1 DEF Places
    <3> QED BY <3>1, <3>3, <3>4
  <2> QED BY <2>1, <2>4, <2>5, <2>6
<1> QED BY <1>4, <1>5

-----------------------------------------------------------------------------
(* The nodes are owned *)

\* At the start of the zone no node is allocated.
LEMMA OwnedInit == CacheInit => OwnedInv
<1> SUFFICES ASSUME CacheInit PROVE OwnedInv
  OBVIOUS
<1>1. CacheTypes
  <2>1. seen \in SeenType
    BY DEF CacheInit, SeenType
  <2>2. loader.left \subseteq Keys /\ loader.at \in Keys \cup {NoKey} /\ loader = [left |-> loader.left, at |-> loader.at]
    BY DEF CacheInit
  <2>3. /\ node \in [Nodes -> NodeType] /\ ctx \in [CacheRequests -> CtxType] /\ conf \in CacheConfs
        /\ deletes \in [Processes -> [node : Nodes \cup {NoNode}, gone : BOOLEAN]]
        /\ size \in Int /\ cold \in BOOLEAN /\ files \subseteq Keys
    BY Empties DEF CacheInit
  <2> QED BY <2>1, <2>2, <2>3 DEF CacheTypes
<1>2. /\ \A r \in CacheRequests : ctx[r] = IdleCtx
      /\ \A p \in Processes : deletes[p] = NoDelete
      /\ \A n \in Nodes : node[n] = Unused /\ seen.died[n] = 0 /\ ~Allocated(n)
      /\ queue = <<>>
  BY Empties DEF CacheInit, Allocated
<1>3. Places
  BY <1>2, Empties DEF Places, Away, Processes
<1>4. QueueOK
  <2>1. queue \in Seq(Nodes) /\ DOMAIN queue = {}
    BY <1>2, LenProperties
  <2>2. IsInjective(queue) /\ ToSet(queue) = {}
    BY <2>1 DEF IsInjective, ToSet
  <2> QED BY <1>2, <2>1, <2>2 DEF QueueOK
<1>5. \A n \in Nodes : Holders(n) = {} /\ Deleters(n) = {}
  BY <1>2, Empties, CacheAssumption DEF Holders, Deleters
<1>6. Counted
  <2> SUFFICES ASSUME NEW n \in Nodes PROVE node[n].count = Pointers(n)
    BY DEF Counted
  <2>1. Holders(n) = {} /\ Deleters(n) = {} /\ seen.died[n] = 0 /\ node[n].count = 0
    BY <1>2, <1>5, Empties
  <2>2. Cardinality(Holders(n)) = 0 /\ Cardinality(Deleters(n)) = 0
    BY <2>1, FS_EmptySet
  <2> QED BY <2>1, <2>2 DEF Pointers
<1>7. OwnKey
  BY <1>2, Empties DEF OwnKey
<1>8. UpdatingIsOwned
  BY <1>2, Empties DEF UpdatingIsOwned
<1> QED BY <1>1, <1>3, <1>4, <1>6, <1>7, <1>8 DEF OwnedInv

\* Every action keeps what the nodes say of their owners.
LEMMA OwnedNext == OwnedInv /\ [CacheNext]_cacheVars => OwnedInv'
<1> SUFFICES ASSUME OwnedInv, [CacheNext]_cacheVars PROVE OwnedInv'
  OBVIOUS
<1>1. ASSUME NEW r \in CacheRequests,
             Start(r) \/ Exists(r) \/ Open(r) \/ Read(r) \/ Validate(r) \/ Rename(r) \/ Update(r) \/ Free(r) \/ Die(r)
      PROVE  OwnedInv'
  BY <1>1, StartOwned, ExistsOwned, OpenOwned, ReadOwned, ValidateOwned, RenameOwned, UpdateOwned, FreeOwned, DieOwned
<1>2. ASSUME NEW p \in Processes, DeleteFile(p) \/ DeleteEnd(p) PROVE OwnedInv'
  BY <1>2, DeleteFileOwned, DeleteEndOwned
<1>3. CASE Expire \/ Shrink
  BY <1>3, ManagerOwned
<1>4. CASE LoaderAdd \/ LoaderDelete \/ LoaderEnd
  BY <1>4, LoaderOwned
<1>5. CASE UNCHANGED cacheVars
  BY <1>5 DEF cacheVars, OwnedInv, CacheTypes, Places, QueueOK, Allocated, Counted, Pointers, Holders, Deleters,
              OwnKey, UpdatingIsOwned
<1> QED BY <1>1, <1>2, <1>3, <1>4, <1>5 DEF CacheNext

\* The inductive invariant implies the property of the run.
LEMMA OwnedImplies == OwnedInv => NodesOwned
<1> SUFFICES ASSUME OwnedInv PROVE NodesOwned
  OBVIOUS
<1> USE DEF OwnedInv
<1>1. ASSUME NEW n \in Nodes
      PROVE  /\ node[n].count = Cardinality(Holders(n)) + Cardinality(Deleters(n)) + seen.died[n]
             /\ node[n].count \in Nat /\ node[n].key \in Keys \cup {NoKey}
             /\ ~Allocated(n) => Holders(n) \cup Deleters(n) = {}
  <2> DEFINE a == Cardinality(Holders(n)) b == Cardinality(Deleters(n)) d == seen.died[n]
  <2>1. a \in Nat /\ b \in Nat /\ d \in Nat /\ node[n].count = a + b + d /\ node[n].key \in Keys \cup {NoKey}
    BY PointersNat DEF Counted, Pointers, CacheTypes, SeenType, NodeType
  <2>2. ~Allocated(n) => node[n].count = 0
    BY Empties DEF QueueOK
  <2> HIDE DEF a, b, d
  <2>3. node[n].count \in Nat /\ (~Allocated(n) => a = 0 /\ b = 0)
    BY <2>1, <2>2
  <2> QED BY <2>1, <2>3, PointersNat DEF a, b, d
<1>2. CacheTypeOK
  <2>1. Len(queue) = Cardinality(ToSet(queue))
    BY ListLength DEF QueueOK
  <2> QED BY <1>1, <2>1 DEF CacheTypeOK, QueueOK, CacheTypes
<1>3. NodeCounted
  BY <1>1 DEF NodeCounted
<1> QED BY <1>2, <1>3 DEF NodesOwned

\* No node of the cache is freed or given to another key while a request uses it or a process
\* deletes its file, and the flag for an update in progress is never left behind: fcn->count is
\* exactly the pointers that live workers hold and that killed ones held.
THEOREM NodesKept == CacheSpec => []NodesOwned
<1>1. CacheSpec => []OwnedInv
  BY OwnedInit, OwnedNext, PTL DEF CacheSpec
<1> QED BY <1>1, OwnedImplies, PTL

-----------------------------------------------------------------------------
(* The zone and the disk *)

Sized == {m \in Nodes : node[m].exists /\ ~node[m].deleting}

\* The nodes that account for a size, when one of them changes.
LEMMA SizedStep ==
  ASSUME NEW n \in Nodes,
         \A m \in Nodes \ {n} :
           (node'[m].exists /\ ~node'[m].deleting) <=> (node[m].exists /\ ~node[m].deleting)
  PROVE  /\ Cardinality(Sized) \in Nat
         /\ Cardinality(Sized') = Cardinality(Sized)
              + (IF node'[n].exists /\ ~node'[n].deleting THEN 1 ELSE 0)
              - (IF node[n].exists /\ ~node[n].deleting THEN 1 ELSE 0)
<1> DEFINE A == Sized B == Sized'
<1>1. /\ A \in SUBSET Nodes /\ B \in SUBSET Nodes /\ \A m \in Nodes \ {n} : m \in A <=> m \in B
      /\ n \in A <=> node[n].exists /\ ~node[n].deleting
      /\ n \in B <=> node'[n].exists /\ ~node'[n].deleting
      /\ IsFiniteSet(Nodes)
  BY CacheAssumption DEF Sized
<1> HIDE DEF A, B
<1>2. /\ Cardinality(A) \in Nat
      /\ Cardinality(B) = Cardinality(A) + (IF n \in B THEN 1 ELSE 0) - (IF n \in A THEN 1 ELSE 0)
  BY <1>1, PointersMove
<1> QED BY <1>1, <1>2 DEF A, B

\* While nobody has joined a node under deletion, the node of a request is not deleted.
LEMMA HeldAlone ==
  ASSUME DeletedAlone, ~seen.joined, NEW n \in Nodes, NEW r \in Holders(n)
  PROVE  Deleters(n) = {} /\ ~node[n].deleting
BY DEF DeletedAlone

\* A request keeps its node, gives it back, or gets one whose file nobody is deleting.
Settled(old, new) == new \in {old, NoNode} \/ ~node[new].deleting \/ seen'.joined

\* The only pointer to a node is that of whoever holds it, and not of a worker that died.
LEMMA CountOne ==
  ASSUME OwnedInv, NEW n \in Nodes, node[n].count = 1, Holders(n) # {} \/ Deleters(n) # {}
  PROVE  seen.died[n] = 0
<1> DEFINE a == Cardinality(Holders(n)) b == Cardinality(Deleters(n)) d == seen.died[n]
<1>1. a \in Nat /\ b \in Nat /\ d \in Nat /\ 1 = a + b + d /\ (a # 0 \/ b # 0)
  BY PointersNat DEF OwnedInv, Counted, Pointers, CacheTypes, SeenType
<1> HIDE DEF a, b, d
<1>2. d = 0
  BY <1>1
<1> QED BY <1>2 DEF d

\* A step that neither adds nor removes a file, nor a deletion, nor a node that stands for a file,
\* unless it is one of the exceptions.
LEMMA DiskKeep ==
  ASSUME OwnedInv, DiskInv, conf' = conf, size' = size, files' = files, deletes' = deletes,
         conf.warm => ~cold' /\ loader'.at = loader.at,
         ~seen'.joined => ~seen.joined, ~seen'.renewed => ~seen.renewed,
         ~seen'.unrenamed => ~seen.unrenamed, seen'.died = seen.died,
         \A m \in Nodes :
           /\ seen'.renewed \/ (node'[m].exists <=> node[m].exists)
           /\ \/ node'[m].fs = node[m].fs /\ (node'[m].exists <=> node[m].exists)
              \/ node'[m].fs = 0 /\ ~node'[m].exists
           /\ node'[m].exists \/ seen.died[m] > 0 => node'[m].key = node[m].key
           /\ ~seen'.joined => (node'[m].deleting <=> node[m].deleting)
           /\ node[m].deleting /\ ~seen'.joined => node'[m].count = node[m].count,
         \A s \in CacheRequests :
           /\ ctx[s].pc = "update" => ctx'[s] = ctx[s]
           /\ ctx'[s].pc = "update" => ctx[s].pc = "update"
           /\ Settled(ctx[s].node, ctx'[s].node)
  PROVE  DiskInv'
<1> USE DEF DiskInv
<1>1. \A m \in Nodes : Deleters(m)' = Deleters(m) /\ m # NoNode
  BY CacheAssumption DEF Deleters
<1>2. DeletedAlone'
  <2> SUFFICES ASSUME ~seen'.joined, NEW m \in Nodes
      PROVE  /\ node'[m].deleting => Holders(m)' = {} /\ node'[m].count # 0
             /\ Deleters(m)' # {} => node'[m].deleting /\ node'[m].count = 1
    BY DEF DeletedAlone
  <2>1. node[m].deleting => Holders(m)' = {}
    BY <1>1 DEF DeletedAlone, Holders, Settled
  <2> QED BY <1>1, <2>1 DEF DeletedAlone
<1>3. FsOK'
  <2> SUFFICES ASSUME ~seen'.unrenamed
      PROVE  /\ \A m \in Nodes : node'[m].fs = IF node'[m].exists THEN 1 ELSE 0
             /\ \A s \in CacheRequests : ctx'[s].pc = "update" => ctx'[s].renamed
    BY DEF FsOK
  <2>1. ASSUME NEW m \in Nodes PROVE node'[m].fs = IF node'[m].exists THEN 1 ELSE 0
    BY DEF FsOK
  <2>2. ASSUME NEW s \in CacheRequests, ctx'[s].pc = "update" PROVE ctx'[s].renamed
    BY <2>2 DEF FsOK
  <2> QED BY <2>1, <2>2
<1>4. SizeExact'
  <2> SUFFICES ASSUME ~(seen'.joined \/ seen'.renewed \/ seen'.unrenamed)
      PROVE  size' = Cardinality(Sized')
    BY DEF SizeExact, Sized
  <2>1. Sized' = Sized
    BY DEF Sized
  <2> QED BY <2>1 DEF SizeExact, Sized
<1>5. FilesCovered'
  <2>1. conf.warm => ~cold' /\ loader'.at = NoKey
    BY DEF FilesCovered
  <2>2. ASSUME conf.warm, ~(seen'.joined \/ seen'.renewed), NEW k \in files
        PROVE  \/ \E n \in Nodes : Covers(n, k)'
               \/ \E r \in CacheRequests : ctx'[r].key = k /\ ctx'[r].pc = "update" /\ ctx'[r].renamed
    <3>1. \/ \E n \in Nodes : Covers(n, k)
          \/ \E r \in CacheRequests : ctx[r].key = k /\ ctx[r].pc = "update" /\ ctx[r].renamed
      BY <2>2 DEF FilesCovered
    <3>2. \A n \in Nodes : Covers(n, k) => Covers(n, k)'
      BY <1>1, <2>2 DEF Covers
    <3> QED BY <3>1, <3>2
  <2> QED BY <2>1, <2>2 DEF FilesCovered
<1> QED BY <1>2, <1>3, <1>4, <1>5

\* A request that is not at an update goes on, and does not come to one; the nodes keep their files.
LEMMA CtxDisk ==
  ASSUME OwnedInv, DiskInv, NEW r \in CacheRequests, NEW c, ctx' = [ctx EXCEPT ![r] = c],
         ctx[r].pc # "update", c.pc # "update", Settled(ctx[r].node, c.node),
         conf' = conf, size' = size, files' = files, deletes' = deletes, cold' = cold, loader' = loader,
         ~seen'.joined => ~seen.joined, ~seen'.renewed => ~seen.renewed,
         ~seen'.unrenamed => ~seen.unrenamed, seen'.died = seen.died,
         \A m \in Nodes :
           /\ seen'.renewed \/ (node'[m].exists <=> node[m].exists)
           /\ \/ node'[m].fs = node[m].fs /\ (node'[m].exists <=> node[m].exists)
              \/ node'[m].fs = 0 /\ ~node'[m].exists
           /\ node'[m].exists \/ seen.died[m] > 0 => node'[m].key = node[m].key
           /\ ~seen'.joined => (node'[m].deleting <=> node[m].deleting)
           /\ node[m].deleting /\ ~seen'.joined => node'[m].count = node[m].count
  PROVE  DiskInv'
<1>1. conf.warm => ~cold' /\ loader'.at = loader.at
  BY DEF DiskInv, FilesCovered
<1>2. \A s \in CacheRequests :
        /\ ctx[s].pc = "update" => ctx'[s] = ctx[s]
        /\ ctx'[s].pc = "update" => ctx[s].pc = "update"
        /\ Settled(ctx[s].node, ctx'[s].node)
  BY DEF OwnedInv, CacheTypes, Settled
<1> QED BY <1>1, <1>2, DiskKeep

\* A request that is given its key touches no file.
LEMMA StartDisk ==
  ASSUME OwnedInv, DiskInv, NEW r \in CacheRequests, Start(r) PROVE DiskInv'
<1>1. PICK k \in Keys, b \in BOOLEAN : ctx' = [ctx EXCEPT ![r] = [IdleCtx EXCEPT !.pc = "exists", !.key = k, !.bypass = b]]
  BY DEF Start
<1> DEFINE c == [IdleCtx EXCEPT !.pc = "exists", !.key = k, !.bypass = b]
<1>2. /\ c.pc = "exists" /\ ctx[r].pc = "idle" /\ ctx' = [ctx EXCEPT ![r] = c]
      /\ Settled(ctx[r].node, c.node)
  BY <1>1 DEF Start, IdleCtx, Settled
<1> HIDE DEF c
<1>3. /\ seen'.joined = seen.joined /\ seen'.renewed = seen.renewed /\ seen'.unrenamed = seen.unrenamed
      /\ seen'.died = seen.died
  BY DEF Start, OwnedInv, CacheTypes, SeenType
<1>4. /\ conf' = conf /\ node' = node /\ size' = size /\ files' = files /\ deletes' = deletes
      /\ cold' = cold /\ loader' = loader
  BY DEF Start
<1> QED BY <1>2, <1>3, <1>4, CtxDisk

\* Opening a file changes neither the files nor the sum of their sizes.
LEMMA OpenDisk ==
  ASSUME OwnedInv, DiskInv, NEW r \in CacheRequests, Open(r) PROVE DiskInv'
<1> DEFINE new  == ctx[r].pc = "opennew"
           test == IF new THEN cold ELSE ctx[r].exists
           c == [ctx[r] EXCEPT !.pc = IF test /\ ctx[r].key \in files THEN "read" ELSE "fetch",
                               !.scarce = new /\ conf.min > 1]
<1>1. /\ c.pc # "update" /\ ctx[r].pc # "update" /\ ctx' = [ctx EXCEPT ![r] = c]
      /\ Settled(ctx[r].node, c.node)
  BY DEF Open, OwnedInv, CacheTypes, CtxType, Settled
<1> HIDE DEF c
<1>2. /\ conf' = conf /\ node' = node /\ size' = size /\ files' = files /\ deletes' = deletes
      /\ cold' = cold /\ loader' = loader /\ seen' = seen
  BY DEF Open
<1> QED BY <1>1, <1>2, CtxDisk

\* A validated answer keeps the agreement of the zone and the disk.
LEMMA ValidateDisk ==
  ASSUME OwnedInv, DiskInv, NEW r \in CacheRequests, Validate(r) PROVE DiskInv'
<1> DEFINE n == ctx[r].node
<1>1. ctx[r] \in CtxType /\ ctx[r].pc = "validate" /\ n \in Nodes /\ node \in [Nodes -> NodeType]
  BY DEF Validate, OwnedInv, CacheTypes, CtxType, Places, Away
<1>2. /\ conf' = conf /\ size' = size /\ files' = files
      /\ cold' = cold /\ deletes' = deletes /\ loader' = loader /\ seen' = seen
  BY DEF Validate
<1>3. \E c : ctx' = [ctx EXCEPT ![r] = c] /\ c.pc # "update" /\ c.node = ctx[r].node
  <2>1. \A c \in {[ctx[r] EXCEPT !.pc = "serve"],
                  [ctx[r] EXCEPT !.pc = IF conf.stale THEN "serve" ELSE "fetch", !.scarce = FALSE],
                  [ctx[r] EXCEPT !.updating = TRUE, !.pc = "fetch", !.scarce = FALSE]} :
          c.pc # "update" /\ c.node = ctx[r].node
    BY <1>1 DEF CtxType
  <2> QED BY <2>1 DEF Validate, Step
<1>4. \A m \in Nodes : /\ node'[m].exists = node[m].exists /\ node'[m].fs = node[m].fs /\ node'[m].key = node[m].key
                       /\ node'[m].deleting = node[m].deleting /\ node'[m].count = node[m].count
  <2>1. CASE node' = node
    BY <2>1
  <2>2. CASE node' = [node EXCEPT ![n] = [@ EXCEPT !.updating = TRUE]]
    <3> DEFINE x == [node[n] EXCEPT !.updating = TRUE]
    <3>1. /\ x.exists = node[n].exists /\ x.fs = node[n].fs /\ x.key = node[n].key
          /\ x.deleting = node[n].deleting /\ x.count = node[n].count
      BY <1>1 DEF NodeType
    <3>2. node' = [node EXCEPT ![n] = x]
      BY <2>2
    <3> HIDE DEF x
    <3> QED BY <1>1, <3>1, <3>2
  <2> QED BY <2>1, <2>2 DEF Validate
<1>5. PICK c : ctx' = [ctx EXCEPT ![r] = c] /\ c.pc # "update" /\ c.node = ctx[r].node
  BY <1>3
<1>6. ctx[r].pc # "update" /\ Settled(ctx[r].node, c.node)
  BY <1>1, <1>5 DEF Settled
<1> QED BY <1>2, <1>4, <1>5, <1>6, CtxDisk

\* A node that is freed with its last request stands for no file.
LEMMA FreeDisk ==
  ASSUME OwnedInv, DiskInv, NEW r \in CacheRequests, Free(r) PROVE DiskInv'
<1> DEFINE n == ctx[r].node
<1>1. PICK x \in NodeType :
        /\ node' = [node EXCEPT ![n] = x]
        /\ \/ /\ x.key = node[n].key /\ x.exists = node[n].exists /\ x.fs = node[n].fs
              /\ x.deleting = node[n].deleting
           \/ /\ x = Unused /\ ~node[n].exists /\ node[n].count = 1
  BY FreeResult
<1>2. n \in Nodes /\ r \in Holders(n) /\ ctx[r].pc # "update" /\ IdleCtx.pc # "update" /\ ctx' = [ctx EXCEPT ![r] = IdleCtx]
  BY Empties DEF Free, OwnedInv, CacheTypes, CtxType, Places, Away, Holders
<1>3. /\ conf' = conf /\ size' = size /\ files' = files
      /\ cold' = cold /\ deletes' = deletes /\ loader' = loader /\ seen' = seen
  BY DEF Free
<1>4. ~seen.joined => ~node[n].deleting
  BY <1>2, HeldAlone DEF DiskInv
<1>5. node'[n] = x /\ \A m \in Nodes \ {n} : node'[m] = node[m]
  BY <1>1, <1>2 DEF OwnedInv, CacheTypes
<1>6. \/ /\ x.key = node[n].key /\ (x.exists <=> node[n].exists) /\ x.fs = node[n].fs
         /\ x.deleting = node[n].deleting
      \/ /\ ~x.exists /\ x.fs = 0 /\ ~node[n].exists /\ ~x.deleting /\ seen.died[n] = 0
  <2>1. node[n].count = 1 => seen.died[n] = 0
    BY <1>2, CountOne
  <2> QED BY <1>1, <2>1, Empties
<1> HIDE DEF n
<1>7. \A m \in Nodes :
           /\ seen'.renewed \/ (node'[m].exists <=> node[m].exists)
           /\ \/ node'[m].fs = node[m].fs /\ (node'[m].exists <=> node[m].exists)
              \/ node'[m].fs = 0 /\ ~node'[m].exists
           /\ node'[m].exists \/ seen.died[m] > 0 => node'[m].key = node[m].key
           /\ ~seen'.joined => (node'[m].deleting <=> node[m].deleting)
           /\ node[m].deleting /\ ~seen'.joined => node'[m].count = node[m].count
  BY <1>3, <1>4, <1>5, <1>6
<1>8. Settled(ctx[r].node, IdleCtx.node)
  BY Empties DEF Settled
<1> QED BY <1>2, <1>3, <1>7, <1>8, CtxDisk

\* A request that comes to a node whose file is being deleted joins it, and one for which the error
\* of a node with a file is no longer valid renews it: the two exceptions.
LEMMA FoundDisk ==
  ASSUME OwnedInv, DiskInv, NEW r \in CacheRequests, ctx[r].pc = "exists", NEW n \in Nodes, ExistsFound(r, n)
  PROVE  DiskInv'
<1> DEFINE f == Hold(node[n])
<1>1. ctx[r] \in CtxType /\ node[n] \in NodeType /\ seen \in SeenType /\ node \in [Nodes -> NodeType]
  BY DEF OwnedInv, CacheTypes
<1>2. /\ f \in NodeType /\ f.key = node[n].key /\ f.exists = node[n].exists /\ f.fs = node[n].fs
      /\ f.deleting = node[n].deleting /\ Renewed(f).deleting = f.deleting
      /\ Renewed(f).key = f.key /\ ~Renewed(f).exists /\ Renewed(f).fs = 0
  <2> DEFINE a == node[n]
  <2> HIDE DEF a
  <2>1. /\ Hold(a) \in NodeType /\ Hold(a).key = a.key /\ Hold(a).exists = a.exists /\ Hold(a).fs = a.fs
        /\ Hold(a).deleting = a.deleting
    BY <1>1, NodeFields DEF a, OwnedInv, CacheTypes
  <2> DEFINE b == Hold(a)
  <2>2. b \in NodeType
    BY <2>1
  <2> HIDE DEF b
  <2>3. Renewed(b).key = b.key /\ ~Renewed(b).exists /\ Renewed(b).fs = 0 /\ Renewed(b).deleting = b.deleting
    BY <2>2, NodeFields DEF OwnedInv, CacheTypes
  <2> QED BY <2>1, <2>3 DEF a, b
<1>3. \E x, c :
        /\ node' = [node EXCEPT ![n] = x] /\ ctx' = [ctx EXCEPT ![r] = c] /\ c.pc # "update" /\ c.node = n
        /\ x.key = node[n].key /\ x.deleting = node[n].deleting
        /\ \/ x.exists = node[n].exists /\ x.fs = node[n].fs
           \/ ~x.exists /\ x.fs = 0 /\ (node[n].exists => seen'.renewed)
        /\ ~seen'.joined => ~seen.joined /\ ~node[n].deleting
        /\ ~seen'.renewed => ~seen.renewed
        /\ seen'.unrenamed = seen.unrenamed /\ seen'.died = seen.died
  <2>1. ASSUME NEW rc, NEW x, After(r, rc, n, x) PROVE \E c : ctx' = [ctx EXCEPT ![r] = c] /\ c.pc # "update" /\ c.node = n
    <3> DEFINE pc == IF ctx[r].bypass \/ rc = "again" THEN "fetch"
                     ELSE IF rc = "error" THEN "serve" ELSE IF rc = "ok" THEN "open" ELSE "opennew"
               u == rc = "again" /\ ~ctx[r].bypass
               c == [ctx[r] EXCEPT !.node = n, !.exists = x.exists, !.error = x.error, !.scarce = u, !.pc = pc]
    <3>1. pc # "update" /\ ctx' = [ctx EXCEPT ![r] = c]
      BY <2>1 DEF After
    <3> HIDE DEF pc, u
    <3>2. c.pc = pc /\ c.node = n
      BY <1>1 DEF CtxType
    <3> QED BY <3>1, <3>2
  <2>2. CASE /\ node' = [node EXCEPT ![n] = f]
             /\ After(r, FoundRc(node[n]), n, f)
             /\ seen' = [seen EXCEPT !.joined = @ \/ node[n].deleting]
    <3>1. /\ ~seen'.joined => ~seen.joined /\ ~node[n].deleting
          /\ ~seen'.renewed => ~seen.renewed
          /\ seen'.unrenamed = seen.unrenamed /\ seen'.died = seen.died
      BY <1>1, <2>2 DEF SeenType
    <3>2. PICK c : ctx' = [ctx EXCEPT ![r] = c] /\ c.pc # "update" /\ c.node = n
      BY <2>1, <2>2
    <3> HIDE DEF f
    <3> QED BY <1>2, <2>2, <3>1, <3>2
  <2>3. CASE /\ node' = [node EXCEPT ![n] = Renewed(f)]
             /\ After(r, "declined", n, Renewed(f))
             /\ seen' = [seen EXCEPT !.joined = @ \/ node[n].deleting, !.renewed = @ \/ node[n].exists]
    <3>1. /\ ~seen'.joined => ~seen.joined /\ ~node[n].deleting
          /\ ~seen'.renewed => ~seen.renewed
          /\ node[n].exists => seen'.renewed
          /\ seen'.unrenamed = seen.unrenamed /\ seen'.died = seen.died
      BY <1>1, <2>3 DEF SeenType
    <3>2. PICK c : ctx' = [ctx EXCEPT ![r] = c] /\ c.pc # "update" /\ c.node = n
      BY <2>1, <2>3
    <3> HIDE DEF f
    <3> QED BY <1>2, <2>3, <3>1, <3>2
  <2> QED BY <2>2, <2>3 DEF ExistsFound
<1>4. PICK x, c :
        /\ node' = [node EXCEPT ![n] = x] /\ ctx' = [ctx EXCEPT ![r] = c] /\ c.pc # "update" /\ c.node = n
        /\ x.key = node[n].key /\ x.deleting = node[n].deleting
        /\ \/ x.exists = node[n].exists /\ x.fs = node[n].fs
           \/ ~x.exists /\ x.fs = 0 /\ (node[n].exists => seen'.renewed)
        /\ ~seen'.joined => ~seen.joined /\ ~node[n].deleting
        /\ ~seen'.renewed => ~seen.renewed
        /\ seen'.unrenamed = seen.unrenamed /\ seen'.died = seen.died
  BY <1>3
<1>5. node'[n] = x /\ \A m \in Nodes \ {n} : node'[m] = node[m]
  BY <1>1, <1>4
<1>6. Settled(ctx[r].node, c.node)
  BY <1>4 DEF Settled
<1>7. /\ conf' = conf /\ size' = size /\ files' = files
      /\ cold' = cold /\ deletes' = deletes /\ loader' = loader
  BY DEF ExistsFound
<1>8. \A m \in Nodes :
           /\ seen'.renewed \/ (node'[m].exists <=> node[m].exists)
           /\ \/ node'[m].fs = node[m].fs /\ (node'[m].exists <=> node[m].exists)
              \/ node'[m].fs = 0 /\ ~node'[m].exists
           /\ node'[m].exists \/ seen.died[m] > 0 => node'[m].key = node[m].key
           /\ ~seen'.joined => (node'[m].deleting <=> node[m].deleting)
           /\ node[m].deleting /\ ~seen'.joined => node'[m].count = node[m].count
  BY <1>4, <1>5
<1>9. ctx' = [ctx EXCEPT ![r] = c] /\ ctx[r].pc # "update" /\ c.pc # "update"
  BY <1>4
<1>10. /\ ~seen'.joined => ~seen.joined
       /\ ~seen'.renewed => ~seen.renewed
       /\ ~seen'.unrenamed => ~seen.unrenamed
       /\ seen'.died = seen.died
  BY <1>4
<1> HIDE DEF f
<1> QED BY <1>6, <1>7, <1>8, <1>9, <1>10, CtxDisk

\* A node allocated for a request stands for no file yet.
LEMMA NewDisk ==
  ASSUME OwnedInv, DiskInv, NEW r \in CacheRequests, ctx[r].pc \in {"exists", "forced"}, ExistsNew(r)
  PROVE  DiskInv'
<1>1. PICK n \in Nodes :
        /\ ~Allocated(n)
        /\ node' = [node EXCEPT ![n] = [Unused EXCEPT !.key = ctx[r].key, !.uses = 1, !.count = 1]]
        /\ After(r, "declined", n, Unused)
  BY DEF ExistsNew
<1>2. ctx[r] \in CtxType /\ node \in [Nodes -> NodeType] /\ node[n] = Unused
  BY <1>1 DEF OwnedInv, CacheTypes, QueueOK
<1> DEFINE x == [Unused EXCEPT !.key = ctx[r].key, !.uses = 1, !.count = 1]
<1>3. ~x.exists /\ x.fs = 0 /\ ~x.deleting /\ ~Unused.exists /\ ~Unused.deleting
  BY DEF Unused
<1>4. seen.died[n] = 0
  BY <1>2, Empties, FreeNodeAlone
<1>5. \E c : ctx' = [ctx EXCEPT ![r] = c] /\ c.pc # "update" /\ c.node = n
  <2> DEFINE pc == IF ctx[r].bypass \/ "declined" = "again" THEN "fetch"
                   ELSE IF "declined" = "error" THEN "serve"
                   ELSE IF "declined" = "ok" THEN "open" ELSE "opennew"
             u == "declined" = "again" /\ ~ctx[r].bypass
             c == [ctx[r] EXCEPT !.node = n, !.exists = Unused.exists, !.error = Unused.error, !.scarce = u,
                                 !.pc = pc]
  <2>1. pc # "update" /\ ctx' = [ctx EXCEPT ![r] = c]
    BY <1>1 DEF After
  <2> HIDE DEF pc, u
  <2>2. c.pc = pc /\ c.node = n
    BY <1>2 DEF CtxType
  <2> QED BY <2>1, <2>2
<1>6. PICK c : ctx' = [ctx EXCEPT ![r] = c] /\ c.pc # "update" /\ c.node = n
  BY <1>5
<1>7. node'[n] = x /\ \A m \in Nodes \ {n} : node'[m] = node[m]
  BY <1>1, <1>2
<1> HIDE DEF x
<1>8. /\ conf' = conf /\ size' = size /\ files' = files /\ seen' = seen
      /\ cold' = cold /\ deletes' = deletes /\ loader' = loader
  BY DEF ExistsNew
<1>9. \A m \in Nodes :
           /\ seen'.renewed \/ (node'[m].exists <=> node[m].exists)
           /\ \/ node'[m].fs = node[m].fs /\ (node'[m].exists <=> node[m].exists)
              \/ node'[m].fs = 0 /\ ~node'[m].exists
           /\ node'[m].exists \/ seen.died[m] > 0 => node'[m].key = node[m].key
           /\ ~seen'.joined => (node'[m].deleting <=> node[m].deleting)
           /\ node[m].deleting /\ ~seen'.joined => node'[m].count = node[m].count
  BY <1>2, <1>3, <1>4, <1>7
<1>10. ctx[r].pc # "update" /\ Settled(ctx[r].node, c.node)
  BY <1>2, <1>3, <1>6 DEF Settled
<1> QED BY <1>6, <1>8, <1>9, <1>10, CtxDisk

\* A worker that dies leaves its node to nobody, and the file of the node with it.
LEMMA DieDisk ==
  ASSUME OwnedInv, DiskInv, NEW r \in CacheRequests, Die(r) PROVE DiskInv'
<1> USE DEF DiskInv
<1> DEFINE n == IF ctx[r].node # NoNode THEN ctx[r].node ELSE deletes[r].node
<1>1. /\ ctx' = [ctx EXCEPT ![r] = IdleCtx] /\ deletes' = [deletes EXCEPT ![r] = NoDelete]
      /\ conf' = conf /\ node' = node /\ size' = size /\ cold' = cold /\ files' = files /\ loader' = loader
      /\ r \in Processes
  BY DEF Die, Processes
<1>2. /\ seen'.joined = seen.joined /\ seen'.unrenamed = seen.unrenamed /\ seen'.renewed = seen.renewed
      /\ \A m \in Nodes : seen.died[m] > 0 \/ m = n => seen'.died[m] > 0
  <2>1. /\ seen'.joined = seen.joined /\ seen'.unrenamed = seen.unrenamed /\ seen'.renewed = seen.renewed
        /\ seen'.died = [seen.died EXCEPT ![n] = @ + 1] /\ seen.died \in [Nodes \cup {NoNode} -> Nat]
    BY DEF Die, OwnedInv, CacheTypes, SeenType
  <2> HIDE DEF n
  <2> QED BY <2>1
<1>3. /\ ctx'[r] = IdleCtx /\ deletes'[r] = NoDelete
      /\ \A s \in CacheRequests \ {r} : ctx'[s] = ctx[s]
      /\ \A q \in Processes \ {r} : deletes'[q] = deletes[q]
  BY <1>1 DEF OwnedInv, CacheTypes
<1>4. \A m \in Nodes : Holders(m)' \subseteq Holders(m) /\ Deleters(m)' \subseteq Deleters(m) \ {r}
  BY <1>3, Empties, CacheAssumption DEF Holders, Deleters
<1>5. DeletedAlone'
  BY <1>1, <1>2, <1>4 DEF DeletedAlone
<1>6. \A s \in CacheRequests : ctx'[s].pc = "update" => ctx'[s] = ctx[s]
  BY <1>3, Empties
<1>7. FsOK'
  BY <1>1, <1>2, <1>6 DEF FsOK
<1>8. SizeExact'
  BY <1>1, <1>2 DEF SizeExact
<1>9. FilesCovered'
  <2>1. ASSUME conf.warm, ~(seen.joined \/ seen.renewed), NEW k \in files
        PROVE  \/ \E m \in Nodes : Covers(m, k)'
               \/ \E s \in CacheRequests : ctx'[s].key = k /\ ctx'[s].pc = "update" /\ ctx'[s].renamed
    <3>1. \/ \E m \in Nodes : Covers(m, k)
          \/ \E s \in CacheRequests : ctx[s].key = k /\ ctx[s].pc = "update" /\ ctx[s].renamed
      BY <2>1 DEF FilesCovered
    <3>2. ASSUME NEW m \in Nodes, Covers(m, k) PROVE Covers(m, k)'
      <4>1. node'[m] = node[m] /\ (seen.died[m] > 0 => seen'.died[m] > 0)
        BY <1>1, <1>2
      <4>2. \A q \in Deleters(m)' : q \in Deleters(m) /\ deletes'[q] = deletes[q]
        BY <1>3, <1>4 DEF Deleters
      <4> QED BY <3>2, <4>1, <4>2 DEF Covers
    <3>3. ASSUME ctx[r].key = k, ctx[r].pc = "update" PROVE \E m \in Nodes : Covers(m, k)'
      <4>1. PICK m \in Nodes : m = ctx[r].node /\ m # NoNode /\ node[m].key = k
        BY <3>3 DEF OwnedInv, Places, Away, OwnKey, CacheTypes, CtxType
      <4>2. m = n
        BY <4>1
      <4> QED BY <1>1, <1>2, <4>1, <4>2 DEF Covers
    <3> QED BY <1>3, <3>1, <3>2, <3>3
  <2> QED BY <1>1, <1>2, <2>1 DEF FilesCovered
<1> QED BY <1>5, <1>7, <1>8, <1>9

\* A request that learns of a file in a cold cache accounts for it.
LEMMA ReadDisk ==
  ASSUME OwnedInv, DiskInv, NEW r \in CacheRequests, Read(r) PROVE DiskInv'
<1>0. PICK n \in Nodes : ctx[r].node = n
  BY DEF Read, OwnedInv, CacheTypes, CtxType, Places, Away
<1> DEFINE c == [ctx[r] EXCEPT !.pc = "validate"]
<1>1. /\ ctx[r] \in CtxType /\ ctx[r].pc = "read" /\ node \in [Nodes -> NodeType]
      /\ r \in Holders(n) /\ size \in Int
  BY <1>0 DEF Read, OwnedInv, CacheTypes, Holders
<1>2. /\ conf' = conf /\ files' = files /\ cold' = cold /\ deletes' = deletes /\ loader' = loader /\ seen' = seen
      /\ ctx' = [ctx EXCEPT ![r] = c]
  BY DEF Read, Step
<1>3. c.pc # "update" /\ ctx[r].pc # "update" /\ c.node = n /\ Settled(ctx[r].node, c.node)
  BY <1>0, <1>1 DEF CtxType, Settled
<1> HIDE DEF c
<1>4. CASE ~(cold /\ Learns(node[n]))
  <2>1. node' = node /\ size' = size
    BY <1>0, <1>4 DEF Read
  <2> QED BY <1>2, <1>3, <2>1, CtxDisk
<1>5. CASE cold /\ Learns(node[n])
  <2> DEFINE a == node[n] x == [node[n] EXCEPT !.uses = 1, !.exists = TRUE, !.fs = 1]
  <2>1. /\ node' = [node EXCEPT ![n] = x] /\ size' = size + 1 /\ ~node[n].exists /\ cold
    BY <1>0, <1>5 DEF Read, Learns
  <2>2. /\ x.exists /\ x.fs = 1 /\ x.key = node[n].key /\ x.deleting = node[n].deleting
        /\ x.count = node[n].count
    <3>1. a \in NodeType /\ x = [a EXCEPT !.uses = 1, !.exists = TRUE, !.fs = 1]
      BY <1>1
    <3> HIDE DEF x, a
    <3>2. x.exists /\ x.fs = 1 /\ x.key = a.key /\ x.deleting = a.deleting /\ x.count = a.count
      BY <3>1, FileFields
    <3> QED BY <3>2 DEF a
  <2>3. node'[n] = x /\ \A m \in Nodes \ {n} : node'[m] = node[m]
    BY <1>1, <2>1
  <2>4. \A m \in Nodes : Deleters(m)' = Deleters(m) /\ Holders(m)' = Holders(m)
    BY <1>0, <1>2, <1>3 DEF Deleters, Holders, OwnedInv, CacheTypes
  <2> HIDE DEF x
  <2>5. \A m \in Nodes : node'[m].deleting = node[m].deleting /\ node'[m].count = node[m].count
    BY <2>2, <2>3
  <2>6. DeletedAlone'
    BY <1>2, <2>4, <2>5 DEF DeletedAlone, DiskInv
  <2>7. \A s \in CacheRequests : ctx'[s].pc = "update" => ctx'[s] = ctx[s]
    BY <1>2, <1>3 DEF OwnedInv, CacheTypes
  <2>8. FsOK'
    <3> SUFFICES ASSUME ~seen.unrenamed
        PROVE  /\ \A m \in Nodes : node'[m].fs = IF node'[m].exists THEN 1 ELSE 0
               /\ \A s \in CacheRequests : ctx'[s].pc = "update" => ctx'[s].renamed
      BY <1>2 DEF FsOK
    <3>1. ASSUME NEW m \in Nodes PROVE node'[m].fs = IF node'[m].exists THEN 1 ELSE 0
      BY <2>2, <2>3 DEF FsOK, DiskInv
    <3>2. ASSUME NEW s \in CacheRequests, ctx'[s].pc = "update" PROVE ctx'[s].renamed
      BY <2>7, <3>2 DEF FsOK, DiskInv
    <3> QED BY <3>1, <3>2
  <2>9. SizeExact'
    <3> SUFFICES ASSUME ~(seen.joined \/ seen.renewed \/ seen.unrenamed)
        PROVE  size' = Cardinality(Sized')
      BY <1>2 DEF SizeExact, Sized
    <3>1. ~node[n].deleting
      BY <1>1, HeldAlone DEF DiskInv
    <3>2. \A m \in Nodes \ {n} :
             (node'[m].exists /\ ~node'[m].deleting) <=> (node[m].exists /\ ~node[m].deleting)
      BY <2>3, <2>4
    <3>3. /\ Cardinality(Sized) \in Nat
          /\ Cardinality(Sized') = Cardinality(Sized)
               + (IF node'[n].exists /\ ~node'[n].deleting THEN 1 ELSE 0)
               - (IF node[n].exists /\ ~node[n].deleting THEN 1 ELSE 0)
      BY <1>1, <3>2, SizedStep
    <3>4. Cardinality(Sized') = Cardinality(Sized) + 1
      BY <2>1, <2>2, <2>3, <2>4, <3>1, <3>3
    <3>5. size = Cardinality(Sized)
      BY DEF SizeExact, DiskInv, Sized
    <3> QED BY <2>1, <3>4, <3>5
  <2>10. FilesCovered'
    BY <1>2, <2>1 DEF FilesCovered, DiskInv
  <2> QED BY <2>6, <2>8, <2>9, <2>10 DEF DiskInv
<1> QED BY <1>4, <1>5

\* A renamed file is covered by the request that is about to update its node.
LEMMA RenameDisk ==
  ASSUME OwnedInv, DiskInv, NEW r \in CacheRequests, Rename(r) PROVE DiskInv'
<1> USE DEF DiskInv
<1>1. PICK ok \in BOOLEAN :
        /\ files' = IF ok THEN files \cup {ctx[r].key} ELSE files
        /\ ctx' = [ctx EXCEPT ![r] = [@ EXCEPT !.pc = "update", !.renamed = ok, !.updating = FALSE]]
        /\ seen' = [seen EXCEPT !.unrenamed = @ \/ ~ok]
  BY DEF Rename
<1> DEFINE c == [ctx[r] EXCEPT !.pc = "update", !.renamed = ok, !.updating = FALSE]
<1>2. c.pc = "update" /\ c.renamed = ok /\ c.key = ctx[r].key /\ c.node = ctx[r].node /\ ctx[r].pc # "update"
  BY DEF Rename, OwnedInv, CacheTypes, CtxType
<1>3. ctx'[r] = c /\ \A s \in CacheRequests \ {r} : ctx'[s] = ctx[s]
  BY <1>1 DEF OwnedInv, CacheTypes
<1> HIDE DEF c
<1>4. /\ ~seen'.unrenamed => ~seen.unrenamed /\ ok
      /\ seen'.joined = seen.joined /\ seen'.renewed = seen.renewed /\ seen'.died = seen.died
  BY <1>1 DEF OwnedInv, CacheTypes, SeenType
<1>5. /\ conf' = conf /\ node' = node /\ size' = size /\ cold' = cold /\ deletes' = deletes /\ loader' = loader
  BY DEF Rename
<1>6. DeletedAlone'
  <2>1. \A m \in Nodes : Deleters(m)' = Deleters(m) /\ Holders(m)' = Holders(m)
    BY <1>2, <1>3, <1>5 DEF Deleters, Holders
  <2> QED BY <1>4, <1>5, <2>1 DEF DeletedAlone
<1>7. FsOK'
  <2> SUFFICES ASSUME ~seen'.unrenamed
      PROVE  /\ \A m \in Nodes : node'[m].fs = IF node'[m].exists THEN 1 ELSE 0
             /\ \A s \in CacheRequests : ctx'[s].pc = "update" => ctx'[s].renamed
    BY DEF FsOK
  <2>1. \A m \in Nodes : node'[m].fs = IF node'[m].exists THEN 1 ELSE 0
    BY <1>4, <1>5 DEF FsOK
  <2>2. ASSUME NEW s \in CacheRequests, ctx'[s].pc = "update" PROVE ctx'[s].renamed
    BY <1>2, <1>3, <1>4, <2>2 DEF FsOK
  <2> QED BY <2>1, <2>2
<1>8. SizeExact'
  BY <1>4, <1>5 DEF SizeExact, Deleters
<1>9. FilesCovered'
  <2>1. conf.warm => ~cold /\ loader.at = NoKey
    BY DEF FilesCovered
  <2>2. ASSUME conf.warm, ~(seen'.joined \/ seen'.renewed), NEW k \in files'
        PROVE  \/ \E n \in Nodes : Covers(n, k)'
               \/ \E s \in CacheRequests : ctx'[s].key = k /\ ctx'[s].pc = "update" /\ ctx'[s].renamed
    <3>1. CASE k \in files
      <4>1. \/ \E n \in Nodes : Covers(n, k)
            \/ \E s \in CacheRequests : ctx[s].key = k /\ ctx[s].pc = "update" /\ ctx[s].renamed
        BY <1>4, <2>2, <3>1 DEF FilesCovered
      <4>2. \A n \in Nodes : Covers(n, k) => Covers(n, k)'
        BY <1>4, <1>5 DEF Covers, Deleters
      <4>3. \A s \in CacheRequests : ctx[s].pc = "update" => ctx'[s] = ctx[s]
        BY <1>2, <1>3
      <4> QED BY <4>1, <4>2, <4>3
    <3>2. CASE k \notin files
      <4>1. ok /\ k = ctx[r].key
        BY <1>1, <2>2, <3>2
      <4> QED BY <1>2, <1>3, <4>1
    <3> QED BY <3>1, <3>2
  <2> QED BY <1>5, <2>1, <2>2 DEF FilesCovered
<1> QED BY <1>6, <1>7, <1>8, <1>9

\* The update accounts for the file, and its node covers it.
LEMMA UpdateDisk ==
  ASSUME OwnedInv, DiskInv, NEW r \in CacheRequests, Update(r) PROVE DiskInv'
<1> USE DEF DiskInv
<1>0. PICK n \in Nodes : ctx[r].node = n
  BY DEF Update, OwnedInv, CacheTypes, CtxType, Places, Away
<1> DEFINE ok == ctx[r].renamed
           fs == IF ok THEN 1 ELSE 0
           x  == Updated(node[n], fs, ok)
<1>1. /\ ctx[r].pc = "update" /\ node \in [Nodes -> NodeType]
      /\ ok \in BOOLEAN /\ r \in Holders(n) /\ size \in Int /\ node[n].key = ctx[r].key
  BY <1>0, CacheAssumption DEF Update, OwnedInv, CacheTypes, CtxType, Holders, OwnKey
<1>2. /\ ctx' = [ctx EXCEPT ![r] = IdleCtx] /\ node' = [node EXCEPT ![n] = x]
      /\ size' = size + (fs - node[n].fs)
      /\ conf' = conf /\ files' = files
      /\ cold' = cold /\ deletes' = deletes /\ loader' = loader /\ seen' = seen
  BY <1>0 DEF Update, Growth
<1>3. x.fs = fs /\ (x.exists <=> node[n].exists \/ ok) /\ x.key = node[n].key /\ x.deleting = node[n].deleting
  <2> DEFINE f == node[n]
  <2>1. x = Updated(f, fs, ok) /\ f \in NodeType /\ fs \in Int /\ ok \in BOOLEAN
    BY <1>1
  <2> HIDE DEF x, f, fs, ok
  <2>2. x.fs = fs /\ (x.exists <=> f.exists \/ ok) /\ x.key = f.key /\ x.deleting = f.deleting
    BY <2>1, UpdatedFields
  <2> QED BY <2>2 DEF f
<1> HIDE DEF x
<1>4. /\ node'[n] = x /\ \A m \in Nodes \ {n} : node'[m] = node[m]
      /\ ctx'[r] = IdleCtx /\ \A s \in CacheRequests \ {r} : ctx'[s] = ctx[s]
      /\ \A m \in Nodes : Deleters(m)' = Deleters(m) /\ Holders(m)' \subseteq Holders(m)
  <2>1. /\ node'[n] = x /\ \A m \in Nodes \ {n} : node'[m] = node[m]
        /\ ctx'[r] = IdleCtx /\ \A s \in CacheRequests \ {r} : ctx'[s] = ctx[s]
        /\ \A m \in Nodes : Deleters(m)' = Deleters(m)
    BY <1>1, <1>2 DEF OwnedInv, CacheTypes, Deleters
  <2>2. \A m \in Nodes : Holders(m)' \subseteq Holders(m)
    BY <2>1, Empties, CacheAssumption DEF Holders
  <2> QED BY <2>1, <2>2
<1>5. ~seen.joined => Deleters(n) = {} /\ ~node[n].deleting
  BY <1>1, HeldAlone
<1>6. ~seen.unrenamed => ok /\ \A m \in Nodes : node[m].fs = IF node[m].exists THEN 1 ELSE 0
  BY <1>1 DEF FsOK
<1> HIDE DEF ok
<1>7. DeletedAlone'
  BY <1>2, <1>3, <1>4, <1>5 DEF DeletedAlone
<1>8. FsOK'
  <2> SUFFICES ASSUME ~seen.unrenamed
      PROVE  /\ \A m \in Nodes : node'[m].fs = IF node'[m].exists THEN 1 ELSE 0
             /\ \A s \in CacheRequests : ctx'[s].pc = "update" => ctx'[s].renamed
    BY <1>2 DEF FsOK
  <2>1. ASSUME NEW m \in Nodes PROVE node'[m].fs = IF node'[m].exists THEN 1 ELSE 0
    BY <1>3, <1>4, <1>6
  <2>2. ASSUME NEW s \in CacheRequests, ctx'[s].pc = "update" PROVE ctx'[s].renamed
    BY <1>4, <2>2, Empties DEF FsOK
  <2> QED BY <2>1, <2>2
<1>9. SizeExact'
  <2> SUFFICES ASSUME ~(seen.joined \/ seen.renewed \/ seen.unrenamed)
      PROVE  size' = Cardinality(Sized')
    BY <1>2 DEF SizeExact, Sized
  <2>1. \A m \in Nodes \ {n} :
           (node'[m].exists /\ ~node'[m].deleting) <=> (node[m].exists /\ ~node[m].deleting)
    BY <1>4
  <2>2. /\ Cardinality(Sized) \in Nat
        /\ Cardinality(Sized') = Cardinality(Sized)
             + (IF node'[n].exists /\ ~node'[n].deleting THEN 1 ELSE 0)
             - (IF node[n].exists /\ ~node[n].deleting THEN 1 ELSE 0)
    BY <1>1, <2>1, SizedStep
  <2>3. size = Cardinality(Sized)
    BY DEF SizeExact, Sized
  <2>4. node'[n].exists /\ ~node'[n].deleting /\ ~node[n].deleting /\ fs = 1
    BY <1>3, <1>4, <1>5, <1>6
  <2>5. CASE node[n].exists
    <3>1. node[n].fs = 1 /\ Cardinality(Sized') = Cardinality(Sized)
      BY <1>1, <1>6, <2>2, <2>4, <2>5
    <3> QED BY <1>1, <1>2, <2>3, <2>4, <3>1
  <2>6. CASE ~node[n].exists
    <3>1. node[n].fs = 0 /\ Cardinality(Sized') = Cardinality(Sized) + 1
      BY <1>1, <1>6, <2>2, <2>4, <2>6
    <3> QED BY <1>1, <1>2, <2>3, <2>4, <3>1
  <2> QED BY <2>5, <2>6
<1>10. FilesCovered'
  <2>1. conf.warm => ~cold /\ loader.at = NoKey
    BY DEF FilesCovered
  <2>2. ASSUME conf.warm, ~(seen.joined \/ seen.renewed), NEW k \in files
        PROVE  \/ \E m \in Nodes : Covers(m, k)'
               \/ \E s \in CacheRequests : ctx'[s].key = k /\ ctx'[s].pc = "update" /\ ctx'[s].renamed
    <3>1. \/ \E m \in Nodes : Covers(m, k)
          \/ \E s \in CacheRequests : ctx[s].key = k /\ ctx[s].pc = "update" /\ ctx[s].renamed
      BY <2>2 DEF FilesCovered
    <3>2. \A m \in Nodes : Covers(m, k) => Covers(m, k)'
      BY <1>2, <1>3, <1>4 DEF Covers
    <3>3. ASSUME ctx[r].key = k, ctx[r].renamed PROVE Covers(n, k)'
      BY <1>1, <1>3, <1>4, <1>5, <2>2, <3>3 DEF Covers, ok
    <3> QED BY <1>1, <1>4, <3>1, <3>2, <3>3
  <2> QED BY <1>2, <2>1, <2>2 DEF FilesCovered
<1> QED BY <1>7, <1>8, <1>9, <1>10

\* A node that goes takes its size with it; its file goes later.
LEMMA DeleteDisk ==
  ASSUME OwnedInv, DiskInv, NEW p \in Processes, NEW n \in Nodes, Allocated(n), node[n].count = 0,
         deletes[p].node = NoNode, Delete(p, n),
         conf' = conf, files' = files, cold' = cold, loader' = loader, seen' = seen,
         \A s \in CacheRequests :
           /\ ctx[s].pc = "update" => ctx'[s] = ctx[s]
           /\ ctx'[s].pc = "update" => ctx[s].pc = "update"
           /\ ctx'[s].node = ctx[s].node
  PROVE  DiskInv'
<1> USE DEF DiskInv
<1>1. /\ Deleters(n) = {} /\ Holders(n) = {} /\ seen.died[n] = 0 /\ (~seen.joined => ~node[n].deleting)
      /\ node \in [Nodes -> NodeType] /\ node[n] \in NodeType /\ ~deletes[p].gone /\ size \in Int
      /\ n # NoNode /\ (conf.warm => ~cold /\ loader.at = NoKey)
  BY FreeNodeAlone, CacheAssumption DEF OwnedInv, CacheTypes, Places, FilesCovered, DeletedAlone
<1>2. CASE ~node[n].exists
  <2>1. node' = [node EXCEPT ![n] = Unused] /\ size' = size /\ deletes' = deletes
    BY <1>2 DEF Delete, FreeNode
  <2>2. node'[n] = Unused /\ \A m \in Nodes \ {n} : node'[m] = node[m]
    BY <1>1, <2>1
  <2>3. \A m \in Nodes :
           /\ seen'.renewed \/ (node'[m].exists <=> node[m].exists)
           /\ \/ node'[m].fs = node[m].fs /\ (node'[m].exists <=> node[m].exists)
              \/ node'[m].fs = 0 /\ ~node'[m].exists
           /\ node'[m].exists \/ seen.died[m] > 0 => node'[m].key = node[m].key
           /\ ~seen'.joined => (node'[m].deleting <=> node[m].deleting)
           /\ node[m].deleting /\ ~seen'.joined => node'[m].count = node[m].count
    BY <1>1, <1>2, <2>2, Empties
  <2>4. \A s \in CacheRequests : Settled(ctx[s].node, ctx'[s].node)
    BY DEF Settled
  <2> QED BY <1>1, <2>1, <2>3, <2>4, DiskKeep
<1>3. CASE node[n].exists
  <2> DEFINE x == Deleting(node[n]) d == [deletes[p] EXCEPT !.node = n]
  <2>1. node' = [node EXCEPT ![n] = x] /\ size' = size - node[n].fs /\ deletes' = [deletes EXCEPT ![p] = d]
    BY <1>3 DEF Delete
  <2>2. x.key = node[n].key /\ x.count = 1 /\ x.exists = node[n].exists /\ x.fs = node[n].fs /\ x.deleting
    BY <1>1, DeletedFields
  <2>3. d.node = n /\ d.gone = deletes[p].gone
    BY DEF OwnedInv, CacheTypes
  <2> HIDE DEF x, d
  <2>4. /\ node'[n] = x /\ \A m \in Nodes \ {n} : node'[m] = node[m]
        /\ deletes'[p] = d /\ \A q \in Processes \ {p} : deletes'[q] = deletes[q]
    BY <1>1, <2>1 DEF OwnedInv, CacheTypes
  <2>5. Deleters(n)' = {p} /\ \A m \in Nodes \ {n} : Deleters(m)' = Deleters(m)
    <3>1. \A q \in Processes : q \in Deleters(n)' <=> q = p
      BY <1>1, <2>3, <2>4 DEF Deleters
    <3>2. ASSUME NEW m \in Nodes \ {n} PROVE Deleters(m)' = Deleters(m)
      <4>1. m # NoNode
        BY CacheAssumption
      <4> QED BY <2>3, <2>4, <4>1 DEF Deleters
    <3>3. Deleters(n)' \subseteq Processes
      BY DEF Deleters
    <3> QED BY <3>1, <3>2, <3>3
  <2>6. DeletedAlone'
    <3>1. \A m \in Nodes : Holders(m)' = Holders(m)
      BY DEF Holders
    <3> QED BY <1>1, <2>2, <2>4, <2>5, <3>1 DEF DeletedAlone
  <2>7. FsOK'
    <3> SUFFICES ASSUME ~seen.unrenamed
        PROVE  /\ \A m \in Nodes : node'[m].fs = IF node'[m].exists THEN 1 ELSE 0
               /\ \A s \in CacheRequests : ctx'[s].pc = "update" => ctx'[s].renamed
      BY DEF FsOK
    <3>1. \A m \in Nodes : node'[m].fs = IF node'[m].exists THEN 1 ELSE 0
      BY <2>2, <2>4 DEF FsOK
    <3>2. ASSUME NEW s \in CacheRequests, ctx'[s].pc = "update" PROVE ctx'[s].renamed
      BY <3>2 DEF FsOK
    <3> QED BY <3>1, <3>2
  <2>8. SizeExact'
    <3> SUFFICES ASSUME ~(seen.joined \/ seen.renewed \/ seen.unrenamed)
        PROVE  size' = Cardinality(Sized')
      BY DEF SizeExact, Sized
    <3>1. \A m \in Nodes \ {n} :
             (node'[m].exists /\ ~node'[m].deleting) <=> (node[m].exists /\ ~node[m].deleting)
      BY <2>4
    <3>2. /\ Cardinality(Sized) \in Nat
          /\ Cardinality(Sized') = Cardinality(Sized)
               + (IF node'[n].exists /\ ~node'[n].deleting THEN 1 ELSE 0)
               - (IF node[n].exists /\ ~node[n].deleting THEN 1 ELSE 0)
      BY <3>1, SizedStep
    <3>3. Cardinality(Sized') = Cardinality(Sized) - 1
      BY <1>1, <1>3, <2>2, <2>4, <3>2
    <3>4. size = Cardinality(Sized) /\ node[n].fs = 1
      BY <1>3 DEF SizeExact, Sized, FsOK
    <3> QED BY <2>1, <3>3, <3>4
  <2>9. FilesCovered'
    <3>1. ASSUME conf.warm, ~(seen.joined \/ seen.renewed), NEW k \in files
          PROVE  \/ \E m \in Nodes : Covers(m, k)'
                 \/ \E s \in CacheRequests : ctx'[s].key = k /\ ctx'[s].pc = "update" /\ ctx'[s].renamed
      <4>1. \/ \E m \in Nodes : Covers(m, k)
            \/ \E s \in CacheRequests : ctx[s].key = k /\ ctx[s].pc = "update" /\ ctx[s].renamed
        BY <3>1 DEF FilesCovered
      <4>2. ASSUME NEW m \in Nodes, Covers(m, k) PROVE Covers(m, k)'
        <5>1. node'[m].key = node[m].key /\ node'[m].exists = node[m].exists
          BY <2>2, <2>4
        <5>2. seen.died[m] > 0 \/ \A q \in Deleters(m)' : ~deletes'[q].gone
          <6>1. CASE m = n
            BY <1>1, <2>3, <2>4, <2>5, <6>1
          <6>2. CASE m # n
            <7>1. p \notin Deleters(m)' /\ Deleters(m)' \subseteq Processes
              BY <2>3, <2>4, <6>2 DEF Deleters
            <7> QED BY <2>4, <2>5, <4>2, <6>2, <7>1 DEF Covers
          <6> QED BY <6>1, <6>2
        <5> QED BY <4>2, <5>1, <5>2 DEF Covers
      <4> QED BY <4>1, <4>2
    <3> QED BY <1>1, <3>1 DEF FilesCovered
  <2> QED BY <2>6, <2>7, <2>8, <2>9
<1> QED BY <1>2, <1>3

\* The file of a node under deletion is not covered any more: it is gone.
LEMMA DeleteFileDisk ==
  ASSUME OwnedInv, DiskInv, NEW p \in Processes, DeleteFile(p) PROVE DiskInv'
<1> USE DEF DiskInv
<1> DEFINE d == [deletes[p] EXCEPT !.gone = TRUE]
<1>0. PICK n \in Nodes : deletes[p].node = n
  BY DEF DeleteFile, OwnedInv, CacheTypes
<1>1. d.node = n
  BY <1>0 DEF OwnedInv, CacheTypes
<1>2. /\ files' = files \ {node[n].key} /\ deletes' = [deletes EXCEPT ![p] = d]
      /\ conf' = conf /\ node' = node /\ size' = size /\ cold' = cold /\ ctx' = ctx /\ loader' = loader /\ seen' = seen
  BY <1>0 DEF DeleteFile
<1> HIDE DEF d
<1>3. deletes'[p] = d /\ \A q \in Processes \ {p} : deletes'[q] = deletes[q]
  BY <1>2 DEF OwnedInv, CacheTypes
<1>4. \A m \in Nodes : Deleters(m)' = Deleters(m) /\ Holders(m)' = Holders(m)
  BY <1>0, <1>1, <1>2, <1>3 DEF Deleters, Holders
<1>5. DeletedAlone' /\ FsOK' /\ SizeExact'
  BY <1>2, <1>4 DEF DeletedAlone, FsOK, SizeExact
<1>6. FilesCovered'
  <2>1. ASSUME conf.warm, ~(seen.joined \/ seen.renewed), NEW k \in files'
        PROVE  \/ \E m \in Nodes : Covers(m, k)'
               \/ \E s \in CacheRequests : ctx'[s].key = k /\ ctx'[s].pc = "update" /\ ctx'[s].renamed
    <3>1. k \in files /\ k # node[n].key
      BY <1>2
    <3>2. \/ \E m \in Nodes : Covers(m, k)
          \/ \E s \in CacheRequests : ctx[s].key = k /\ ctx[s].pc = "update" /\ ctx[s].renamed
      BY <2>1, <3>1 DEF FilesCovered
    <3>3. ASSUME NEW m \in Nodes, Covers(m, k) PROVE Covers(m, k)'
      <4>1. m # n
        BY <3>1, <3>3 DEF Covers
      <4>2. p \notin Deleters(m) /\ Deleters(m) \subseteq Processes
        BY <1>0, <4>1 DEF Deleters
      <4> QED BY <1>2, <1>3, <1>4, <3>3, <4>2 DEF Covers
    <3> QED BY <1>2, <3>2, <3>3
  <2> QED BY <1>2, <2>1 DEF FilesCovered
<1> QED BY <1>5, <1>6

\* The end of a deletion: the node, which nobody has joined, goes.
LEMMA DeleteEndDisk ==
  ASSUME OwnedInv, DiskInv, NEW p \in Processes, DeleteEnd(p) PROVE DiskInv'
<1> USE DEF DiskInv
<1>0. PICK n \in Nodes : deletes[p].node = n
  BY DEF DeleteEnd, OwnedInv, CacheTypes, Places
<1>1. /\ deletes' = [deletes EXCEPT ![p] = NoDelete] /\ deletes[p].gone
      /\ conf' = conf /\ files' = files /\ size' = size /\ cold' = cold /\ ctx' = ctx /\ loader' = loader /\ seen' = seen
  BY DEF DeleteEnd
<1>2. /\ deletes'[p].node = NoNode /\ \A q \in Processes \ {p} : deletes'[q] = deletes[q]
      /\ n # NoNode /\ node[n] \in NodeType
  BY <1>1, Empties, CacheAssumption DEF OwnedInv, CacheTypes
<1>3. /\ Deleters(n)' \subseteq Deleters(n) /\ p \in Deleters(n)
      /\ \A m \in Nodes \ {n} : Deleters(m)' = Deleters(m) /\ p \notin Deleters(m) /\ Deleters(m) \subseteq Processes
  <2>1. ASSUME NEW m \in Nodes \ {n}
        PROVE  Deleters(m)' = Deleters(m) /\ p \notin Deleters(m) /\ Deleters(m) \subseteq Processes
    <3>1. m # NoNode
      BY CacheAssumption
    <3> QED BY <1>0, <1>2, <3>1 DEF Deleters
  <2>2. Deleters(n)' \subseteq Deleters(n) /\ p \in Deleters(n)
    BY <1>0, <1>2 DEF Deleters
  <2> QED BY <2>1, <2>2
<1>4. /\ \A m \in Nodes \ {n} : node'[m] = node[m]
      /\ \/ node[n].count = 1 /\ node'[n] = Unused
         \/ node[n].count # 1 /\ node'[n].key = node[n].key /\ node'[n].exists = node[n].exists /\ node'[n].fs = node[n].fs
  <2>1. CASE node[n].count = 1
    <3>1. node' = [node EXCEPT ![n] = Unused]
      BY <1>0, <2>1 DEF DeleteEnd, FreeNode
    <3> QED BY <2>1, <3>1 DEF OwnedInv, CacheTypes
  <2>2. CASE node[n].count # 1
    <3>1. node' = [node EXCEPT ![n] = Deleted(node[n])]
      BY <1>0, <2>2 DEF DeleteEnd
    <3>2. node'[n] = Deleted(node[n]) /\ \A m \in Nodes \ {n} : node'[m] = node[m]
      BY <3>1 DEF OwnedInv, CacheTypes
    <3> QED BY <1>2, <2>2, <3>2, DeletedFields
  <2> QED BY <2>1, <2>2
<1>5. ~seen.joined => node[n].count = 1 /\ node[n].deleting /\ seen.died[n] = 0
  BY <1>3, CountOne DEF DeletedAlone
<1>6. ~seen.joined => Deleters(n)' = {}
  <2> SUFFICES ASSUME ~seen.joined PROVE Deleters(n)' = {}
    OBVIOUS
  <2>1. Cardinality(Deleters(n)') = Cardinality(Deleters(n)) + Bit(NoNode, n) - Bit(n, n)
    BY <1>0, <1>2, DeletersStep
  <2>2. Bit(NoNode, n) = 0 /\ Bit(n, n) = 1
    BY <1>2 DEF Bit
  <2> DEFINE a == Cardinality(Holders(n)) b == Cardinality(Deleters(n)) e == seen.died[n] f == Cardinality(Deleters(n)')
  <2>3. a \in Nat /\ b \in Nat /\ e \in Nat /\ 1 = a + b + e /\ b # 0 /\ f = b + 0 - 1
    BY <1>3, <1>5, <2>1, <2>2, PointersNat DEF OwnedInv, Counted, Pointers, CacheTypes, SeenType
  <2> HIDE DEF a, b, e, f
  <2>4. f = 0
    BY <2>3
  <2>5. IsFiniteSet(Deleters(n)')
    <3> DEFINE B == Deleters(n)'
    <3>1. B \in SUBSET Processes /\ IsFiniteSet(Processes)
      BY CacheAssumption, FS_AddElement DEF Deleters, Processes
    <3> HIDE DEF B
    <3>2. IsFiniteSet(B)
      BY <3>1, FS_Subset
    <3> QED BY <3>2 DEF B
  <2> QED BY <2>4, <2>5, FS_EmptySet DEF f
<1>7. DeletedAlone'
  <2>1. \A m \in Nodes : Holders(m)' = Holders(m)
    BY <1>1 DEF Holders
  <2> QED BY <1>1, <1>3, <1>4, <1>5, <1>6, <2>1, Empties DEF DeletedAlone
<1>8. FsOK'
  <2> SUFFICES ASSUME ~seen.unrenamed
      PROVE  \A m \in Nodes : node'[m].fs = IF node'[m].exists THEN 1 ELSE 0
    BY <1>1 DEF FsOK
  <2> QED BY <1>4, Empties DEF FsOK
<1>9. SizeExact'
  <2> SUFFICES ASSUME ~(seen.joined \/ seen.renewed \/ seen.unrenamed)
      PROVE  size' = Cardinality(Sized')
    BY <1>1 DEF SizeExact, Sized
  <2>1. Sized' = Sized
    <3>1. node'[n] = Unused /\ node[n].deleting
      BY <1>4, <1>5
    <3> QED BY <1>4, <3>1, Empties DEF Sized
  <2> QED BY <1>1, <2>1 DEF SizeExact, Sized
<1>10. FilesCovered'
  <2>1. ASSUME conf.warm, ~(seen.joined \/ seen.renewed), NEW k \in files
        PROVE  \/ \E m \in Nodes : Covers(m, k)'
               \/ \E s \in CacheRequests : ctx'[s].key = k /\ ctx'[s].pc = "update" /\ ctx'[s].renamed
    <3>1. \/ \E m \in Nodes : Covers(m, k)
          \/ \E s \in CacheRequests : ctx[s].key = k /\ ctx[s].pc = "update" /\ ctx[s].renamed
      BY <2>1 DEF FilesCovered
    <3>2. ASSUME NEW m \in Nodes, Covers(m, k) PROVE Covers(m, k)'
      <4>1. m # n
        BY <1>1, <1>3, <1>5, <2>1, <3>2 DEF Covers
      <4> QED BY <1>1, <1>2, <1>3, <1>4, <3>2, <4>1 DEF Covers
    <3> QED BY <1>1, <3>1, <3>2
  <2> QED BY <1>1, <2>1 DEF FilesCovered
<1> QED BY <1>7, <1>8, <1>9, <1>10

\* ngx_http_file_cache_exists keeps the agreement of the zone and the disk.
LEMMA ExistsDisk ==
  ASSUME OwnedInv, DiskInv, NEW r \in CacheRequests, Exists(r) PROVE DiskInv'
<1>1. r \in Processes /\ (deletes[r] = NoDelete => deletes[r].node = NoNode) /\ ctx[r] \in CtxType
      /\ (ctx[r].pc = "exists" => deletes[r].node = NoNode)
  BY Empties DEF OwnedInv, Processes, CacheTypes, Places
<1>2. ASSUME ctx[r].pc = "exists", NEW n \in Nodes, ExistsFound(r, n) PROVE DiskInv'
  BY <1>2, FoundDisk
<1>3. ASSUME ctx[r].pc \in {"exists", "forced"}, ExistsNew(r) PROVE DiskInv'
  BY <1>3, NewDisk
<1>4. ASSUME ctx[r].pc = "exists", Step(r, "forced"), ForcedExpire(r),
             UNCHANGED <<conf, files, cold, loader, seen>>
      PROVE  DiskInv'
  <2> DEFINE c == [ctx[r] EXCEPT !.pc = "forced"]
  <2>1. ctx' = [ctx EXCEPT ![r] = c] /\ c.pc # "update" /\ c.node = ctx[r].node /\ Settled(ctx[r].node, c.node)
    BY <1>1, <1>4 DEF Step, CtxType, Settled
  <2> HIDE DEF c
  <2>2. \A s \in CacheRequests :
          /\ ctx[s].pc = "update" => ctx'[s] = ctx[s]
          /\ ctx'[s].pc = "update" => ctx[s].pc = "update"
          /\ ctx'[s].node = ctx[s].node
    BY <1>4, <2>1 DEF OwnedInv, CacheTypes
  <2>3. CASE \E n \in Nodes : Allocated(n) /\ node[n].count = 0 /\ Delete(r, n)
    BY <1>1, <1>4, <2>2, <2>3, DeleteDisk
  <2>4. CASE UNCHANGED <<node, queue, size, deletes>>
    BY <1>4, <2>1, <2>4, CtxDisk
  <2> QED BY <1>4, <2>3, <2>4, ForcedTakes
<1>5. ASSUME ctx[r].pc = "forced", ctx' = [ctx EXCEPT ![r] = IdleCtx],
             UNCHANGED <<conf, node, queue, size, files, cold, deletes, loader, seen>>
      PROVE  DiskInv'
  <2>1. Settled(ctx[r].node, IdleCtx.node)
    BY Empties DEF Settled
  <2> QED BY <1>5, <2>1, Empties, CtxDisk
<1> QED BY <1>1, <1>2, <1>3, <1>4, <1>5 DEF Exists

\* A file that will be deleted leaves the sum before the mutex is dropped.
LEMMA ManagerDisk ==
  ASSUME OwnedInv, DiskInv, Expire \/ Shrink PROVE DiskInv'
<1>1. /\ conf' = conf /\ files' = files /\ cold' = cold /\ loader' = loader /\ seen' = seen /\ ctx' = ctx
      /\ Manager \in Processes /\ deletes[Manager].node = NoNode
  BY Empties DEF Expire, Shrink, Processes
<1>2. CASE \E n \in Nodes : Allocated(n) /\ node[n].count = 0 /\ Delete(Manager, n)
  BY <1>1, <1>2, DeleteDisk
<1>3. CASE UNCHANGED <<node, size, deletes>>
  <2>1. conf.warm => ~cold' /\ loader'.at = loader.at
    BY <1>1 DEF DiskInv, FilesCovered
  <2>2. \A s \in CacheRequests : Settled(ctx[s].node, ctx'[s].node)
    BY <1>1 DEF Settled
  <2> QED BY <1>1, <1>3, <2>1, <2>2, DiskKeep
<1>4. CASE Shrink
  <2>1. ForcedExpire(Manager)
    BY <1>4 DEF Shrink
  <2> QED BY <1>2, <1>3, <2>1, ForcedTakes
<1>5. CASE Expire
  <2> DEFINE n == Last(queue)
  <2>1. n \in Nodes /\ Allocated(n)
    <3>1. queue \in Seq(Nodes) /\ queue # <<>>
      BY <1>5 DEF Expire, OwnedInv, QueueOK
    <3>2. Len(queue) \in DOMAIN queue
      BY <3>1, LenProperties, EmptySeq
    <3> QED BY <3>1, <3>2, InDomain DEF Last, OwnedInv, QueueOK, ToSet
  <2>2. \/ node[n].count = 0 /\ Delete(Manager, n)
        \/ UNCHANGED <<node, size, deletes>>
    BY <1>5 DEF Expire
  <2> HIDE DEF n
  <2> QED BY <1>2, <1>3, <2>1, <2>2
<1> QED BY <1>4, <1>5

\* The loader works in a cold cache, whose files may not have nodes; the nodes that it adds count.
LEMMA LoaderDisk ==
  ASSUME OwnedInv, DiskInv, LoaderAdd \/ LoaderDelete \/ LoaderEnd PROVE DiskInv'
<1> USE DEF DiskInv
<1>1. conf' = conf /\ ctx' = ctx /\ deletes' = deletes /\ seen' = seen
  BY DEF LoaderAdd, LoaderDelete, LoaderEnd
<1>2. conf.warm => ~cold /\ loader.at = NoKey
  BY DEF FilesCovered
<1>3. ~conf.warm
  BY <1>2 DEF LoaderAdd, LoaderDelete, LoaderEnd
<1>4. FilesCovered'
  BY <1>1, <1>3 DEF FilesCovered
<1>5. CASE UNCHANGED <<node, size>>
  BY <1>1, <1>4, <1>5 DEF DeletedAlone, Deleters, Holders, FsOK, SizeExact
<1>6. ASSUME NEW n \in Nodes, NEW k \in Keys, ~Allocated(n),
             node' = [node EXCEPT ![n] = [Unused EXCEPT !.key = k, !.uses = 1, !.exists = TRUE, !.fs = 1]],
             size' = size + 1
      PROVE  DiskInv'
  <2> DEFINE x == [Unused EXCEPT !.key = k, !.uses = 1, !.exists = TRUE, !.fs = 1]
  <2>1. x.exists /\ x.fs = 1 /\ ~x.deleting
    <3>1. x = [Unused EXCEPT !.key = k, !.uses = 1, !.exists = TRUE, !.fs = 1]
      OBVIOUS
    <3> HIDE DEF x
    <3> QED BY <3>1, LoadedFields
  <2>2. node' = [node EXCEPT ![n] = x]
    BY <1>6
  <2> HIDE DEF x
  <2>3. node'[n] = x /\ \A m \in Nodes \ {n} : node'[m] = node[m]
    BY <2>2 DEF OwnedInv, CacheTypes
  <2>4. node[n] = Unused
    BY <1>6 DEF OwnedInv, QueueOK
  <2>5. Deleters(n) = {} /\ \A m \in Nodes : Deleters(m)' = Deleters(m) /\ Holders(m)' = Holders(m)
    BY <1>1, <2>4, Empties, FreeNodeAlone DEF Deleters, Holders
  <2>6. DeletedAlone'
    BY <1>1, <2>1, <2>3, <2>5 DEF DeletedAlone
  <2>7. FsOK'
    <3> SUFFICES ASSUME ~seen.unrenamed
        PROVE  \A m \in Nodes : node'[m].fs = IF node'[m].exists THEN 1 ELSE 0
      BY <1>1 DEF FsOK
    <3> QED BY <2>1, <2>3 DEF FsOK
  <2>8. SizeExact'
    <3> SUFFICES ASSUME ~(seen.joined \/ seen.renewed \/ seen.unrenamed)
        PROVE  size' = Cardinality(Sized')
      BY <1>1 DEF SizeExact, Sized
    <3>1. \A m \in Nodes \ {n} :
             (node'[m].exists /\ ~node'[m].deleting) <=> (node[m].exists /\ ~node[m].deleting)
      BY <2>3
    <3>2. /\ Cardinality(Sized) \in Nat
          /\ Cardinality(Sized') = Cardinality(Sized)
               + (IF node'[n].exists /\ ~node'[n].deleting THEN 1 ELSE 0)
               - (IF node[n].exists /\ ~node[n].deleting THEN 1 ELSE 0)
      BY <3>1, SizedStep
    <3>3. node'[n].exists /\ ~node[n].exists
      BY <2>1, <2>3, <2>4, Empties
    <3>4. Cardinality(Sized') = Cardinality(Sized) + 1
      BY <2>1, <2>3, <3>2, <3>3
    <3>5. size = Cardinality(Sized)
      BY DEF SizeExact, Sized
    <3> QED BY <1>6, <3>4, <3>5
  <2> QED BY <1>4, <2>6, <2>7, <2>8
<1>7. CASE LoaderAdd
  <2>1. loader.left \subseteq Keys
    BY DEF OwnedInv, CacheTypes
  <2> QED BY <1>5, <1>6, <1>7, <2>1 DEF LoaderAdd
<1> QED BY <1>5, <1>7 DEF LoaderDelete, LoaderEnd

\* At the start the sum is zero, and a warm zone has no files.
LEMMA DiskInit == CacheInit => DiskInv
<1> SUFFICES ASSUME CacheInit PROVE DiskInv
  OBVIOUS
<1>1. /\ \A r \in CacheRequests : ctx[r] = IdleCtx
      /\ \A p \in Processes : deletes[p] = NoDelete
      /\ \A n \in Nodes : node[n] = Unused
      /\ size = 0 /\ loader.at = NoKey /\ (conf.warm => ~cold /\ files = {})
  BY DEF CacheInit
<1>2. \A n \in Nodes : Deleters(n) = {}
  BY <1>1, Empties, CacheAssumption DEF Deleters
<1>3. DeletedAlone
  BY <1>1, <1>2, Empties DEF DeletedAlone
<1>4. FsOK
  BY <1>1, Empties DEF FsOK
<1>5. SizeExact
  <2>1. {n \in Nodes : node[n].exists /\ ~node[n].deleting} = {}
    BY <1>1, Empties
  <2> QED BY <1>1, <2>1, FS_EmptySet DEF SizeExact
<1>6. FilesCovered
  BY <1>1 DEF FilesCovered
<1> QED BY <1>3, <1>4, <1>5, <1>6 DEF DiskInv

\* Every action keeps what the zone says of the disk.
LEMMA DiskNext == CacheInv /\ [CacheNext]_cacheVars => CacheInv'
<1> SUFFICES ASSUME OwnedInv, DiskInv, [CacheNext]_cacheVars PROVE DiskInv'
  BY OwnedNext DEF CacheInv
<1>1. ASSUME NEW r \in CacheRequests,
             Start(r) \/ Exists(r) \/ Open(r) \/ Read(r) \/ Validate(r) \/ Rename(r) \/ Update(r) \/ Free(r) \/ Die(r)
      PROVE  DiskInv'
  BY <1>1, StartDisk, ExistsDisk, OpenDisk, ReadDisk, ValidateDisk, RenameDisk, UpdateDisk, FreeDisk, DieDisk
<1>2. ASSUME NEW p \in Processes, DeleteFile(p) \/ DeleteEnd(p) PROVE DiskInv'
  BY <1>2, DeleteFileDisk, DeleteEndDisk
<1>3. CASE Expire \/ Shrink
  BY <1>3, ManagerDisk
<1>4. CASE LoaderAdd \/ LoaderDelete \/ LoaderEnd
  BY <1>4, LoaderDisk
<1>5. CASE UNCHANGED cacheVars
  BY <1>5 DEF cacheVars, DiskInv, DeletedAlone, FsOK, SizeExact, FilesCovered, Deleters, Holders, Covers
<1> QED BY <1>1, <1>2, <1>3, <1>4, <1>5 DEF CacheNext

\* The inductive invariant implies the property of the run.
LEMMA CacheInvImplies == CacheInv => DiskExact
<1> SUFFICES ASSUME CacheInv PROVE NoOrphanFile
  BY DEF CacheInv, DiskInv, DiskExact
<1>1. SUFFICES ASSUME conf.warm /\ ~(seen.joined \/ seen.renewed)
               PROVE  \A k \in files : \/ \E n \in Lookup(k) : node[n].exists \/ seen.died[n] > 0
                                       \/ \E r \in CacheRequests : ctx[r].key = k /\ ctx[r].pc = "update"
  BY Zenon DEF NoOrphanFile
<1>2. TAKE k \in files
<1>3. \/ \E n \in Nodes : Covers(n, k)
      \/ \E r \in CacheRequests : ctx[r].key = k /\ ctx[r].pc = "update" /\ ctx[r].renamed
  BY <1>1 DEF CacheInv, DiskInv, FilesCovered
<1> QED BY <1>3 DEF Covers, Lookup

\* sh->size is the size of the files that nodes stand for, and every file that a worker made has a
\* node that will delete it, whatever requests, expiry and the manager do between the points where
\* the mutex is dropped; the exceptions are those of DiskExact.
THEOREM DiskKept == CacheSpec => []DiskExact
<1>1. CacheInit => CacheInv
  BY OwnedInit, DiskInit DEF CacheInv
<1>2. CacheSpec => []CacheInv
  BY <1>1, DiskNext, PTL DEF CacheSpec
<1> QED BY <1>2, CacheInvImplies, PTL

-----------------------------------------------------------------------------
(* The cache of open files: the inductive invariant *)

FileType ==
  [name : Names \cup {""}, kind : {"none", "file", "dir", "err"}, fd : FileDescs \cup {NoFd},
   uniq : Uniqs \cup {0}, uses : Nat, count : Nat, close : BOOLEAN, event : BOOLEAN,
   use_event : BOOLEAN, created : Nat, accessed : Nat]

Files == [Cached -> FileType]
Descs == [FileDescs -> Uniqs \cup {0}]
Caches ==
  [file : Files, tree : SUBSET Cached, queue : Seq(Cached), current : Int, fds : Descs, exited : BOOLEAN]
Reads == [Readers -> [entry : Cached \cup {0}, uniq : Uniqs \cup {0}]]
Disks == [Names -> [kind : {"none", "file", "dir"}, uniq : Uniqs \cup {0}]]

Unopened == [fd |-> NoFd, uniq |-> 0]   \* no descriptor is on its way to an entry

HavingIn(rd, e) == {r \in Readers : rd[r].entry = e}

\* An entry with a descriptor is a file, and its descriptor is open for it; one that requests use
\* has a descriptor.  One descriptor, `loose', may be open for an entry that is not there yet.
Fitting(f, fds, loose) ==
  /\ f = NoFile \/ f.uses >= 1
  /\ f.fd # NoFd => f.kind = "file" /\ f.uniq \in Uniqs /\ fds[f.fd] = f.uniq /\ f.fd # loose.fd
  /\ f.count > 0 => f.fd # NoFd

Data(file, fds, rd, loose) ==
  /\ \A e \in Cached : Fitting(file[e], fds, loose) /\ file[e].count = Cardinality(HavingIn(rd, e))
  /\ \A e, f \in Cached : file[e].fd = file[f].fd /\ file[e].fd # NoFd => e = f
  /\ \A d \in FileDescs : fds[d] # 0 => d = loose.fd \/ \E e \in Cached : file[e].fd = d
  /\ loose.fd \in FileDescs \cup {NoFd}
  /\ loose.fd # NoFd => loose.uniq \in Uniqs /\ fds[loose.fd] = loose.uniq
  /\ \A r \in Readers : \/ rd[r] = Nobody
                        \/ rd[r].entry \in Cached /\ rd[r].uniq = file[rd[r].entry].uniq

\* An entry is in the tree and the queue, or closed and in use.  While an entry is looked at it may
\* be away from the queue; one that is on its way out, `odd', is perhaps not in use.
Books(file, tree, line, current, away, odd) ==
  /\ IsInjective(line) /\ ToSet(line) = tree \ {away} /\ away \in tree \cup {0}
  /\ current = Len(line) + (IF away = 0 THEN 0 ELSE 1) /\ current <= MaxCached
  /\ odd \notin tree
  /\ \A e \in tree : ~file[e].close /\ file[e].uses >= 1
  /\ \A e \in Cached \ tree : file[e] = NoFile \/ (file[e].close /\ (file[e].count > 0 \/ e = odd))
  /\ \A e, f \in tree : file[e].name = file[f].name => e = f

Sound(k, rd, loose, away, odd) ==
  /\ k \in Caches /\ rd \in Reads /\ ~k.exited
  /\ Data(k.file, k.fds, rd, loose)
  /\ Books(k.file, k.tree, k.queue, k.current, away, odd)

Ended == ofc.tree = {} /\ ofc.queue = <<>> /\ ofc.current = 0 /\ \A r \in Readers : reading[r] = Nobody

FilesInv ==
  /\ fileConf \in FileConfs /\ disk \in Disks /\ \A n \in Names : disk[n].kind = "file" => disk[n].uniq \in Uniqs
  /\ ofc.exited \in BOOLEAN
  /\ ~broken => IF ofc.exited THEN Ended ELSE Sound(ofc, reading, Unopened, 0, 0)

-----------------------------------------------------------------------------
(* Counting the requests that have an entry *)

LEMMA Constants ==
  /\ IsFiniteSet(Cached) /\ IsFiniteSet(Readers) /\ 0 \notin Cached /\ 0 \notin Uniqs
  /\ Valid \in Nat \ {0} /\ MaxCached \in Nat \ {0} /\ Inactive \in Nat
  /\ NoFd = 0 /\ Cardinality(Cached) \in Nat /\ FileDescs = 1..(Cardinality(Cached) + 1) /\ NoFd \notin FileDescs
<1>1. Cardinality(Cached) \in Nat
  BY OpenFileAssumption, FS_CardinalityType
<1> QED BY <1>1, OpenFileAssumption DEF NoFd, FileDescs

\* A request takes an entry.
LEMMA HavingMore ==
  ASSUME NEW rd \in Reads, NEW r \in Readers, rd[r] = Nobody, NEW e \in Cached,
         NEW rd2 \in Reads, \A s \in Readers : rd2[s].entry = IF s = r THEN e ELSE rd[s].entry
  PROVE  /\ Cardinality(HavingIn(rd2, e)) = Cardinality(HavingIn(rd, e)) + 1
         /\ Cardinality(HavingIn(rd, e)) \in Nat
         /\ \A x \in Cached \ {e} : HavingIn(rd2, x) = HavingIn(rd, x)
<1>1. rd[r].entry = 0 /\ 0 \notin Cached /\ IsFiniteSet(Readers)
  BY Constants DEF Nobody
<1>2. \A x \in Cached \ {e} : HavingIn(rd2, x) = HavingIn(rd, x)
  BY <1>1 DEF HavingIn
<1> DEFINE A == HavingIn(rd, e) B == HavingIn(rd2, e)
<1>3. B = A \cup {r} /\ r \notin A /\ A \in SUBSET Readers
  BY <1>1 DEF HavingIn
<1> HIDE DEF A, B
<1>4. IsFiniteSet(A)
  BY <1>1, <1>3, FS_Subset
<1>5. Cardinality(B) = Cardinality(A) + 1 /\ Cardinality(A) \in Nat
  BY <1>3, <1>4, FS_AddElement, FS_CardinalityType
<1> QED BY <1>2, <1>5 DEF A, B

\* A request gives its entry back.
LEMMA HavingLess ==
  ASSUME NEW rd \in Reads, NEW r \in Readers, NEW e \in Cached, rd[r].entry = e
  PROVE  LET rd2 == [rd EXCEPT ![r] = Nobody] IN
         /\ rd2 \in Reads
         /\ Cardinality(HavingIn(rd, e)) = Cardinality(HavingIn(rd2, e)) + 1
         /\ Cardinality(HavingIn(rd2, e)) \in Nat
         /\ \A x \in Cached \ {e} : HavingIn(rd2, x) = HavingIn(rd, x)
<1> DEFINE rd2 == [rd EXCEPT ![r] = Nobody]
<1>1. rd2 \in Reads
  BY DEF Reads, Nobody
<1>2. \A s \in Readers : rd2[s].entry = IF s = r THEN 0 ELSE rd[s].entry
  BY DEF Reads, Nobody
<1>3. 0 \notin Cached /\ IsFiniteSet(Readers)
  BY Constants
<1> HIDE DEF rd2
<1>4. \A x \in Cached \ {e} : HavingIn(rd2, x) = HavingIn(rd, x)
  BY <1>2, <1>3 DEF HavingIn
<1> DEFINE A == HavingIn(rd, e) B == HavingIn(rd2, e)
<1>5. A = B \cup {r} /\ r \notin B /\ B \in SUBSET Readers
  BY <1>2, <1>3 DEF HavingIn
<1> HIDE DEF A, B
<1>6. IsFiniteSet(B)
  BY <1>3, <1>5, FS_Subset
<1>7. Cardinality(A) = Cardinality(B) + 1 /\ Cardinality(B) \in Nat
  BY <1>5, <1>6, FS_AddElement, FS_CardinalityType
<1> QED BY <1>1, <1>4, <1>7 DEF rd2, A, B

\* Nobody has an entry whose count is zero.
LEMMA HavingNone ==
  ASSUME NEW rd \in Reads, NEW e \in Cached
  PROVE  /\ Cardinality(HavingIn(rd, e)) \in Nat
         /\ Cardinality(HavingIn(rd, e)) = 0 <=> \A r \in Readers : rd[r].entry # e
<1> DEFINE A == HavingIn(rd, e)
<1>1. A \in SUBSET Readers /\ IsFiniteSet(Readers)
  BY Constants DEF HavingIn
<1>2. (A = {}) <=> \A r \in Readers : rd[r].entry # e
  BY DEF HavingIn
<1> HIDE DEF A
<1>3. IsFiniteSet(A) /\ Cardinality(A) \in Nat
  BY <1>1, FS_Subset, FS_CardinalityType
<1>4. (Cardinality(A) = 0) <=> (A = {})
  BY <1>3, FS_EmptySet
<1> QED BY <1>2, <1>3, <1>4 DEF A

-----------------------------------------------------------------------------
(* What a step on one entry does to the descriptors and the books *)

LEMMA DataStep ==
  ASSUME NEW file \in Files, NEW fds \in Descs, NEW rd \in Reads, NEW l, Data(file, fds, rd, l),
         NEW e \in Cached, NEW f \in FileType, NEW fds2 \in Descs, NEW rd2 \in Reads, NEW l2, l2.fd \in FileDescs \cup {NoFd},
         Fitting(f, fds2, l2), f.count = Cardinality(HavingIn(rd2, e)),
         \A x \in Cached \ {e} : HavingIn(rd2, x) = HavingIn(rd, x),
         \A x \in Cached \ {e} : file[x].fd # NoFd =>
           fds2[file[x].fd] = fds[file[x].fd] /\ file[x].fd # l2.fd /\ file[x].fd # f.fd,
         \A d \in FileDescs : fds2[d] # 0 => \/ d = l2.fd \/ d = f.fd
                                             \/ \E x \in Cached \ {e} : file[x].fd = d,
         l2.fd # NoFd => l2.uniq \in Uniqs /\ fds2[l2.fd] = l2.uniq,
         \A r \in Readers : \/ rd2[r] = Nobody
                            \/ rd2[r].entry = e /\ rd2[r].uniq = f.uniq
                            \/ rd2[r] = rd[r] /\ rd[r].entry # e
  PROVE  Data([file EXCEPT ![e] = f], fds2, rd2, l2)
<1> DEFINE g == [file EXCEPT ![e] = f]
<1>1. g \in Files /\ \A x \in Cached : g[x] = IF x = e THEN f ELSE file[x]
  BY DEF Files
<1> HIDE DEF g
<1>2. \A x \in Cached : Fitting(g[x], fds2, l2) /\ g[x].count = Cardinality(HavingIn(rd2, x))
  <2> SUFFICES ASSUME NEW x \in Cached, x # e
               PROVE  Fitting(file[x], fds2, l2) /\ file[x].count = Cardinality(HavingIn(rd2, x))
    BY <1>1
  <2> QED BY DEF Data, Fitting
<1>3. \A x, y \in Cached : g[x].fd = g[y].fd /\ g[x].fd # NoFd => x = y
  BY <1>1 DEF Data
<1>4. \A d \in FileDescs : fds2[d] # 0 => d = l2.fd \/ \E x \in Cached : g[x].fd = d
  <2> SUFFICES ASSUME NEW d \in FileDescs, fds2[d] # 0, d # l2.fd
               PROVE  \E x \in Cached : g[x].fd = d
    OBVIOUS
  <2>1. CASE d = f.fd
    BY <1>1, <2>1
  <2>2. CASE \E x \in Cached \ {e} : file[x].fd = d
    BY <1>1, <2>2
  <2> QED BY <2>1, <2>2
<1>5. \A r \in Readers : \/ rd2[r] = Nobody
                         \/ rd2[r].entry \in Cached /\ rd2[r].uniq = g[rd2[r].entry].uniq
  <2> SUFFICES ASSUME NEW r \in Readers, rd2[r] # Nobody
               PROVE  rd2[r].entry \in Cached /\ rd2[r].uniq = g[rd2[r].entry].uniq
    OBVIOUS
  <2>1. CASE rd2[r].entry = e /\ rd2[r].uniq = f.uniq
    BY <1>1, <2>1
  <2>2. CASE rd2[r] = rd[r] /\ rd[r].entry # e
    <3>1. rd[r].entry \in Cached /\ rd[r].uniq = file[rd[r].entry].uniq
      BY <2>2 DEF Data
    <3> DEFINE x == rd[r].entry
    <3>2. g[x] = file[x] /\ x \in Cached
      BY <1>1, <2>2, <3>1
    <3> QED BY <2>2, <3>1, <3>2
  <2> QED BY <2>1, <2>2
<1> QED BY <1>2, <1>3, <1>4, <1>5 DEF Data, g

\* An entry of the tree changes, or one outside of it.
LEMMA BooksStep ==
  ASSUME NEW file \in Files, NEW tree \in SUBSET Cached, NEW line, NEW current, NEW away, NEW odd, NEW odd2,
         Books(file, tree, line, current, away, odd), NEW e \in Cached, NEW f \in FileType,
         e \in tree => f.name = file[e].name /\ ~f.close /\ f.uses >= 1,
         e \notin tree => f = NoFile \/ (f.close /\ (f.count > 0 \/ e = odd2)),
         odd2 \notin tree, odd # e => odd2 = odd
  PROVE  Books([file EXCEPT ![e] = f], tree, line, current, away, odd2)
<1> DEFINE g == [file EXCEPT ![e] = f]
<1>1. \A x \in Cached : g[x] = IF x = e THEN f ELSE file[x]
  BY DEF Files
<1> HIDE DEF g
<1>2. \A x \in tree : ~g[x].close /\ g[x].uses >= 1 /\ g[x].name = file[x].name
  BY <1>1 DEF Books
<1>3. \A x \in Cached \ tree : g[x] = NoFile \/ (g[x].close /\ (g[x].count > 0 \/ x = odd2))
  BY <1>1 DEF Books
<1> QED BY <1>2, <1>3 DEF Books, g

\* An entry that is away from the queue leaves the tree too.
LEMMA BooksLeave ==
  ASSUME NEW file \in Files, NEW tree \in SUBSET Cached, NEW line \in Seq(Cached), NEW current \in Int, NEW e \in tree,
         Books(file, tree, line, current, e, 0), NEW f \in FileType, f = NoFile \/ f.close
  PROVE  Books([file EXCEPT ![e] = f], tree \ {e}, line, current - 1, 0, e)
<1> DEFINE g == [file EXCEPT ![e] = f] s == tree \ {e}
<1>1. \A x \in Cached : g[x] = IF x = e THEN f ELSE file[x]
  BY DEF Files
<1>2. e # 0 /\ s \in SUBSET Cached /\ e \notin s /\ Len(line) \in Nat /\ MaxCached \in Nat /\ 0 \notin s
  BY Constants, LenProperties
<1>3. IsInjective(line) /\ ToSet(line) = s \ {0} /\ current = Len(line) + 1 /\ current <= MaxCached
  BY <1>2 DEF Books
<1>4. current - 1 = Len(line) + 0 /\ current - 1 <= MaxCached
  BY <1>2, <1>3
<1> HIDE DEF g
<1>5. \A x \in s : ~g[x].close /\ g[x].uses >= 1 /\ g[x].name = file[x].name
  BY <1>1 DEF Books
<1>6. \A x \in Cached \ s : g[x] = NoFile \/ (g[x].close /\ (g[x].count > 0 \/ x = e))
  <2>1. 0 \notin Cached
    BY Constants
  <2> QED BY <1>1, <2>1 DEF Books
<1>7. \A x, y \in s : g[x].name = g[y].name => x = y
  BY <1>5 DEF Books
<1> QED BY <1>2, <1>3, <1>4, <1>5, <1>6, <1>7 DEF Books, g

\* A free entry enters the tree.
LEMMA BooksJoin ==
  ASSUME NEW file \in Files, NEW tree \in SUBSET Cached, NEW line \in Seq(Cached), NEW current \in Int,
         Books(file, tree, line, current, 0, 0), NEW e \in Cached \ tree, NEW f \in FileType,
         ~f.close, f.uses >= 1, \A x \in tree : file[x].name # f.name, current + 1 <= MaxCached
  PROVE  Books([file EXCEPT ![e] = f], tree \cup {e}, line, current + 1, e, 0)
<1> DEFINE g == [file EXCEPT ![e] = f] s == tree \cup {e}
<1>1. \A x \in Cached : g[x] = IF x = e THEN f ELSE file[x]
  BY DEF Files
<1>2. e # 0 /\ s \in SUBSET Cached /\ e \in s /\ Len(line) \in Nat /\ 0 \notin tree /\ 0 \notin s
  BY Constants, LenProperties
<1>3. IsInjective(line) /\ ToSet(line) = s \ {e} /\ current = Len(line)
  BY <1>2 DEF Books
<1> HIDE DEF g
<1>5. \A x \in s : ~g[x].close /\ g[x].uses >= 1
  BY <1>1 DEF Books
<1>6. \A x \in Cached \ s : g[x] = NoFile \/ (g[x].close /\ (g[x].count > 0 \/ x = 0))
  BY <1>1 DEF Books
<1>7. \A x, y \in s : g[x].name = g[y].name => x = y
  BY <1>1 DEF Books
<1> QED BY <1>2, <1>3, <1>5, <1>6, <1>7 DEF Books, g

\* An entry is taken out of the queue.
LEMMA BooksAway ==
  ASSUME NEW file, NEW tree \in SUBSET Cached, NEW line \in Seq(Cached), NEW current \in Int, NEW odd,
         Books(file, tree, line, current, 0, odd), NEW e \in tree
  PROVE  LET q == RemoveAt(line, CHOOSE i \in DOMAIN line : line[i] = e) IN
         q \in Seq(Cached) /\ Books(file, tree, q, current, e, odd)
<1> DEFINE q == RemoveAt(line, CHOOSE i \in DOMAIN line : line[i] = e)
<1>1. e # 0 /\ 0 \notin tree /\ tree \ {0} = tree
  BY Constants
<1>2. IsInjective(line) /\ ToSet(line) = tree /\ current = Len(line)
  BY <1>1 DEF Books
<1>3. q \in Seq(Cached) /\ IsInjective(q) /\ ToSet(q) = tree \ {e}
  BY <1>2, ListPlace
<1> HIDE DEF q
<1>4. current = Len(q) + 1
  <2>1. IsFiniteSet(tree) /\ current = Cardinality(tree)
    BY <1>2, ListLength
  <2>2. Len(q) = Cardinality(tree \ {e})
    BY <1>3, ListLength
  <2>3. Cardinality(tree \ {e}) = Cardinality(tree) - 1 /\ Cardinality(tree) \in Nat
    BY <2>1, FS_RemoveElement, FS_CardinalityType
  <2> QED BY <2>1, <2>2, <2>3
<1> QED BY <1>1, <1>3, <1>4 DEF Books, q

\* It comes back, at the head.
LEMMA BooksBack ==
  ASSUME NEW file, NEW tree \in SUBSET Cached, NEW line \in Seq(Cached), NEW current \in Int, NEW odd,
         NEW e \in tree, Books(file, tree, line, current, e, odd)
  PROVE  <<e>> \o line \in Seq(Cached) /\ Books(file, tree, <<e>> \o line, current, 0, odd)
<1> DEFINE q == <<e>> \o line
<1>1. e # 0 /\ 0 \notin tree /\ tree \ {0} = tree /\ e \notin ToSet(line) /\ e \in Cached
  BY Constants DEF Books
<1>2. IsInjective(line) /\ ToSet(line) = tree \ {e} /\ current = Len(line) + 1
  BY <1>1 DEF Books
<1>3. q \in Seq(Cached) /\ IsInjective(q) /\ ToSet(q) = tree
  <2>1. q \in Seq(Cached) /\ IsInjective(q) /\ ToSet(q) = (tree \ {e}) \cup {e}
    BY <1>1, <1>2, ListHead
  <2> QED BY <2>1
<1>4. Len(q) = Len(line) + 1
  BY <1>1, AtHead
<1> HIDE DEF q
<1>5. current = Len(q) + 0
  BY <1>2, <1>3, <1>4, LenProperties
<1> QED BY <1>1, <1>3, <1>5 DEF Books, q

-----------------------------------------------------------------------------
(* Steps on a cache *)

LEMMA WithFileFields ==
  ASSUME NEW k \in Caches, NEW e \in Cached, NEW f \in FileType
  PROVE  LET k2 == WithFile(k, e, f) IN
         /\ k2 \in Caches /\ k2.file = [k.file EXCEPT ![e] = f] /\ k2.tree = k.tree /\ k2.queue = k.queue
         /\ k2.current = k.current /\ k2.fds = k.fds /\ k2.exited = k.exited
         /\ k2.file[e] = f /\ \A x \in Cached \ {e} : k2.file[x] = k.file[x]
<1> DEFINE g == [k.file EXCEPT ![e] = f]
<1>1. g \in Files /\ k.file \in Files
  BY DEF Files, Caches
<1>2. g[e] = f /\ \A x \in Cached \ {e} : g[x] = k.file[x]
  BY <1>1 DEF Files
<1>3. WithFile(k, e, f) = [k EXCEPT !.file = g]
  BY DEF WithFile, Caches
<1> HIDE DEF g
<1> QED BY <1>1, <1>2, <1>3 DEF Caches, g

LEMMA FreedFields ==
  ASSUME NEW k \in Caches, NEW e \in Cached
  PROVE  LET k2 == WithFile(k, e, NoFile) IN
         /\ k2 \in Caches /\ k2.file = [k.file EXCEPT ![e] = NoFile] /\ k2.tree = k.tree /\ k2.queue = k.queue
         /\ k2.current = k.current /\ k2.fds = k.fds /\ k2.exited = k.exited
         /\ k2.file[e] = NoFile /\ \A x \in Cached \ {e} : k2.file[x] = k.file[x]
<1>1. NoFile \in FileType
  BY DEF NoFile, FileType
<1> QED BY <1>1, WithFileFields

\* What is known of the parts of a cache.
LEMMA CacheParts ==
  ASSUME NEW k \in Caches
  PROVE  /\ k.file \in Files /\ k.tree \in SUBSET Cached /\ k.queue \in Seq(Cached) /\ k.current \in Int
         /\ k.fds \in Descs /\ k.exited \in BOOLEAN /\ \A e \in Cached : k.file[e] \in FileType
BY DEF Caches, Files

\* A change that the descriptors are not about.
LEMMA DataQuiet ==
  ASSUME NEW file \in Files, NEW fds \in Descs, NEW rd \in Reads, NEW l, Data(file, fds, rd, l),
         NEW e \in Cached, NEW f \in FileType, f.uses >= 1, f.kind = file[e].kind,
         f.fd = file[e].fd, f.uniq = file[e].uniq, f.count = file[e].count
  PROVE  Data([file EXCEPT ![e] = f], fds, rd, l)
<1>1. Fitting(f, fds, l) /\ f.count = Cardinality(HavingIn(rd, e))
  BY DEF Data, Fitting
<1>2. \A x \in Cached \ {e} : file[x].fd # NoFd =>
        fds[file[x].fd] = fds[file[x].fd] /\ file[x].fd # l.fd /\ file[x].fd # f.fd
  BY DEF Data, Fitting
<1>3. \A d \in FileDescs : fds[d] # 0 => d = l.fd \/ d = f.fd \/ \E x \in Cached \ {e} : file[x].fd = d
  BY DEF Data
<1>4. l.fd \in FileDescs \cup {NoFd} /\ (l.fd # NoFd => l.uniq \in Uniqs /\ fds[l.fd] = l.uniq)
  BY DEF Data
<1>5. \A r \in Readers : \/ rd[r] = Nobody
                         \/ rd[r].entry = e /\ rd[r].uniq = f.uniq
                         \/ rd[r] = rd[r] /\ rd[r].entry # e
  BY DEF Data
<1> QED BY <1>1, <1>2, <1>3, <1>4, <1>5, DataStep

\* A change that neither the books nor the descriptors are about.
LEMMA QuietFile ==
  ASSUME NEW k, NEW rd, NEW l, NEW away, NEW odd, Sound(k, rd, l, away, odd), NEW e \in Cached,
         k.file[e] # NoFile, NEW f \in FileType, f.uses >= 1,
         f.name = k.file[e].name, f.kind = k.file[e].kind, f.fd = k.file[e].fd, f.uniq = k.file[e].uniq,
         f.count = k.file[e].count, f.close = k.file[e].close
  PROVE  Sound(WithFile(k, e, f), rd, l, away, odd)
<1> DEFINE k2 == WithFile(k, e, f)
<1>1. k \in Caches /\ rd \in Reads /\ ~k.exited /\ Data(k.file, k.fds, rd, l)
      /\ Books(k.file, k.tree, k.queue, k.current, away, odd)
  BY DEF Sound
<1>2. /\ k2 \in Caches /\ k2.file = [k.file EXCEPT ![e] = f] /\ k2.tree = k.tree /\ k2.queue = k.queue
      /\ k2.current = k.current /\ k2.fds = k.fds /\ k2.exited = k.exited
  BY <1>1, WithFileFields
<1>3. k.file \in Files /\ k.tree \in SUBSET Cached /\ k.fds \in Descs
  BY <1>1, CacheParts
<1>4. Data([k.file EXCEPT ![e] = f], k.fds, rd, l)
  BY <1>1, <1>3, DataQuiet
<1>5. Books([k.file EXCEPT ![e] = f], k.tree, k.queue, k.current, away, odd)
  <2>1. e \in k.tree => f.name = k.file[e].name /\ ~f.close /\ f.uses >= 1
    BY <1>1 DEF Books
  <2>2. e \notin k.tree => f = NoFile \/ (f.close /\ (f.count > 0 \/ e = odd))
    BY <1>1 DEF Books
  <2>3. odd \notin k.tree
    BY <1>1 DEF Books
  <2> QED BY <1>1, <1>3, <2>1, <2>2, <2>3, BooksStep
<1> HIDE DEF k2
<1>6. Sound(k2, rd, l, away, odd)
  BY <1>1, <1>2, <1>4, <1>5 DEF Sound
<1> QED BY <1>6 DEF k2

\* An allocated entry was used.
LEMMA Allocates ==
  ASSUME NEW k, NEW rd, NEW l, NEW away, NEW odd, Sound(k, rd, l, away, odd), NEW e \in Cached
  PROVE  /\ k.file[e] \in FileType /\ (k.file[e] # NoFile <=> k.file[e].uses >= 1)
         /\ e \in k.tree => k.file[e] # NoFile /\ ~k.file[e].close
         /\ e \notin k.tree => k.file[e] = NoFile \/ k.file[e].close
         /\ NoFile \in FileType /\ NoFile.uses = 0 /\ NoFile.count = 0 /\ NoFile.fd = NoFd
<1>1. k \in Caches /\ Data(k.file, k.fds, rd, l) /\ Books(k.file, k.tree, k.queue, k.current, away, odd)
  BY DEF Sound
<1>2. NoFile \in FileType /\ NoFile.uses = 0 /\ NoFile.count = 0 /\ NoFile.fd = NoFd
  BY DEF NoFile, FileType
<1>3. k.file[e] \in FileType
  BY <1>1, CacheParts
<1>4. k.file[e] # NoFile <=> k.file[e].uses >= 1
  BY <1>1, <1>2 DEF Data, Fitting
<1>5. e \in k.tree => ~k.file[e].close /\ k.file[e].uses >= 1
  BY <1>1 DEF Books
<1>6. e \notin k.tree => k.file[e] = NoFile \/ k.file[e].close
  BY <1>1 DEF Books
<1> QED BY <1>2, <1>3, <1>4, <1>5, <1>6

\* The events of an entry.
Marked(k, e, a, b) == WithFile(k, e, [k.file[e] EXCEPT !.event = a, !.use_event = b])

LEMMA Marks ==
  ASSUME NEW k \in Caches, NEW e \in Cached
  PROVE  /\ DelEvent(k, e) = Marked(k, e, FALSE, FALSE)
         /\ \A fd : AddEvent(k, e, fd) = k \/ AddEvent(k, e, fd) = Marked(k, e, TRUE, FALSE)
<1>1. k.file \in Files /\ k.file[e] \in FileType
  BY CacheParts
<1>2. ASSUME NEW a \in BOOLEAN
      PROVE  [k EXCEPT !.file[e].event = a, !.file[e].use_event = FALSE] = Marked(k, e, a, FALSE)
  <2> DEFINE g == [k.file[e] EXCEPT !.event = a]
             h == [k.file EXCEPT ![e] = g]
             m == [k EXCEPT !.file = h]
  <2>1. [k EXCEPT !.file[e].event = a] = m
    BY DEF Caches
  <2>2. m.file = h /\ h[e] = g
    BY <1>1 DEF Caches, Files
  <2> HIDE DEF m, h, g
  <2>3. [k EXCEPT !.file[e].event = a, !.file[e].use_event = FALSE]
          = [m EXCEPT !.file = [h EXCEPT ![e] = [g EXCEPT !.use_event = FALSE]]]
    BY <2>1, <2>2
  <2>4. [g EXCEPT !.use_event = FALSE] = [k.file[e] EXCEPT !.event = a, !.use_event = FALSE]
    BY DEF g
  <2> DEFINE z == [k.file[e] EXCEPT !.event = a, !.use_event = FALSE]
  <2> HIDE DEF z
  <2>5. [h EXCEPT ![e] = z] = [k.file EXCEPT ![e] = z]
    BY <1>1 DEF h, Files
  <2> DEFINE y == [k.file EXCEPT ![e] = z]
  <2>6. WithFile(k, e, z) = [k EXCEPT !.file = y]
    BY DEF WithFile, Caches
  <2>7. [m EXCEPT !.file = y] = [k EXCEPT !.file = y]
    BY DEF m, Caches
  <2> QED BY <2>3, <2>4, <2>5, <2>6, <2>7 DEF Marked, z
<1>3. DelEvent(k, e) = Marked(k, e, FALSE, FALSE)
  BY <1>2 DEF DelEvent
<1>4. \A fd : AddEvent(k, e, fd) = k \/ AddEvent(k, e, fd) = Marked(k, e, TRUE, FALSE)
  BY <1>2 DEF AddEvent
<1> QED BY <1>3, <1>4

LEMMA MarkedFields ==
  ASSUME NEW k \in Caches, NEW e \in Cached, NEW a \in BOOLEAN, NEW b \in BOOLEAN
  PROVE  LET k2 == Marked(k, e, a, b) IN
         /\ k2 \in Caches /\ k2.tree = k.tree /\ k2.queue = k.queue /\ k2.current = k.current
         /\ k2.fds = k.fds /\ k2.exited = k.exited
         /\ k2.file[e] = [k.file[e] EXCEPT !.event = a, !.use_event = b]
         /\ k2.file = [k.file EXCEPT ![e] = [k.file[e] EXCEPT !.event = a, !.use_event = b]]
         /\ k2.file[e].uses = k.file[e].uses /\ k2.file[e].name = k.file[e].name
         /\ k2.file[e].kind = k.file[e].kind /\ k2.file[e].fd = k.file[e].fd
         /\ k2.file[e].uniq = k.file[e].uniq /\ k2.file[e].count = k.file[e].count
         /\ k2.file[e].close = k.file[e].close
         /\ \A x \in Cached \ {e} : k2.file[x] = k.file[x]
<1> DEFINE f == [k.file[e] EXCEPT !.event = a, !.use_event = b]
<1>1. k.file[e] \in FileType
  BY CacheParts
<1>2. f \in FileType
  BY <1>1 DEF FileType
<1>3. /\ f.uses = k.file[e].uses /\ f.name = k.file[e].name /\ f.kind = k.file[e].kind /\ f.fd = k.file[e].fd
      /\ f.uniq = k.file[e].uniq /\ f.count = k.file[e].count /\ f.close = k.file[e].close
  BY <1>1 DEF FileType
<1> HIDE DEF f
<1>4. Marked(k, e, a, b) = WithFile(k, e, f)
  BY DEF Marked, f
<1>5. LET k2 == WithFile(k, e, f) IN
      /\ k2 \in Caches /\ k2.file = [k.file EXCEPT ![e] = f] /\ k2.tree = k.tree /\ k2.queue = k.queue
      /\ k2.current = k.current /\ k2.fds = k.fds /\ k2.exited = k.exited
      /\ k2.file[e] = f /\ \A x \in Cached \ {e} : k2.file[x] = k.file[x]
  BY <1>2, WithFileFields
<1> QED BY <1>3, <1>4, <1>5 DEF f

LEMMA MarkedSound ==
  ASSUME NEW k, NEW rd, NEW l, NEW away, NEW odd, Sound(k, rd, l, away, odd), NEW e \in Cached,
         k.file[e] # NoFile, NEW a \in BOOLEAN, NEW b \in BOOLEAN
  PROVE  Sound(Marked(k, e, a, b), rd, l, away, odd)
<1> DEFINE f == [k.file[e] EXCEPT !.event = a, !.use_event = b]
<1>1. k.file[e] \in FileType /\ k.file[e].uses >= 1
  BY Allocates
<1>2. f \in FileType
  BY <1>1 DEF FileType
<1>3. /\ f.uses = k.file[e].uses /\ f.name = k.file[e].name /\ f.kind = k.file[e].kind /\ f.fd = k.file[e].fd
      /\ f.uniq = k.file[e].uniq /\ f.count = k.file[e].count /\ f.close = k.file[e].close
  BY <1>1 DEF FileType
<1> HIDE DEF f
<1>4. Marked(k, e, a, b) = WithFile(k, e, f)
  BY DEF Marked, f
<1> QED BY <1>1, <1>2, <1>3, <1>4, QuietFile

-----------------------------------------------------------------------------
(* Entries that are closed, and that leave the cache *)

\* The descriptor of an entry that nobody uses is closed, or the entry is freed.
LEMMA DataShut ==
  ASSUME NEW file \in Files, NEW fds \in Descs, NEW rd \in Reads, NEW l, Data(file, fds, rd, l),
         NEW e \in Cached, file[e].count = 0, NEW f \in FileType, f = NoFile \/ f.uses >= 1,
         f.fd = NoFd, f.count = 0
  PROVE  LET fds2 == IF file[e].fd = NoFd THEN fds ELSE [fds EXCEPT ![file[e].fd] = 0] IN
         fds2 \in Descs /\ Data([file EXCEPT ![e] = f], fds2, rd, l)
<1> DEFINE fds2 == IF file[e].fd = NoFd THEN fds ELSE [fds EXCEPT ![file[e].fd] = 0]
<1>1. \A r \in Readers : rd[r].entry # e
  BY HavingNone DEF Data
<1>2. file[e].fd \in FileDescs \cup {NoFd} /\ NoFd \notin FileDescs
  BY Constants DEF Files, FileType
<1>3. fds2 \in Descs /\ \A d \in FileDescs : fds2[d] = IF d = file[e].fd THEN 0 ELSE fds[d]
  BY <1>2 DEF Descs
<1> HIDE DEF fds2
<1>4. Fitting(f, fds2, l) /\ f.count = Cardinality(HavingIn(rd, e))
  BY DEF Data, Fitting
<1>5. \A x \in Cached \ {e} : file[x].fd # NoFd =>
        fds2[file[x].fd] = fds[file[x].fd] /\ file[x].fd # l.fd /\ file[x].fd # f.fd
  <2> SUFFICES ASSUME NEW x \in Cached \ {e}, file[x].fd # NoFd
               PROVE  fds2[file[x].fd] = fds[file[x].fd] /\ file[x].fd # l.fd
    OBVIOUS
  <2>1. file[x].fd \in FileDescs
    BY DEF Files, FileType
  <2>2. file[x].fd # file[e].fd /\ file[x].fd # l.fd
    BY DEF Data, Fitting
  <2> QED BY <1>3, <2>1, <2>2
<1>6. \A d \in FileDescs : fds2[d] # 0 => d = l.fd \/ d = f.fd \/ \E x \in Cached \ {e} : file[x].fd = d
  BY <1>3 DEF Data
<1>7. l.fd \in FileDescs \cup {NoFd} /\ (l.fd # NoFd => l.uniq \in Uniqs /\ fds2[l.fd] = l.uniq)
  <2>1. l.fd \in FileDescs \cup {NoFd} /\ (l.fd # NoFd => l.uniq \in Uniqs /\ fds[l.fd] = l.uniq) /\ (file[e].fd # NoFd => file[e].fd # l.fd)
    BY DEF Data, Fitting
  <2> QED BY <1>2, <1>3, <2>1
<1>8. \A r \in Readers : \/ rd[r] = Nobody
                         \/ rd[r].entry = e /\ rd[r].uniq = f.uniq
                         \/ rd[r] = rd[r] /\ rd[r].entry # e
  BY <1>1
<1>9. fds2 \in Descs
  BY <1>3
<1>10. \A x \in Cached \ {e} : HavingIn(rd, x) = HavingIn(rd, x)
  OBVIOUS
<1>11. Data([file EXCEPT ![e] = f], fds2, rd, l)
  BY <1>4, <1>5, <1>6, <1>7, <1>8, <1>9, <1>10, DataStep
<1> QED BY <1>9, <1>11 DEF fds2

\* What is left of an entry without its descriptor.
Shutting(f) == [f EXCEPT !.event = FALSE, !.use_event = FALSE, !.fd = NoFd]

LEMMA ShutFields ==
  ASSUME NEW k \in Caches, NEW e \in Cached
  PROVE  LET k2 == Shut(k, e) IN
         /\ k2 \in Caches /\ k2.tree = k.tree /\ k2.queue = k.queue /\ k2.current = k.current
         /\ k2.exited = k.exited /\ k2.file = [k.file EXCEPT ![e] = Shutting(k.file[e])]
         /\ Shutting(k.file[e]) \in FileType
         /\ k2.fds = IF k.file[e].fd = NoFd THEN k.fds ELSE [k.fds EXCEPT ![k.file[e].fd] = 0]
<1> DEFINE m == DelEvent(k, e)
           d == k.file[e].fd
           g == [k.file[e] EXCEPT !.event = FALSE, !.use_event = FALSE]
           c == FdClosed(m, d)
           fds2 == IF d = NoFd THEN k.fds ELSE [k.fds EXCEPT ![d] = 0]
           z == Shutting(k.file[e])
<1>1. k.file \in Files /\ k.file[e] \in FileType /\ k.fds \in Descs /\ d \in FileDescs \cup {NoFd}
  BY CacheParts DEF FileType
<1>2. /\ m \in Caches /\ m.tree = k.tree /\ m.queue = k.queue /\ m.current = k.current
      /\ m.fds = k.fds /\ m.exited = k.exited /\ m.file = [k.file EXCEPT ![e] = g]
  <2>1. m = Marked(k, e, FALSE, FALSE)
    BY Marks
  <2> HIDE DEF m
  <2> QED BY <2>1, MarkedFields
<1>3. fds2 \in Descs
  BY <1>1 DEF Descs
<1>4. z = [g EXCEPT !.fd = NoFd] /\ z \in FileType
  BY <1>1 DEF Shutting, FileType
<1> HIDE DEF m, z, g
<1>5. /\ c \in Caches /\ c.tree = k.tree /\ c.queue = k.queue /\ c.current = k.current
      /\ c.fds = fds2 /\ c.exited = k.exited /\ c.file = [k.file EXCEPT ![e] = g]
  <2>1. CASE d = NoFd
    BY <1>2, <2>1 DEF FdClosed
  <2>2. CASE d # NoFd
    <3>1. c = [m EXCEPT !.fds = fds2]
      BY <1>2, <2>2 DEF FdClosed, Caches
    <3> HIDE DEF c, fds2
    <3> QED BY <1>2, <1>3, <3>1 DEF Caches
  <2> QED BY <2>1, <2>2
<1> HIDE DEF c, fds2
<1>6. Shut(k, e) = [c EXCEPT !.file[e].fd = NoFd]
  BY DEF Shut, c, m, d
<1> DEFINE h == [k.file EXCEPT ![e] = z]
<1>7. [c.file EXCEPT ![e].fd = NoFd] = h
  BY <1>1, <1>4, <1>5 DEF Files
<1>8. [c EXCEPT !.file[e].fd = NoFd] = [c EXCEPT !.file = h]
  BY <1>5, <1>7 DEF Caches
<1>9. h \in Files
  BY <1>1, <1>4 DEF Files
<1> DEFINE s == Shut(k, e)
<1>10. s = [c EXCEPT !.file = h]
  BY <1>6, <1>8
<1> HIDE DEF h, s
<1>11. s \in Caches /\ s.file = h /\ s.tree = c.tree /\ s.queue = c.queue /\ s.current = c.current
       /\ s.fds = c.fds /\ s.exited = c.exited
  BY <1>5, <1>9, <1>10 DEF Caches
<1>12. /\ s \in Caches /\ s.tree = k.tree /\ s.queue = k.queue /\ s.current = k.current
       /\ s.exited = k.exited /\ s.file = h /\ s.fds = fds2
  BY <1>5, <1>11
<1> QED BY <1>4, <1>12 DEF s, h, z, fds2, d

LEMMA ShutSound ==
  ASSUME NEW k, NEW rd, NEW l, NEW away, NEW odd, Sound(k, rd, l, away, odd), NEW e \in Cached,
         k.file[e] # NoFile, k.file[e].count = 0
  PROVE  Sound(Shut(k, e), rd, l, away, odd)
<1> DEFINE f == Shutting(k.file[e])
           s == Shut(k, e)
           fds2 == IF k.file[e].fd = NoFd THEN k.fds ELSE [k.fds EXCEPT ![k.file[e].fd] = 0]
<1>1. k \in Caches /\ rd \in Reads /\ ~k.exited /\ Data(k.file, k.fds, rd, l)
      /\ Books(k.file, k.tree, k.queue, k.current, away, odd)
  BY DEF Sound
<1>2. k.file \in Files /\ k.tree \in SUBSET Cached /\ k.fds \in Descs /\ k.file[e] \in FileType
  BY <1>1, CacheParts
<1>3. /\ s \in Caches /\ s.tree = k.tree /\ s.queue = k.queue /\ s.current = k.current
      /\ s.exited = k.exited /\ s.file = [k.file EXCEPT ![e] = f] /\ f \in FileType /\ s.fds = fds2
  BY <1>1, ShutFields
<1>4. k.file[e].uses >= 1 /\ (e \in k.tree => ~k.file[e].close) /\ (e \notin k.tree => k.file[e].close)
  BY Allocates
<1>5. f.fd = NoFd /\ f.count = 0 /\ f.uses >= 1 /\ f.name = k.file[e].name /\ f.close = k.file[e].close
  BY <1>2, <1>4 DEF Shutting, FileType
<1> HIDE DEF s, f, fds2
<1>6. Data([k.file EXCEPT ![e] = f], fds2, rd, l)
  BY <1>1, <1>2, <1>3, <1>5, DataShut DEF fds2
<1>7. Books([k.file EXCEPT ![e] = f], k.tree, k.queue, k.current, away, odd)
  <2>1. e \notin k.tree => f = NoFile \/ (f.close /\ (f.count > 0 \/ e = odd))
    BY <1>1, <1>2, <1>4, <1>5 DEF Books, FileType
  <2>2. odd \notin k.tree
    BY <1>1 DEF Books
  <2> QED BY <1>1, <1>2, <1>3, <1>4, <1>5, <2>1, <2>2, BooksStep
<1>8. Sound(s, rd, l, away, odd)
  BY <1>1, <1>3, <1>6, <1>7 DEF Sound
<1> QED BY <1>8 DEF s

\* An entry out of the tree without descriptor is freed.
LEMMA FreeSound ==
  ASSUME NEW k, NEW rd, NEW l, NEW away, NEW e \in Cached, Sound(k, rd, l, away, e), e \notin k.tree,
         k.file[e].fd = NoFd, k.file[e].count = 0
  PROVE  Sound(WithFile(k, e, NoFile), rd, l, away, 0)
<1> DEFINE s == WithFile(k, e, NoFile)
<1>1. k \in Caches /\ rd \in Reads /\ ~k.exited /\ Data(k.file, k.fds, rd, l)
      /\ Books(k.file, k.tree, k.queue, k.current, away, e)
  BY DEF Sound
<1>2. k.file \in Files /\ k.tree \in SUBSET Cached /\ k.fds \in Descs /\ 0 \notin Cached
  BY <1>1, CacheParts, Constants
<1>3. NoFile \in FileType /\ NoFile.count = 0 /\ NoFile.fd = NoFd
  BY Allocates
<1>4. /\ s \in Caches /\ s.file = [k.file EXCEPT ![e] = NoFile] /\ s.tree = k.tree /\ s.queue = k.queue
      /\ s.current = k.current /\ s.fds = k.fds /\ s.exited = k.exited
  BY <1>1, <1>3, WithFileFields
<1> HIDE DEF s
<1>5. Data([k.file EXCEPT ![e] = NoFile], k.fds, rd, l)
  BY <1>1, <1>2, <1>3, DataShut
<1>6. Books([k.file EXCEPT ![e] = NoFile], k.tree, k.queue, k.current, away, 0)
  <2>1. 0 \notin k.tree
    BY <1>2
  <2> QED BY <1>1, <1>2, <1>3, <2>1, BooksStep
<1>7. Sound(s, rd, l, away, 0)
  BY <1>1, <1>4, <1>5, <1>6 DEF Sound
<1> QED BY <1>7 DEF s

\* One out of the tree that requests use stays.
LEMMA UsedSound ==
  ASSUME NEW k, NEW rd, NEW l, NEW away, NEW e \in Cached, Sound(k, rd, l, away, e),
         k.file[e] = NoFile \/ k.file[e].count > 0
  PROVE  Sound(k, rd, l, away, 0)
<1>1. k.tree \in SUBSET Cached /\ 0 \notin Cached
  BY Constants, CacheParts DEF Sound
<1>2. Books(k.file, k.tree, k.queue, k.current, away, 0)
  BY <1>1 DEF Sound, Books
<1> QED BY <1>2 DEF Sound

\* An entry that is away from the queue is taken out of the tree and marked as closed.
Leaving(g, a, b) == [g EXCEPT !.close = TRUE, !.event = a, !.use_event = b]
LeftCache(k, e, a, b) == WithFile(Untreed(k, e), e, Leaving(k.file[e], a, b))

LEMMA LeaveSound ==
  ASSUME NEW k, NEW rd, NEW l, NEW e \in Cached, Sound(k, rd, l, e, 0), NEW a \in BOOLEAN, NEW b \in BOOLEAN
  PROVE  LET f == Leaving(k.file[e], a, b)
             s == LeftCache(k, e, a, b)
         IN  /\ Sound(s, rd, l, 0, e) /\ s.file[e] = f /\ f \in FileType /\ f # NoFile
             /\ f.count = k.file[e].count /\ f.fd = k.file[e].fd /\ f.close /\ f.uses >= 1
             /\ e \in k.tree /\ s.tree = k.tree \ {e} /\ s.current = k.current - 1 /\ s.queue = k.queue
             /\ \A x \in Cached \ {e} : s.file[x] = k.file[x]
<1> DEFINE f == Leaving(k.file[e], a, b)
           u == Untreed(k, e)
           s == WithFile(u, e, f)
<1>1. k \in Caches /\ rd \in Reads /\ ~k.exited /\ Data(k.file, k.fds, rd, l)
      /\ Books(k.file, k.tree, k.queue, k.current, e, 0)
  BY DEF Sound
<1>2. k.file \in Files /\ k.tree \in SUBSET Cached /\ k.fds \in Descs /\ k.file[e] \in FileType /\ 0 \notin Cached
      /\ k.queue \in Seq(Cached) /\ k.current \in Int
  BY <1>1, CacheParts, Constants
<1>3. e \in k.tree
  BY <1>1, <1>2 DEF Books
<1>4. k.file[e].uses >= 1 /\ NoFile.uses = 0
  BY <1>3, Allocates
<1>5. f \in FileType /\ f.close /\ f.uses = k.file[e].uses /\ f.name = k.file[e].name /\ f.kind = k.file[e].kind
      /\ f.fd = k.file[e].fd /\ f.uniq = k.file[e].uniq /\ f.count = k.file[e].count
  BY <1>2 DEF Leaving, FileType
<1>6. u \in Caches /\ u.file = k.file /\ u.tree = k.tree \ {e} /\ u.queue = k.queue /\ u.current = k.current - 1
      /\ u.fds = k.fds /\ u.exited = k.exited
  <2> DEFINE c == k.current - 1 t == k.tree \ {e}
  <2>1. u = [k EXCEPT !.tree = t, !.current = c]
    BY <1>1 DEF Untreed, Caches
  <2>2. c \in Int /\ t \in SUBSET Cached
    BY <1>2
  <2> HIDE DEF u, c, t
  <2>3. u \in Caches /\ u.file = k.file /\ u.tree = t /\ u.queue = k.queue /\ u.current = c
        /\ u.fds = k.fds /\ u.exited = k.exited
    BY <1>1, <2>1, <2>2 DEF Caches
  <2> QED BY <2>3 DEF c, t
<1> HIDE DEF u, f
<1>7. /\ s \in Caches /\ s.file = [k.file EXCEPT ![e] = f] /\ s.tree = k.tree \ {e} /\ s.queue = k.queue
      /\ s.current = k.current - 1 /\ s.fds = k.fds /\ s.exited = k.exited
      /\ s.file[e] = f /\ \A x \in Cached \ {e} : s.file[x] = k.file[x]
  BY <1>5, <1>6, WithFileFields
<1> HIDE DEF s
<1>8. Data([k.file EXCEPT ![e] = f], k.fds, rd, l)
  BY <1>1, <1>2, <1>4, <1>5, DataQuiet
<1>9. Books([k.file EXCEPT ![e] = f], k.tree \ {e}, k.queue, k.current - 1, 0, e)
  BY <1>1, <1>2, <1>3, <1>5, BooksLeave
<1>10. Sound(s, rd, l, 0, e)
  BY <1>1, <1>7, <1>8, <1>9 DEF Sound
<1>11. f # NoFile /\ f.uses >= 1
  BY <1>4, <1>5
<1> QED BY <1>3, <1>5, <1>7, <1>10, <1>11 DEF LeftCache, s, u, f

LEMMA UnqueuedSound ==
  ASSUME NEW k, NEW rd, NEW l, NEW odd, Sound(k, rd, l, 0, odd), NEW e \in k.tree
  PROVE  LET u == Unqueued(k, e) IN
         /\ Sound(u, rd, l, e, odd) /\ u.file = k.file /\ u.tree = k.tree /\ u.current = k.current
         /\ u.fds = k.fds /\ u.exited = k.exited
<1> DEFINE u == Unqueued(k, e)
           q == RemoveAt(k.queue, CHOOSE i \in DOMAIN k.queue : k.queue[i] = e)
<1>1. k \in Caches /\ rd \in Reads /\ ~k.exited /\ Data(k.file, k.fds, rd, l)
      /\ Books(k.file, k.tree, k.queue, k.current, 0, odd)
  BY DEF Sound
<1>2. q \in Seq(Cached) /\ Books(k.file, k.tree, q, k.current, e, odd)
  BY <1>1, CacheParts, BooksAway
<1>3. u = [k EXCEPT !.queue = q]
  BY <1>1 DEF Unqueued, Caches
<1> HIDE DEF q, u
<1>4. /\ u \in Caches /\ u.file = k.file /\ u.tree = k.tree /\ u.queue = q /\ u.current = k.current
      /\ u.fds = k.fds /\ u.exited = k.exited
  BY <1>1, <1>2, <1>3 DEF Caches
<1>5. Sound(u, rd, l, e, odd)
  BY <1>1, <1>2, <1>4 DEF Sound
<1> QED BY <1>4, <1>5 DEF u

LEMMA QueuedSound ==
  ASSUME NEW k, NEW rd, NEW l, NEW odd, NEW e \in Cached, Sound(k, rd, l, e, odd)
  PROVE  LET u == QueuedFirst(k, e) IN
         /\ Sound(u, rd, l, 0, odd) /\ u.file = k.file /\ u.tree = k.tree /\ u.current = k.current
         /\ u.fds = k.fds /\ u.exited = k.exited
<1> DEFINE u == QueuedFirst(k, e)
           q == <<e>> \o k.queue
<1>1. k \in Caches /\ rd \in Reads /\ ~k.exited /\ Data(k.file, k.fds, rd, l)
      /\ Books(k.file, k.tree, k.queue, k.current, e, odd)
  BY DEF Sound
<1>2. e \in k.tree
  BY <1>1, Constants DEF Books
<1>3. q \in Seq(Cached) /\ Books(k.file, k.tree, q, k.current, 0, odd)
  BY <1>1, <1>2, CacheParts, BooksBack
<1>4. u = [k EXCEPT !.queue = q]
  BY <1>1 DEF QueuedFirst, Caches
<1> HIDE DEF q, u
<1>5. /\ u \in Caches /\ u.file = k.file /\ u.tree = k.tree /\ u.queue = q /\ u.current = k.current
      /\ u.fds = k.fds /\ u.exited = k.exited
  BY <1>1, <1>3, <1>4 DEF Caches
<1>6. Sound(u, rd, l, 0, odd)
  BY <1>1, <1>3, <1>5 DEF Sound
<1> QED BY <1>5, <1>6 DEF u

\* What the closing of an entry means for its record.
LEMMA Closing ==
  ASSUME NEW k \in Caches, NEW e \in Cached
  PROVE  LET g == k.file[e] IN
         /\ [k EXCEPT !.file[e].close = TRUE]
              = WithFile(k, e, Leaving(g, g.event, g.use_event))
         /\ [DelEvent(k, e) EXCEPT !.file[e].close = TRUE]
              = WithFile(k, e, Leaving(g, FALSE, FALSE))
         /\ g.event \in BOOLEAN /\ g.use_event \in BOOLEAN
<1> DEFINE g == k.file[e]
           f == [g EXCEPT !.close = TRUE]
           m == DelEvent(k, e)
           h == [g EXCEPT !.event = FALSE, !.use_event = FALSE]
           z == Leaving(g, FALSE, FALSE)
<1>1. k.file \in Files /\ g \in FileType
  BY CacheParts
<1>2. g.event \in BOOLEAN /\ g.use_event \in BOOLEAN
  BY <1>1 DEF FileType
<1>3. f = Leaving(g, g.event, g.use_event)
  BY <1>1 DEF Leaving, FileType
<1>4. [k EXCEPT !.file[e].close = TRUE] = WithFile(k, e, f)
  BY DEF WithFile, Caches
<1>5. m = Marked(k, e, FALSE, FALSE)
  BY Marks
<1>6. m \in Caches /\ m.file = [k.file EXCEPT ![e] = h] /\ m = WithFile(k, e, h)
  <2> HIDE DEF m
  <2> QED BY <1>5, MarkedFields DEF Marked
<1>7. z = [h EXCEPT !.close = TRUE]
  BY <1>1 DEF Leaving, FileType
<1>8. [m EXCEPT !.file[e].close = TRUE] = WithFile(k, e, z)
  <2> HIDE DEF m, z, h
  <2>1. [m.file EXCEPT ![e].close = TRUE] = [k.file EXCEPT ![e] = z]
    BY <1>1, <1>6, <1>7 DEF Files
  <2> DEFINE y == [k.file EXCEPT ![e] = z] x == [k.file EXCEPT ![e] = h]
  <2>2. [m EXCEPT !.file[e].close = TRUE] = [m EXCEPT !.file = y]
    BY <1>6, <2>1 DEF Caches
  <2>3. m = [k EXCEPT !.file = x] /\ WithFile(k, e, z) = [k EXCEPT !.file = y]
    BY <1>6 DEF WithFile, Caches
  <2> HIDE DEF y, x
  <2>4. [m EXCEPT !.file = y] = [k EXCEPT !.file = y]
    BY <2>3 DEF Caches
  <2> QED BY <2>2, <2>3, <2>4
<1> QED BY <1>2, <1>3, <1>4, <1>8

\* A cache that only lost entries.
Narrower(k, k2) ==
  /\ k2.tree \subseteq k.tree /\ k2.current <= k.current
  /\ \A x \in Cached : k.file[x] = NoFile => k2.file[x] = NoFile
  /\ \A x \in k2.tree : k2.file[x].name = k.file[x].name

LEMMA NarrowerTrans ==
  ASSUME NEW k \in Caches, NEW k2 \in Caches, NEW k3 \in Caches, Narrower(k, k2), Narrower(k2, k3)
  PROVE  Narrower(k, k3)
<1>1. k.current \in Int /\ k2.current \in Int /\ k3.current \in Int
  BY CacheParts
<1>2. k3.current <= k.current
  BY <1>1 DEF Narrower
<1> QED BY <1>2 DEF Narrower

\* ngx_close_cached_file()
LEMMA CloseSound ==
  ASSUME NEW k, NEW rd, NEW l, NEW odd, Sound(k, rd, l, 0, odd), NEW e \in Cached, NEW min,
         k.file[e] # NoFile, (e \in k.tree /\ odd = 0) \/ (e \notin k.tree /\ odd = e)
  PROVE  LET c == CloseCached(k, e, min) IN
         /\ Sound(c, rd, l, 0, 0) /\ c.tree = k.tree /\ c.current = k.current
         /\ \A x \in Cached \ {e} : c.file[x] = k.file[x]
         /\ e \in k.tree => c.file[e].name = k.file[e].name
<1> DEFINE f == k.file[e]
           c == CloseCached(k, e, min)
<1>1. k \in Caches /\ Data(k.file, k.fds, rd, l)
  BY DEF Sound
<1>2. f \in FileType /\ f.uses >= 1 /\ (e \in k.tree => ~f.close) /\ (e \notin k.tree => f.close)
  BY Allocates
<1>3. f.count \in Nat /\ (f.count > 0 \/ f.count = 0)
  <2>1. f.count \in Nat
    BY <1>2 DEF FileType
  <2> QED BY <2>1
<1>4. CASE f.close /\ f.count > 0
  <2> DEFINE m == Marked(k, e, FALSE, FALSE)
  <2>1. c = m
    BY <1>1, <1>4, Marks DEF CloseCached
  <2>2. Sound(m, rd, l, 0, odd) /\ odd = e
    BY <1>2, <1>4, MarkedSound
  <2>3. /\ m.tree = k.tree /\ m.current = k.current /\ m.file[e].count = f.count
        /\ \A x \in Cached \ {e} : m.file[x] = k.file[x]
    BY <1>1, MarkedFields
  <2> HIDE DEF m
  <2>4. Sound(m, rd, l, 0, 0)
    BY <1>4, <2>2, <2>3, UsedSound
  <2> QED BY <1>2, <1>4, <2>1, <2>3, <2>4
<1>5. CASE f.close /\ f.count = 0
  <2> DEFINE s == Shut(k, e) w == WithFile(s, e, NoFile)
  <2>1. c = w
    BY <1>3, <1>5 DEF CloseCached
  <2>2. Sound(s, rd, l, 0, e) /\ e \notin k.tree
    BY <1>2, <1>5, ShutSound
  <2>3. /\ s \in Caches /\ s.tree = k.tree /\ s.current = k.current
        /\ s.file = [k.file EXCEPT ![e] = Shutting(f)] /\ Shutting(f) \in FileType
    BY <1>1, ShutFields
  <2>4. s.file[e].fd = NoFd /\ s.file[e].count = 0 /\ \A x \in Cached \ {e} : s.file[x] = k.file[x]
    <3>1. Shutting(f).fd = NoFd /\ Shutting(f).count = 0
      BY <1>2, <1>5 DEF Shutting, FileType
    <3>2. s.file[e] = Shutting(f) /\ \A x \in Cached \ {e} : s.file[x] = k.file[x]
      <4> HIDE DEF s
      <4> QED BY <1>1, <2>3 DEF Caches, Files
    <3> QED BY <3>1, <3>2
  <2> HIDE DEF s
  <2>5. Sound(w, rd, l, 0, 0)
    BY <2>2, <2>3, <2>4, FreeSound
  <2>6. w.tree = s.tree /\ w.current = s.current /\ \A x \in Cached \ {e} : w.file[x] = s.file[x]
    <3>1. s \in Caches
      BY <2>3
    <3> HIDE DEF f, c
    <3> QED BY <3>1, FreedFields
  <2> HIDE DEF w
  <2> QED BY <2>1, <2>2, <2>3, <2>4, <2>5, <2>6
<1>6. CASE ~f.close
  <2> DEFINE a == [f EXCEPT !.accessed = 0]
             w == WithFile(k, e, a)
             u == Unqueued(w, e)
             k1 == QueuedFirst(u, e)
  <2>1. e \in k.tree /\ odd = 0
    BY <1>2, <1>6
  <2>2. a \in FileType /\ a.uses = f.uses /\ a.name = f.name /\ a.kind = f.kind /\ a.fd = f.fd /\ a.uniq = f.uniq
        /\ a.count = f.count /\ a.close = f.close
    BY <1>2 DEF FileType
  <2> HIDE DEF a
  <2>3. Sound(w, rd, l, 0, 0)
    BY <1>2, <2>1, <2>2, QuietFile
  <2>4. w.tree = k.tree /\ w.current = k.current /\ w.file[e] = a /\ \A x \in Cached \ {e} : w.file[x] = k.file[x]
    <3>1. k \in Caches /\ a \in FileType
      BY <1>1, <2>2
    <3>2. /\ w \in Caches /\ w.file = [k.file EXCEPT ![e] = a] /\ w.tree = k.tree /\ w.queue = k.queue
          /\ w.current = k.current /\ w.fds = k.fds /\ w.exited = k.exited
          /\ w.file[e] = a /\ \A x \in Cached \ {e} : w.file[x] = k.file[x]
      BY <3>1, WithFileFields
    <3> HIDE DEF w
    <3> QED BY <3>2
  <2> HIDE DEF w
  <2>5. Sound(u, rd, l, e, 0) /\ u.file = w.file /\ u.tree = w.tree /\ u.current = w.current
    BY <2>1, <2>3, <2>4, UnqueuedSound
  <2> HIDE DEF u
  <2>6. Sound(k1, rd, l, 0, 0) /\ k1.file = u.file /\ k1.tree = u.tree /\ k1.current = u.current
    BY <2>5, QueuedSound
  <2> HIDE DEF k1
  <2>7. k1.tree = k.tree /\ k1.current = k.current /\ k1.file[e] = a /\ \A x \in Cached \ {e} : k1.file[x] = k.file[x]
    BY <2>4, <2>5, <2>6
  <2>8. CASE f.uses >= min \/ f.count > 0
    <3>1. c = k1
      BY <1>6, <2>8 DEF CloseCached, k1, u, w, a
    <3> QED BY <2>2, <2>6, <2>7, <3>1
  <2>9. CASE ~(f.uses >= min \/ f.count > 0)
    <3> DEFINE s == Shut(k1, e)
    <3>1. c = s
      BY <1>6, <2>9 DEF CloseCached, k1, u, w, a
    <3>2. a.count = 0 /\ a # NoFile
      BY <1>2, <1>3, <2>2, <2>9, Allocates
    <3>3. Sound(s, rd, l, 0, 0)
      BY <2>6, <2>7, <3>2, ShutSound
    <3>4. k1 \in Caches
      BY <2>6 DEF Sound
    <3>5. s.tree = k1.tree /\ s.current = k1.current /\ s.file = [k1.file EXCEPT ![e] = Shutting(a)]
          /\ Shutting(a) \in FileType
      BY <2>7, <3>4, ShutFields
    <3>6. s.file[e] = Shutting(a) /\ \A x \in Cached \ {e} : s.file[x] = k1.file[x]
      BY <3>4, <3>5 DEF Caches, Files
    <3>7. Shutting(a).name = f.name
      BY <2>2 DEF Shutting, FileType
    <3> HIDE DEF s
    <3> QED BY <2>7, <3>1, <3>3, <3>5, <3>6, <3>7
  <2> QED BY <2>8, <2>9
<1> QED BY <1>3, <1>4, <1>5, <1>6

\* One place of the queue is nobody's but the entry's: a forced expiry makes room.
LEMMA Twice ==
  ASSUME NEW k \in Caches, NEW e \in Cached, NEW f \in FileType, NEW g \in FileType
  PROVE  WithFile(WithFile(k, e, f), e, g) = WithFile(k, e, g)
<1> DEFINE x == [k.file EXCEPT ![e] = f] y == [k.file EXCEPT ![e] = g] m == WithFile(k, e, f)
<1>1. k.file \in Files
  BY CacheParts
<1>2. m = [k EXCEPT !.file = x] /\ m.file = x /\ m \in Caches
  BY <1>1, WithFileFields DEF WithFile, Caches
<1>3. [x EXCEPT ![e] = g] = y
  BY <1>1 DEF Files
<1> HIDE DEF x, y, m
<1>4. WithFile(m, e, g) = [m EXCEPT !.file = y]
  BY <1>2, <1>3 DEF WithFile, Caches
<1>5. [m EXCEPT !.file = y] = [k EXCEPT !.file = y]
  BY <1>2 DEF Caches
<1>6. WithFile(k, e, g) = [k EXCEPT !.file = y]
  BY DEF WithFile, Caches, y
<1> QED BY <1>4, <1>5, <1>6 DEF m

\* One turn of ngx_expire_old_cached_files()
LEMMA ExpireSound ==
  ASSUME NEW k, NEW rd, NEW l, Sound(k, rd, l, 0, 0), NEW force
  PROVE  LET c == ExpireOne(k, force) IN
         /\ Sound(c, rd, l, 0, 0) /\ Narrower(k, c)
         /\ force /\ k.current >= 1 => c.current = k.current - 1
<1> DEFINE c == ExpireOne(k, force)
           e == Last(k.queue)
           u == Unqueued(k, e)
           k1 == Untreed(u, e)
           g == k.file[e]
           f == Leaving(g, g.event, g.use_event)
           s == WithFile(k1, e, f)
<1>1. k \in Caches /\ Data(k.file, k.fds, rd, l) /\ Books(k.file, k.tree, k.queue, k.current, 0, 0)
  BY DEF Sound
<1>2. k.queue \in Seq(Cached) /\ k.current \in Int /\ k.tree \in SUBSET Cached /\ ToSet(k.queue) = k.tree
      /\ k.current = Len(k.queue) /\ k.file \in Files
  BY <1>1, Constants, CacheParts DEF Books
<1>3. CASE k.queue = <<>> \/ (~force /\ g.accessed <= Inactive)
  <2>1. c = k
    BY <1>3 DEF ExpireOne
  <2>2. k.queue = <<>> => k.current = 0
    BY <1>2
  <2>3. ~force \/ ~(k.current >= 1)
    BY <1>3, <2>2
  <2> QED BY <1>1, <1>2, <2>1, <2>3 DEF Narrower
<1>4. CASE ~(k.queue = <<>> \/ (~force /\ g.accessed <= Inactive))
  <2>1. e \in k.tree
    <3>1. Len(k.queue) \in DOMAIN k.queue /\ e = k.queue[Len(k.queue)]
      BY <1>2, <1>4, InDomain, LenProperties, EmptySeq DEF Last
    <3> QED BY <1>2, <3>1, InDomain
  <2>2. e \in Cached
    BY <1>2, <2>1
  <2> HIDE DEF e
  <2>3. Sound(u, rd, l, e, 0) /\ u.file = k.file /\ u.tree = k.tree /\ u.current = k.current
    BY <2>1, UnqueuedSound
  <2>4. u \in Caches /\ g.event \in BOOLEAN /\ g.use_event \in BOOLEAN /\ g \in FileType
    BY <1>1, <2>2, <2>3, CacheParts DEF Sound, FileType
  <2> HIDE DEF u
  <2>5. /\ Sound(s, rd, l, 0, e) /\ s.file[e] = f /\ f \in FileType /\ f # NoFile
        /\ f.count = g.count /\ f.fd = g.fd
        /\ s.tree = k.tree \ {e} /\ s.current = k.current - 1
        /\ \A x \in Cached \ {e} : s.file[x] = k.file[x]
    <3>1. LET f2 == Leaving(u.file[e], g.event, g.use_event)
              s2 == LeftCache(u, e, g.event, g.use_event)
          IN  /\ Sound(s2, rd, l, 0, e) /\ s2.file[e] = f2 /\ f2 \in FileType /\ f2 # NoFile
              /\ f2.count = u.file[e].count /\ f2.fd = u.file[e].fd /\ f2.close /\ f2.uses >= 1
              /\ e \in u.tree /\ s2.tree = u.tree \ {e} /\ s2.current = u.current - 1 /\ s2.queue = u.queue
              /\ \A x \in Cached \ {e} : s2.file[x] = u.file[x]
      <4>1. Sound(u, rd, l, e, 0)
        BY <2>3
      <4> QED BY <2>2, <2>4, <4>1, LeaveSound
    <3>2. Leaving(u.file[e], g.event, g.use_event) = f /\ LeftCache(u, e, g.event, g.use_event) = s
      BY <2>3 DEF LeftCache
    <3> HIDE DEF f, s
    <3> QED BY <2>3, <3>1, <3>2
  <2>6. k1 \in Caches /\ k1.file = k.file
    <3> DEFINE t == u.tree \ {e} n == u.current - 1
    <3>1. t \in SUBSET Cached /\ n \in Int
      BY <1>2, <2>3
    <3>2. k1 = [u EXCEPT !.tree = t, !.current = n]
      BY <2>4 DEF Untreed, Caches
    <3> HIDE DEF t, n, k1
    <3> QED BY <2>3, <2>4, <3>1, <3>2 DEF Caches
  <2>7. CASE g.kind = "file"
    <3> HIDE DEF k1
    <3>1. [k1 EXCEPT !.file[e].close = TRUE] = s
      <4>1. [k1 EXCEPT !.file[e].close = TRUE]
              = WithFile(k1, e, Leaving(k1.file[e], k1.file[e].event, k1.file[e].use_event))
        BY <2>2, <2>6, Closing
      <4> QED BY <2>6, <4>1
    <3>2. c = CloseCached(s, e, 0)
      BY <1>4, <2>7, <3>1 DEF ExpireOne, e, u, k1
    <3> DEFINE z == CloseCached(s, e, 0)
    <3> HIDE DEF s
    <3>3. e \notin s.tree
      BY <2>5
    <3>4. Sound(z, rd, l, 0, 0) /\ z.tree = s.tree /\ z.current = s.current
          /\ \A x \in Cached \ {e} : z.file[x] = s.file[x]
      BY <2>2, <2>5, <3>3, CloseSound
    <3> HIDE DEF z
    <3>5. g # NoFile
      BY <2>1, <2>2, Allocates
    <3>6. z.current = k.current - 1 /\ z.tree = k.tree \ {e} /\ \A x \in Cached \ {e} : z.file[x] = k.file[x]
      BY <2>5, <3>4
    <3>7. z.current <= k.current
      BY <1>2, <3>6
    <3>8. Narrower(k, z)
      BY <1>2, <3>5, <3>6, <3>7 DEF Narrower
    <3> QED BY <3>2, <3>4, <3>6, <3>8 DEF z
  <2>8. CASE g.kind # "file"
    <3>1. g.fd = NoFd /\ g.count = 0
      <4>1. g.fd = NoFd /\ ~(g.count > 0)
        BY <1>1, <2>2, <2>8 DEF Data, Fitting
      <4>2. g.count \in Nat
        BY <2>4 DEF FileType
      <4> QED BY <4>1, <4>2
    <3>2. c = WithFile(k1, e, NoFile)
      BY <1>4, <2>8 DEF ExpireOne, e, u
    <3> HIDE DEF k1, c
    <3> DEFINE z == WithFile(s, e, NoFile)
    <3>3. c = z
      <4>1. NoFile \in FileType
        BY DEF NoFile, FileType
      <4> QED BY <2>2, <2>5, <2>6, <3>2, <4>1, Twice
    <3> HIDE DEF s
    <3>4. e \notin s.tree /\ s.file[e].fd = NoFd /\ s.file[e].count = 0
      BY <2>5, <3>1
    <3>5. Sound(z, rd, l, 0, 0)
      BY <2>2, <2>5, <3>4, FreeSound
    <3>6. s \in Caches
      BY <2>5 DEF Sound
    <3>7. /\ z \in Caches /\ z.file = [s.file EXCEPT ![e] = NoFile] /\ z.tree = s.tree /\ z.queue = s.queue
          /\ z.current = s.current /\ z.fds = s.fds /\ z.exited = s.exited
          /\ z.file[e] = NoFile /\ \A x \in Cached \ {e} : z.file[x] = s.file[x]
      BY <2>2, <3>6, FreedFields
    <3> HIDE DEF z
    <3>8. z.current = k.current - 1 /\ z.tree = k.tree \ {e} /\ \A x \in Cached \ {e} : z.file[x] = k.file[x]
      BY <2>5, <3>7
    <3>9. z.current <= k.current /\ z.file[e] = NoFile
      BY <1>2, <3>7, <3>8
    <3>10. Narrower(k, z)
      BY <1>2, <3>8, <3>9 DEF Narrower
    <3> QED BY <3>3, <3>5, <3>8, <3>10 DEF c, z
  <2> QED BY <2>7, <2>8
<1> QED BY <1>3, <1>4

LEMMA InactiveSound ==
  ASSUME NEW k, NEW rd, NEW l, Sound(k, rd, l, 0, 0)
  PROVE  Sound(ExpireInactive(k), rd, l, 0, 0) /\ Narrower(k, ExpireInactive(k))
<1> DEFINE a == ExpireOne(k, FALSE) b == ExpireOne(a, FALSE)
<1>1. Sound(a, rd, l, 0, 0) /\ Narrower(k, a)
  BY ExpireSound
<1> HIDE DEF a
<1>2. Sound(b, rd, l, 0, 0) /\ Narrower(a, b)
  BY <1>1, ExpireSound
<1> HIDE DEF b
<1>3. k \in Caches /\ a \in Caches /\ b \in Caches
  BY <1>1, <1>2 DEF Sound
<1>4. Narrower(k, b)
  BY <1>1, <1>2, <1>3, NarrowerTrans
<1> QED BY <1>2, <1>4 DEF ExpireInactive, a, b

LEMMA ForcedSound ==
  ASSUME NEW k, NEW rd, NEW l, Sound(k, rd, l, 0, 0), k.current >= 1
  PROVE  /\ Sound(ExpireForced(k), rd, l, 0, 0) /\ Narrower(k, ExpireForced(k))
         /\ ExpireForced(k).current <= k.current - 1
<1> DEFINE a == ExpireOne(k, TRUE) b == ExpireInactive(a)
<1>1. Sound(a, rd, l, 0, 0) /\ Narrower(k, a) /\ a.current = k.current - 1
  BY ExpireSound
<1> HIDE DEF a
<1>2. Sound(b, rd, l, 0, 0) /\ Narrower(a, b)
  BY <1>1, InactiveSound
<1> HIDE DEF b
<1>3. k \in Caches /\ a \in Caches /\ b \in Caches
  BY <1>1, <1>2 DEF Sound
<1>4. Narrower(k, b) /\ b.current <= a.current
  BY <1>1, <1>2, <1>3, NarrowerTrans DEF Narrower
<1> QED BY <1>1, <1>2, <1>4 DEF ExpireForced, a, b

-----------------------------------------------------------------------------
(* Descriptors that are opened *)

\* There is a descriptor left, since each open one has an entry of its own.
LEMMA SpareDesc ==
  ASSUME NEW k, NEW rd, NEW away, NEW odd, Sound(k, rd, Unopened, away, odd)
  PROVE  \E d \in FileDescs : k.fds[d] = 0
<1> SUFFICES ASSUME \A d \in FileDescs : k.fds[d] # 0 PROVE FALSE
  OBVIOUS
<1>1. \A d \in FileDescs : \E e \in Cached : k.file[e].fd = d
  <2>1. Data(k.file, k.fds, rd, Unopened) /\ Unopened.fd = NoFd /\ NoFd \notin FileDescs
    BY Constants DEF Sound, Unopened
  <2> QED BY <2>1 DEF Data
<1> DEFINE f == [d \in FileDescs |-> CHOOSE e \in Cached : k.file[e].fd = d]
<1>2. \A d \in FileDescs : f[d] \in Cached /\ k.file[f[d]].fd = d
  BY <1>1
<1>3. f \in [FileDescs -> Cached]
  BY <1>2
<1>4. IsFiniteSet(Cached) /\ IsFiniteSet(FileDescs) /\ Cardinality(Cached) < Cardinality(FileDescs)
  <2> DEFINE n == Cardinality(Cached)
  <2>1. n \in Nat /\ IsFiniteSet(Cached) /\ FileDescs = 1..(n + 1)
    BY Constants
  <2> HIDE DEF n
  <2>2. IsFiniteSet(1..(n + 1)) /\ Cardinality(1..(n + 1)) = n + 1
    BY <2>1, FS_Interval
  <2>3. n < n + 1
    BY <2>1
  <2> QED BY <2>1, <2>2, <2>3 DEF n
<1> HIDE DEF f
<1>5. \E c, d \in FileDescs : c # d /\ f[c] = f[d]
  BY <1>3, <1>4, FS_PigeonHole
<1> QED BY <1>2, <1>5

\* A descriptor is opened for a file.
LEMMA OpenedSound ==
  ASSUME NEW k, NEW rd, NEW away, NEW odd, Sound(k, rd, Unopened, away, odd),
         NEW d \in FileDescs, k.fds[d] = 0, NEW u \in Uniqs
  PROVE  LET k2 == [k EXCEPT !.fds[d] = u] IN
         /\ Sound(k2, rd, [fd |-> d, uniq |-> u], away, odd) /\ k2.file = k.file /\ k2.tree = k.tree
         /\ k2.current = k.current
<1> DEFINE fds2 == [k.fds EXCEPT ![d] = u]
           k2 == [k EXCEPT !.fds[d] = u]
           l == [fd |-> d, uniq |-> u]
<1>1. k \in Caches /\ rd \in Reads /\ ~k.exited /\ Data(k.file, k.fds, rd, Unopened)
      /\ Books(k.file, k.tree, k.queue, k.current, away, odd)
  BY DEF Sound
<1>2. k.fds \in Descs /\ k.file \in Files /\ u # 0 /\ 0 \notin Uniqs
  BY <1>1, CacheParts, Constants
<1>3. fds2 \in Descs /\ \A c \in FileDescs : fds2[c] = IF c = d THEN u ELSE k.fds[c]
  BY <1>2 DEF Descs
<1>4. k2 = [k EXCEPT !.fds = fds2]
  BY <1>1 DEF Caches
<1> HIDE DEF fds2, k2
<1>5. k2 \in Caches /\ k2.file = k.file /\ k2.tree = k.tree /\ k2.queue = k.queue /\ k2.current = k.current
      /\ k2.fds = fds2 /\ k2.exited = k.exited
  BY <1>1, <1>3, <1>4 DEF Caches
<1>6. Data(k.file, fds2, rd, l)
  <2>1. l.fd = d /\ l.uniq = u /\ Unopened.fd = NoFd /\ d # NoFd
    BY Constants DEF Unopened
  <2> HIDE DEF l
  <2>2. \A e \in Cached : k.file[e].fd # NoFd => k.file[e].fd \in FileDescs /\ k.file[e].fd # d
    <3> SUFFICES ASSUME NEW e \in Cached, k.file[e].fd # NoFd
                 PROVE  k.file[e].fd \in FileDescs /\ k.file[e].fd # d
      OBVIOUS
    <3>1. k.file[e].fd \in FileDescs
      BY <1>2 DEF Files, FileType
    <3>2. k.fds[k.file[e].fd] # 0
      BY <1>1, <1>2 DEF Data, Fitting
    <3> QED BY <3>1, <3>2
  <2>3. \A e \in Cached : Fitting(k.file[e], fds2, l)
    BY <1>1, <1>3, <2>1, <2>2 DEF Data, Fitting
  <2>4. \A c \in FileDescs : fds2[c] # 0 => c = l.fd \/ \E e \in Cached : k.file[e].fd = c
    BY <1>1, <1>3, <2>1, Constants DEF Data
  <2> QED BY <1>1, <1>3, <2>1, <2>3, <2>4 DEF Data
<1>7. Sound(k2, rd, l, away, odd)
  BY <1>1, <1>5, <1>6 DEF Sound
<1> QED BY <1>5, <1>7 DEF k2, l

\* It is closed again before it has an entry.
LEMMA UnopenedSound ==
  ASSUME NEW k, NEW rd, NEW l, NEW away, NEW odd, Sound(k, rd, l, away, odd)
  PROVE  Sound(FdClosed(k, l.fd), rd, Unopened, away, odd)
<1>1. k \in Caches /\ rd \in Reads /\ ~k.exited /\ Data(k.file, k.fds, rd, l)
      /\ Books(k.file, k.tree, k.queue, k.current, away, odd)
  BY DEF Sound
<1>2. k.fds \in Descs /\ k.file \in Files /\ l.fd \in FileDescs \cup {NoFd} /\ NoFd \notin FileDescs
      /\ Unopened.fd = NoFd
  BY <1>1, CacheParts, Constants DEF Data, Unopened
<1>3. CASE l.fd = NoFd
  <2>1. FdClosed(k, l.fd) = k
    BY <1>3 DEF FdClosed
  <2>2. Data(k.file, k.fds, rd, Unopened)
    BY <1>1, <1>2, <1>3 DEF Data, Fitting
  <2> QED BY <1>1, <2>1, <2>2 DEF Sound
<1>4. CASE l.fd # NoFd
  <2> DEFINE d == l.fd fds2 == [k.fds EXCEPT ![d] = 0] k2 == FdClosed(k, d)
  <2>1. fds2 \in Descs /\ \A c \in FileDescs : fds2[c] = IF c = d THEN 0 ELSE k.fds[c]
    BY <1>2 DEF Descs
  <2>2. k2 = [k EXCEPT !.fds = fds2]
    BY <1>1, <1>4 DEF FdClosed, Caches
  <2> HIDE DEF fds2, k2
  <2>3. k2 \in Caches /\ k2.file = k.file /\ k2.tree = k.tree /\ k2.queue = k.queue /\ k2.current = k.current
        /\ k2.fds = fds2 /\ k2.exited = k.exited
    BY <1>1, <2>1, <2>2 DEF Caches
  <2>4. \A e \in Cached : k.file[e].fd # NoFd => k.file[e].fd \in FileDescs /\ k.file[e].fd # d
    BY <1>1, <1>2 DEF Files, FileType, Data, Fitting
  <2>5. \A e \in Cached : Fitting(k.file[e], fds2, Unopened)
    BY <1>1, <1>2, <2>1, <2>4 DEF Data, Fitting
  <2>6. \A c \in FileDescs : fds2[c] # 0 => c = Unopened.fd \/ \E e \in Cached : k.file[e].fd = c
    BY <1>1, <2>1 DEF Data
  <2>7. Data(k.file, fds2, rd, Unopened)
    BY <1>1, <1>2, <2>5, <2>6 DEF Data
  <2>8. Sound(k2, rd, Unopened, away, odd)
    BY <1>1, <2>3, <2>7 DEF Sound
  <2> QED BY <2>8 DEF k2
<1> QED BY <1>3, <1>4

\* What ngx_open_and_stat_file() may say: nothing was opened, or what was open is the same file, or
\* another descriptor is open.
Missing(o, k) == o.kind \in {"err", "dir", "failed"} /\ o.fd = NoFd /\ o.uniq = 0 /\ o.k = k
Same(o, k, fd, uniq) == o.kind = "file" /\ fd # NoFd /\ o.fd = fd /\ o.uniq = uniq /\ o.k = k
Fresh(o, k, rd, away) ==
  /\ o.kind = "file" /\ o.uniq \in Uniqs /\ o.fd \in FileDescs
  /\ Sound(o.k, rd, [fd |-> o.fd, uniq |-> o.uniq], away, 0)
  /\ o.k.file = k.file /\ o.k.tree = k.tree /\ o.k.current = k.current

LEMMA StatSound ==
  ASSUME NEW k, NEW rd, NEW away, Sound(k, rd, Unopened, away, 0), NEW is, is.kind \in {"none", "file", "dir"},
         is.kind = "file" => is.uniq \in Uniqs, NEW fd, NEW uniq, NEW o \in OpenAndStat(k, is, fd, uniq)
  PROVE  \/ Missing(o, k) \/ Same(o, k, fd, uniq)
         \/ Fresh(o, k, rd, away) /\ (fd # NoFd => o.uniq # uniq)
<1> DEFINE new == CHOOSE d \in FileDescs : k.fds[d] = 0
           k2 == [k EXCEPT !.fds[new] = is.uniq]
<1>1. \/ o = [kind |-> "failed", uniq |-> 0, fd |-> NoFd, k |-> k]
      \/ o = [kind |-> "err", uniq |-> 0, fd |-> NoFd, k |-> k]
      \/ o = [kind |-> "dir", uniq |-> 0, fd |-> NoFd, k |-> k]
      \/ fd # NoFd /\ o = [kind |-> "file", uniq |-> uniq, fd |-> fd, k |-> k]
      \/ is.kind = "file" /\ ~(fd # NoFd /\ uniq = is.uniq) /\ o = [kind |-> "file", uniq |-> is.uniq, fd |-> new, k |-> k2]
  BY DEF OpenAndStat
<1>2. CASE \/ o = [kind |-> "failed", uniq |-> 0, fd |-> NoFd, k |-> k]
           \/ o = [kind |-> "err", uniq |-> 0, fd |-> NoFd, k |-> k]
           \/ o = [kind |-> "dir", uniq |-> 0, fd |-> NoFd, k |-> k]
  BY <1>2 DEF Missing
<1>3. CASE fd # NoFd /\ o = [kind |-> "file", uniq |-> uniq, fd |-> fd, k |-> k]
  BY <1>3 DEF Same
<1>4. CASE is.kind = "file" /\ ~(fd # NoFd /\ uniq = is.uniq)
           /\ o = [kind |-> "file", uniq |-> is.uniq, fd |-> new, k |-> k2]
  <2>1. new \in FileDescs /\ k.fds[new] = 0
    BY SpareDesc
  <2>2. is.uniq \in Uniqs
    BY <1>4
  <2> HIDE DEF new
  <2>3. Sound(k2, rd, [fd |-> new, uniq |-> is.uniq], away, 0) /\ k2.file = k.file /\ k2.tree = k.tree
        /\ k2.current = k.current
    BY <2>1, <2>2, OpenedSound
  <2> HIDE DEF k2
  <2>4. o.kind = "file" /\ o.uniq = is.uniq /\ o.fd = new /\ o.k = k2
    BY <1>4
  <2> QED BY <1>4, <2>1, <2>2, <2>3, <2>4 DEF Fresh
<1> QED BY <1>1, <1>2, <1>3, <1>4

-----------------------------------------------------------------------------
(* Entries that are filled, used and lost *)

\* What was opened suits the entry that waits for it, away from the queue.
Due(k, rd, e, o, l) ==
  /\ Sound(k, rd, l, e, 0) /\ o.kind \in {"file", "dir", "err"} /\ o.uniq \in Uniqs \cup {0}
  /\ \/ o.kind = "file" /\ l.fd # NoFd /\ o.fd = l.fd /\ o.uniq = l.uniq /\ k.file[e].fd = NoFd
     \/ o.kind = "file" /\ l.fd = NoFd /\ o.fd # NoFd /\ o.fd = k.file[e].fd /\ o.uniq = k.file[e].uniq
     \/ o.kind # "file" /\ l.fd = NoFd /\ o.fd = NoFd /\ k.file[e].fd = NoFd

LEMMA DueAway ==
  ASSUME NEW k, NEW rd, NEW e \in Cached, NEW o, NEW l, Due(k, rd, e, o, l)
  PROVE  e \in k.tree /\ k.file[e] # NoFile /\ k \in Caches
<1>1. Books(k.file, k.tree, k.queue, k.current, e, 0) /\ k \in Caches
  BY DEF Due, Sound
<1>2. e \in k.tree
  BY <1>1, Constants DEF Books
<1>3. k.file[e] # NoFile
  BY <1>2, Allocates DEF Due
<1> QED BY <1>1, <1>2, <1>3

LEMMA DueEvent ==
  ASSUME NEW k, NEW rd, NEW e \in Cached, NEW o, NEW l, Due(k, rd, e, o, l), NEW fd
  PROVE  Due(AddEvent(k, e, fd), rd, e, o, l)
<1> DEFINE m == Marked(k, e, TRUE, FALSE)
<1>1. k \in Caches /\ k.file[e] # NoFile
  BY DueAway
<1>2. AddEvent(k, e, fd) = k \/ AddEvent(k, e, fd) = m
  BY <1>1, Marks
<1>3. m.file[e].fd = k.file[e].fd /\ m.file[e].uniq = k.file[e].uniq
  BY <1>1, MarkedFields
<1>4. Sound(m, rd, l, e, 0)
  BY <1>1, MarkedSound DEF Due
<1> HIDE DEF m
<1>5. Due(m, rd, e, o, l)
  BY <1>3, <1>4 DEF Due
<1> QED BY <1>2, <1>5

\* The request that opened a file has its entry.
Taken(rd, r, e, o) == [rd EXCEPT ![r] = IF o.kind = "file" THEN [entry |-> e, uniq |-> o.uniq] ELSE Nobody]

\* The file that an entry becomes.
Filled(f, o) ==
  [f EXCEPT !.fd = o.fd, !.kind = o.kind, !.uniq = o.uniq,
            !.count = IF o.kind = "file" THEN f.count + 1 ELSE f.count,
            !.created = 0, !.accessed = 0, !.close = FALSE]

LEMMA FilledFields ==
  ASSUME NEW f \in FileType, NEW o, o.kind \in {"file", "dir", "err"}, o.uniq \in Uniqs \cup {0},
         o.fd \in FileDescs \cup {NoFd}
  PROVE  LET g == Filled(f, o) IN
         /\ g \in FileType /\ g.fd = o.fd /\ g.kind = o.kind /\ g.uniq = o.uniq /\ ~g.close
         /\ g.uses = f.uses /\ g.name = f.name
         /\ g.count = IF o.kind = "file" THEN f.count + 1 ELSE f.count
<1> DEFINE n == IF o.kind = "file" THEN f.count + 1 ELSE f.count
           h == [f EXCEPT !.fd = o.fd, !.kind = o.kind, !.uniq = o.uniq, !.count = n]
           g == [h EXCEPT !.created = 0, !.accessed = 0, !.close = FALSE]
<1>1. f.count \in Nat
  BY DEF FileType
<1>2. n \in Nat
  BY <1>1
<1> HIDE DEF n
<1>3. h \in FileType /\ h.fd = o.fd /\ h.kind = o.kind /\ h.uniq = o.uniq /\ h.uses = f.uses /\ h.name = f.name
      /\ h.count = n
  BY <1>2 DEF FileType
<1>4. Filled(f, o) = g
  BY DEF Filled, n
<1> HIDE DEF h
<1>5. g \in FileType /\ g.fd = h.fd /\ g.kind = h.kind /\ g.uniq = h.uniq /\ g.uses = h.uses /\ g.name = h.name
      /\ g.count = h.count /\ ~g.close
  BY <1>3 DEF FileType
<1> HIDE DEF g
<1> QED BY <1>3, <1>4, <1>5 DEF n

LEMMA DataFilled ==
  ASSUME NEW k, NEW rd, NEW e \in Cached, NEW o, NEW l, Due(k, rd, e, o, l), NEW r \in Readers, rd[r] = Nobody
  PROVE  LET f == Filled(k.file[e], o) rd2 == Taken(rd, r, e, o) IN
         /\ rd2 \in Reads /\ f \in FileType /\ o.fd \in FileDescs \cup {NoFd}
         /\ Data([k.file EXCEPT ![e] = f], k.fds, rd2, Unopened)
<1> DEFINE f == Filled(k.file[e], o) rd2 == Taken(rd, r, e, o) g == k.file[e]
<1>1. k \in Caches /\ rd \in Reads /\ Data(k.file, k.fds, rd, l) /\ k.file[e] # NoFile
  BY DueAway DEF Due, Sound
<1>2. k.file \in Files /\ k.fds \in Descs /\ g \in FileType /\ NoFd \notin FileDescs /\ 0 \notin Cached /\ 0 \notin Uniqs
      /\ l.fd \in FileDescs \cup {NoFd} /\ g.fd \in FileDescs \cup {NoFd}
  BY <1>1, CacheParts, Constants DEF Data, FileType
<1>3. o.fd \in FileDescs \cup {NoFd} /\ o.kind \in {"file", "dir", "err"} /\ o.uniq \in Uniqs \cup {0}
  BY <1>2 DEF Due
<1>4. /\ f \in FileType /\ f.fd = o.fd /\ f.kind = o.kind /\ f.uniq = o.uniq /\ ~f.close
      /\ f.uses = g.uses /\ f.name = g.name
      /\ f.count = IF o.kind = "file" THEN g.count + 1 ELSE g.count
  BY <1>2, <1>3, FilledFields
<1>5. g.uses >= 1 /\ g.count \in Nat /\ g.count = Cardinality(HavingIn(rd, e)) /\ Fitting(g, k.fds, l)
  <2>1. g.uses >= 1
    BY <1>1, Allocates DEF Due
  <2>2. g.count \in Nat
    BY <1>2 DEF FileType
  <2> QED BY <1>1, <2>1, <2>2 DEF Data
<1> HIDE DEF f
<1>6. \A x \in Cached \ {e} : k.file[x].fd # NoFd =>
        k.fds[k.file[x].fd] = k.fds[k.file[x].fd] /\ k.file[x].fd # Unopened.fd /\ k.file[x].fd # f.fd
  <2> SUFFICES ASSUME NEW x \in Cached \ {e}, k.file[x].fd # NoFd
               PROVE  k.file[x].fd # f.fd
    BY DEF Unopened
  <2>1. k.file[x].fd # l.fd /\ k.file[x].fd # g.fd
    BY <1>1 DEF Data, Fitting
  <2> QED BY <1>4, <2>1 DEF Due
<1>7. \A d \in FileDescs : k.fds[d] # 0 => d = Unopened.fd \/ d = f.fd \/ \E x \in Cached \ {e} : k.file[x].fd = d
  <2> SUFFICES ASSUME NEW d \in FileDescs, k.fds[d] # 0
               PROVE  d = f.fd \/ \E x \in Cached \ {e} : k.file[x].fd = d
    OBVIOUS
  <2>1. d = l.fd \/ \E x \in Cached : k.file[x].fd = d
    BY <1>1 DEF Data
  <2>2. d # NoFd
    BY <1>2
  <2> QED BY <1>4, <2>1, <2>2 DEF Due
<1>8. Unopened.fd \in FileDescs \cup {NoFd} /\ Unopened.fd = NoFd
  BY DEF Unopened
<1>9. CASE o.kind = "file"
  <2> DEFINE u == o.uniq
  <2>1. u \in Uniqs /\ k.fds[o.fd] = u /\ o.fd # NoFd
    BY <1>1, <1>5, <1>9 DEF Due, Data, Fitting
  <2>2. rd2 = [rd EXCEPT ![r] = [entry |-> e, uniq |-> u]]
    BY <1>9 DEF Taken
  <2> HIDE DEF rd2, u
  <2>3. /\ rd2 \in Reads
        /\ Cardinality(HavingIn(rd2, e)) = Cardinality(HavingIn(rd, e)) + 1
        /\ Cardinality(HavingIn(rd, e)) \in Nat
        /\ \A x \in Cached \ {e} : HavingIn(rd2, x) = HavingIn(rd, x)
    <3>1. rd \in Reads /\ rd2 \in Reads
      BY <1>1, <2>1, <2>2 DEF Reads
    <3>2. \A s \in Readers : rd2[s].entry = IF s = r THEN e ELSE rd[s].entry
      BY <2>2, <3>1 DEF Reads
    <3> QED BY <3>1, <3>2, HavingMore
  <2>4. f.count = Cardinality(HavingIn(rd2, e))
    BY <1>4, <1>5, <1>9, <2>3
  <2>5. Fitting(f, k.fds, Unopened)
    BY <1>4, <1>5, <1>8, <1>9, <2>1 DEF Fitting, u
  <2>6. \A s \in Readers : rd2[s] = IF s = r THEN [entry |-> e, uniq |-> u] ELSE rd[s]
    BY <1>1, <2>2 DEF Reads
  <2>7. \A s \in Readers : rd[s].entry = e => rd[s] = Nobody \/ rd[s].uniq = f.uniq
    <3> SUFFICES ASSUME NEW s \in Readers, rd[s].entry = e, rd[s] # Nobody
                 PROVE  rd[s].uniq = f.uniq
      OBVIOUS
    <3>1. rd[s].uniq = g.uniq
      BY <1>1 DEF Data
    <3>2. s \in HavingIn(rd, e)
      BY DEF HavingIn
    <3>3. g.count > 0
      BY <1>1, <1>5, HavingNone
    <3>4. g.fd # NoFd
      BY <1>5, <3>3 DEF Fitting
    <3> QED BY <1>4, <1>9, <3>1, <3>4 DEF Due
  <2>8. \A s \in Readers : \/ rd2[s] = Nobody
                           \/ rd2[s].entry = e /\ rd2[s].uniq = f.uniq
                           \/ rd2[s] = rd[s] /\ rd[s].entry # e
    BY <1>4, <2>6, <2>7 DEF u
  <2>9. Data([k.file EXCEPT ![e] = f], k.fds, rd2, Unopened)
    BY <1>1, <1>2, <1>4, <1>6, <1>7, <1>8, <2>3, <2>4, <2>5, <2>8, DataStep
  <2> QED BY <1>3, <1>4, <2>3, <2>9 DEF rd2, f
<1>10. CASE o.kind # "file"
  <2>1. rd2 = rd
    BY <1>1, <1>10 DEF Taken, Reads
  <2>2. o.fd = NoFd /\ g.fd = NoFd
    BY <1>10 DEF Due
  <2>3. g.count = 0
    BY <1>5, <2>2 DEF Fitting
  <2>4. \A s \in Readers : rd[s].entry # e
    BY <1>1, <1>5, <2>3, HavingNone
  <2>5. f.count = Cardinality(HavingIn(rd, e))
    BY <1>4, <1>5, <1>10
  <2>6. Fitting(f, k.fds, Unopened)
    BY <1>4, <1>5, <1>10, <2>2, <2>3 DEF Fitting
  <2>7. \A s \in Readers : \/ rd[s] = Nobody
                           \/ rd[s].entry = e /\ rd[s].uniq = f.uniq
                           \/ rd[s] = rd[s] /\ rd[s].entry # e
    BY <2>4
  <2>8. Data([k.file EXCEPT ![e] = f], k.fds, rd, Unopened)
    BY <1>1, <1>2, <1>4, <1>6, <1>7, <1>8, <2>5, <2>6, <2>7, DataStep
  <2> QED BY <1>1, <1>3, <1>4, <2>1, <2>8 DEF f
<1> QED BY <1>9, <1>10

\* labels `update' and `found'
LEMMA RefreshSound ==
  ASSUME NEW k, NEW rd, NEW e \in Cached, NEW o, NEW l, Due(k, rd, e, o, l), NEW r \in Readers, rd[r] = Nobody
  PROVE  LET c == Refreshed(k, e, o) IN
         /\ Sound(c, Taken(rd, r, e, o), Unopened, 0, 0)
         /\ c.file[e].kind = o.kind /\ c.file[e].uniq = o.uniq
<1> DEFINE c == Refreshed(k, e, o)
           f == Filled(k.file[e], o)
           w == WithFile(k, e, f)
           rd2 == Taken(rd, r, e, o)
<1>1. rd2 \in Reads /\ f \in FileType /\ o.fd \in FileDescs \cup {NoFd}
      /\ Data([k.file EXCEPT ![e] = f], k.fds, rd2, Unopened)
  BY DataFilled
<1>2. k \in Caches /\ ~k.exited /\ Books(k.file, k.tree, k.queue, k.current, e, 0)
  BY DEF Due, Sound
<1>3. k.file \in Files /\ k.tree \in SUBSET Cached /\ k.file[e] \in FileType /\ e \in k.tree /\ k.file[e].uses >= 1
      /\ 0 \notin Cached
  BY <1>2, CacheParts, DueAway, Allocates, Constants DEF Due
<1>4. f.fd = o.fd /\ f.kind = o.kind /\ f.uniq = o.uniq /\ ~f.close /\ f.uses = k.file[e].uses /\ f.name = k.file[e].name
  BY <1>1, <1>3, FilledFields DEF Due
<1> HIDE DEF f, rd2
<1>5. /\ w \in Caches /\ w.file = [k.file EXCEPT ![e] = f] /\ w.tree = k.tree /\ w.queue = k.queue
      /\ w.current = k.current /\ w.fds = k.fds /\ w.exited = k.exited
      /\ w.file[e] = f /\ \A x \in Cached \ {e} : w.file[x] = k.file[x]
  BY <1>1, <1>2, WithFileFields
<1>6. Books([k.file EXCEPT ![e] = f], k.tree, k.queue, k.current, e, 0)
  <2>1. 0 \notin k.tree
    BY <1>3
  <2> QED BY <1>1, <1>2, <1>3, <1>4, <2>1, BooksStep
<1> HIDE DEF w
<1>7. Sound(w, rd2, Unopened, e, 0)
  BY <1>1, <1>2, <1>5, <1>6 DEF Sound
<1>8. c = QueuedFirst(w, e)
  BY DEF Refreshed, Filled, w, f
<1> HIDE DEF c
<1>9. Sound(c, rd2, Unopened, 0, 0) /\ c.file = w.file
  BY <1>7, <1>8, QueuedSound
<1> QED BY <1>4, <1>5, <1>9 DEF c, rd2

\* label `failed'
LEMMA FailedSound ==
  ASSUME NEW k, NEW rd, NEW e \in Cached, Sound(k, rd, Unopened, e, 0)
  PROVE  Sound(FailedEntry(k, e), rd, Unopened, 0, 0)
<1> DEFINE u == Untreed(k, e) d == k.file[e].fd g == k.file[e]
           fds2 == IF d = NoFd THEN k.fds ELSE [k.fds EXCEPT ![d] = 0]
<1>1. k \in Caches /\ rd \in Reads /\ ~k.exited /\ Data(k.file, k.fds, rd, Unopened)
      /\ Books(k.file, k.tree, k.queue, k.current, e, 0)
  BY DEF Sound
<1>2. k.file \in Files /\ k.tree \in SUBSET Cached /\ k.fds \in Descs /\ k.queue \in Seq(Cached) /\ k.current \in Int
      /\ g \in FileType /\ 0 \notin Cached /\ e \in k.tree
  BY <1>1, CacheParts, Constants DEF Books
<1>3. u \in Caches /\ u.file = k.file /\ u.tree = k.tree \ {e} /\ u.queue = k.queue /\ u.current = k.current - 1
      /\ u.fds = k.fds /\ u.exited = k.exited
  <2> DEFINE t == k.tree \ {e} n == k.current - 1
  <2>1. t \in SUBSET Cached /\ n \in Int
    BY <1>2
  <2>2. u = [k EXCEPT !.tree = t, !.current = n]
    BY <1>1 DEF Untreed, Caches
  <2> HIDE DEF t, n, u
  <2>3. u \in Caches /\ u.file = k.file /\ u.tree = t /\ u.queue = k.queue /\ u.current = n
        /\ u.fds = k.fds /\ u.exited = k.exited
    BY <1>1, <2>1, <2>2 DEF Caches
  <2> QED BY <2>3 DEF t, n
<1>4. NoFile \in FileType /\ NoFile.fd = NoFd /\ NoFile.count = 0
  BY Allocates
<1>5. g.count \in Nat
  BY <1>2 DEF FileType
<1>6. CASE g.count = 0
  <2> DEFINE m == FdClosed(u, d) z == WithFile(m, e, NoFile)
  <2>1. FailedEntry(k, e) = z
    BY <1>6 DEF FailedEntry
  <2>2. fds2 \in Descs /\ Data([k.file EXCEPT ![e] = NoFile], fds2, rd, Unopened)
    BY <1>1, <1>2, <1>4, <1>6, DataShut
  <2>3. m \in Caches /\ m.file = k.file /\ m.tree = k.tree \ {e} /\ m.queue = k.queue /\ m.current = k.current - 1
        /\ m.fds = fds2 /\ m.exited = k.exited
    <3>1. CASE d = NoFd
      BY <1>3, <3>1 DEF FdClosed
    <3>2. CASE d # NoFd
      <4>1. m = [u EXCEPT !.fds = fds2]
        BY <1>3, <3>2 DEF FdClosed, Caches
      <4> HIDE DEF m, fds2, u
      <4> QED BY <1>3, <2>2, <4>1 DEF Caches
    <3> QED BY <3>1, <3>2
  <2> HIDE DEF m, fds2
  <2>4. /\ z \in Caches /\ z.file = [m.file EXCEPT ![e] = NoFile] /\ z.tree = m.tree /\ z.queue = m.queue
        /\ z.current = m.current /\ z.fds = m.fds /\ z.exited = m.exited
        /\ z.file[e] = NoFile /\ \A x \in Cached \ {e} : z.file[x] = m.file[x]
    BY <2>3, FreedFields
  <2> HIDE DEF z
  <2>5. Books([k.file EXCEPT ![e] = NoFile], k.tree \ {e}, k.queue, k.current - 1, 0, e)
    BY <1>1, <1>2, <1>4, BooksLeave
  <2>6. Sound(z, rd, Unopened, 0, e)
    BY <1>1, <2>2, <2>3, <2>4, <2>5 DEF Sound
  <2>7. Sound(z, rd, Unopened, 0, 0)
    BY <2>4, <2>6, UsedSound
  <2> QED BY <2>1, <2>7 DEF z
<1>7. CASE g.count # 0
  <2> DEFINE s == LeftCache(k, e, g.event, g.use_event)
  <2>1. FailedEntry(k, e) = [u EXCEPT !.file[e].close = TRUE]
    BY <1>7 DEF FailedEntry
  <2>2. [u EXCEPT !.file[e].close = TRUE] = WithFile(u, e, Leaving(u.file[e], u.file[e].event, u.file[e].use_event))
    BY <1>3, Closing
  <2>3. FailedEntry(k, e) = s
    <3> HIDE DEF u
    <3> QED BY <1>3, <2>1, <2>2 DEF LeftCache, u
  <2>4. g.event \in BOOLEAN /\ g.use_event \in BOOLEAN
    BY <1>2 DEF FileType
  <2>5. LET f2 == Leaving(k.file[e], g.event, g.use_event)
            s2 == LeftCache(k, e, g.event, g.use_event)
        IN  /\ Sound(s2, rd, Unopened, 0, e) /\ s2.file[e] = f2 /\ f2 \in FileType /\ f2 # NoFile
            /\ f2.count = k.file[e].count /\ f2.fd = k.file[e].fd /\ f2.close /\ f2.uses >= 1
            /\ e \in k.tree /\ s2.tree = k.tree \ {e} /\ s2.current = k.current - 1 /\ s2.queue = k.queue
            /\ \A x \in Cached \ {e} : s2.file[x] = k.file[x]
    BY <2>4, LeaveSound
  <2> HIDE DEF s
  <2>6. Sound(s, rd, Unopened, 0, e) /\ s.file[e].count > 0
    BY <1>5, <1>7, <2>5 DEF s
  <2>7. Sound(s, rd, Unopened, 0, 0)
    BY <2>6, UsedSound
  <2> QED BY <2>3, <2>7
<1> QED BY <1>6, <1>7

-----------------------------------------------------------------------------
(* Entries that are looked up and created *)

\* An entry that is looked up leaves the queue for a while.
LEMMA UsedAgainSound ==
  ASSUME Sound(ofc, reading, Unopened, 0, 0), fileConf \in FileConfs, NEW e \in ofc.tree
  PROVE  LET u == UsedAgain(e) IN
         /\ Sound(u, reading, Unopened, e, 0) /\ u.tree = ofc.tree /\ u.current = ofc.current
         /\ u.file[e].fd = ofc.file[e].fd /\ u.file[e].uniq = ofc.file[e].uniq /\ u.file[e].kind = ofc.file[e].kind
         /\ u.file[e].count = ofc.file[e].count /\ u.file[e].event = ofc.file[e].event
         /\ u.file[e].name = ofc.file[e].name /\ \A x \in Cached \ {e} : u.file[x] = ofc.file[x]
<1> DEFINE q == Unqueued(ofc, e)
           n == IF ofc.file[e].uses < fileConf.min_uses THEN ofc.file[e].uses + 1 ELSE ofc.file[e].uses
           f == [ofc.file[e] EXCEPT !.uses = n]
           u == WithFile(q, e, f)
<1>1. Sound(q, reading, Unopened, e, 0) /\ q.file = ofc.file /\ q.tree = ofc.tree /\ q.current = ofc.current
  BY UnqueuedSound
<1>2. q \in Caches /\ e \in Cached
  <2> HIDE DEF q
  <2>1. ofc \in Caches /\ q \in Caches
    BY <1>1 DEF Sound
  <2> QED BY <2>1, CacheParts
<1>3. ofc.file[e] \in FileType /\ ofc.file[e] # NoFile /\ ofc.file[e].uses >= 1
  BY <1>2, Allocates
<1>4. n \in Nat /\ n >= 1
  <2>1. ofc.file[e].uses \in Nat /\ fileConf.min_uses \in Nat
    BY <1>3, OpenFileAssumption DEF FileType
  <2> QED BY <1>3, <2>1
<1>5. UsedAgain(e) = u
  <2>1. q.file[e].uses = ofc.file[e].uses
    BY <1>1
  <2> DEFINE y == [q.file EXCEPT ![e] = f]
  <2>2. [q.file EXCEPT ![e].uses = IF @ < fileConf.min_uses THEN @ + 1 ELSE @] = y
    BY <1>1
  <2>3. u = [q EXCEPT !.file = y]
    BY <1>2 DEF WithFile, Caches
  <2>4. UsedAgain(e) = [q EXCEPT !.file[e].uses = IF @ < fileConf.min_uses THEN @ + 1 ELSE @]
    BY DEF UsedAgain
  <2> HIDE DEF y, u, q, n, f
  <2> QED BY <2>2, <2>3, <2>4
<1> HIDE DEF n, q
<1>6. f \in FileType /\ f.uses = n /\ f.name = ofc.file[e].name /\ f.kind = ofc.file[e].kind
      /\ f.fd = ofc.file[e].fd /\ f.uniq = ofc.file[e].uniq /\ f.count = ofc.file[e].count
      /\ f.close = ofc.file[e].close /\ f.event = ofc.file[e].event
  BY <1>3, <1>4 DEF FileType
<1> HIDE DEF f
<1>7. Sound(u, reading, Unopened, e, 0)
  BY <1>1, <1>2, <1>3, <1>4, <1>6, QuietFile
<1>8. /\ u \in Caches /\ u.file = [q.file EXCEPT ![e] = f] /\ u.tree = q.tree /\ u.queue = q.queue
      /\ u.current = q.current /\ u.fds = q.fds /\ u.exited = q.exited
      /\ u.file[e] = f /\ \A x \in Cached \ {e} : u.file[x] = q.file[x]
  BY <1>2, <1>6, WithFileFields
<1> HIDE DEF u
<1> QED BY <1>1, <1>5, <1>6, <1>7, <1>8

\* label `create': there is a place in the cache.
Room(k) == IF k.current >= MaxCached THEN ExpireForced(k) ELSE k

LEMMA RoomSound ==
  ASSUME NEW k, NEW rd, NEW l, Sound(k, rd, l, 0, 0)
  PROVE  Sound(Room(k), rd, l, 0, 0) /\ Narrower(k, Room(k)) /\ Room(k).current + 1 <= MaxCached
<1>1. k \in Caches /\ k.current \in Int /\ k.current <= MaxCached /\ MaxCached \in Nat /\ MaxCached >= 1
  BY CacheParts, Constants DEF Sound, Books
<1>2. CASE k.current >= MaxCached
  <2> DEFINE c == ExpireForced(k)
  <2>1. k.current >= 1
    BY <1>1, <1>2
  <2>2. Sound(c, rd, l, 0, 0) /\ Narrower(k, c) /\ c.current <= k.current - 1
    BY <2>1, ForcedSound
  <2> HIDE DEF c
  <2>3. c.current \in Int
    BY <2>2, CacheParts DEF Sound
  <2>4. c.current + 1 <= MaxCached
    BY <1>1, <2>2, <2>3
  <2> QED BY <1>2, <2>2, <2>4 DEF Room, c
<1>3. CASE ~(k.current >= MaxCached)
  <2>1. Room(k) = k /\ Narrower(k, k)
    BY <1>1, <1>3 DEF Room, Narrower
  <2>2. k.current + 1 <= MaxCached
    BY <1>1, <1>3
  <2> QED BY <2>1, <2>2
<1> QED BY <1>2, <1>3

\* The entry is in the tree.
Entry(n) == [NoFile EXCEPT !.name = n, !.uses = 1]
Entered(k, e, n) == [k EXCEPT !.tree = @ \cup {e}, !.current = @ + 1, !.file[e] = Entry(n)]

LEMMA JoinSound ==
  ASSUME NEW k, NEW rd, NEW l, Sound(k, rd, l, 0, 0), k.current + 1 <= MaxCached, NEW e \in Cached,
         k.file[e] = NoFile, NEW n \in Names, \A x \in k.tree : k.file[x].name # n
  PROVE  Sound(Entered(k, e, n), rd, l, e, 0) /\ Entered(k, e, n).file[e].fd = NoFd
<1> DEFINE f == Entry(n) g == [k.file EXCEPT ![e] = f] t == k.tree \cup {e} c == k.current + 1
           m == Entered(k, e, n)
<1>1. k \in Caches /\ rd \in Reads /\ ~k.exited /\ Data(k.file, k.fds, rd, l)
      /\ Books(k.file, k.tree, k.queue, k.current, 0, 0)
  BY DEF Sound
<1>2. k.file \in Files /\ k.tree \in SUBSET Cached /\ k.queue \in Seq(Cached) /\ k.current \in Int /\ k.fds \in Descs
  BY <1>1, CacheParts
<1>3. e \notin k.tree
  BY Allocates
<1>4. /\ f \in FileType /\ f.fd = NoFd /\ f.uses = 1 /\ f.name = n /\ ~f.close
      /\ f.kind = k.file[e].kind /\ f.fd = k.file[e].fd /\ f.uniq = k.file[e].uniq /\ f.count = k.file[e].count
  BY DEF Entry, NoFile, FileType
<1> HIDE DEF f
<1>5. m = [k EXCEPT !.tree = t, !.current = c, !.file = g]
  BY <1>1 DEF Entered, Caches, f
<1>6. g \in Files /\ g[e] = f /\ t \in SUBSET Cached /\ c \in Int
  BY <1>2, <1>4 DEF Files
<1>7. Data(g, k.fds, rd, l)
  <2>1. f.uses >= 1
    BY <1>4
  <2> QED BY <1>1, <1>2, <1>4, <2>1, DataQuiet
<1>8. Books(g, t, k.queue, c, e, 0)
  <2>1. f.uses >= 1 /\ \A x \in k.tree : k.file[x].name # f.name
    BY <1>4
  <2>2. e \in Cached \ k.tree /\ ~f.close /\ f \in FileType
    BY <1>3, <1>4
  <2> QED BY <1>1, <1>2, <2>1, <2>2, BooksJoin
<1> HIDE DEF m, g, t, c
<1>9. m \in Caches /\ m.file = g /\ m.tree = t /\ m.queue = k.queue /\ m.current = c /\ m.fds = k.fds /\ m.exited = k.exited
  BY <1>1, <1>5, <1>6 DEF Caches
<1>10. Sound(m, rd, l, e, 0)
  BY <1>1, <1>7, <1>8, <1>9 DEF Sound
<1> QED BY <1>4, <1>6, <1>9, <1>10 DEF m

\* What was opened may enter the cache.
Loose(o) == [fd |-> o.fd, uniq |-> o.uniq]
Arriving(o) ==
  /\ o.kind \in {"file", "dir", "err"} /\ o.uniq \in Uniqs \cup {0} /\ o.fd \in FileDescs \cup {NoFd}
  /\ o.kind = "file" <=> o.fd # NoFd

LEMMA InsertSound ==
  ASSUME NEW k, NEW rd, NEW o, Arriving(o), Sound(k, rd, Loose(o), 0, 0), NEW n \in Names,
         \A x \in k.tree : k.file[x].name # n, CanCreateEntry(k), NEW r \in Readers, rd[r] = Nobody
  PROVE  LET c == Inserted(k, n, o) IN
         /\ Sound(c.k, Taken(rd, r, c.e, o), Unopened, 0, 0)
         /\ c.k.file[c.e].kind = o.kind /\ c.k.file[c.e].uniq = o.uniq
<1> DEFINE k1 == Room(k)
           e == CHOOSE x \in Cached : k1.file[x] = NoFile
           k2 == Entered(k1, e, n)
           k3 == AddEvent(k2, e, o.fd)
           k4 == Refreshed(k3, e, o)
           l == Loose(o)
<1>1. Sound(k1, rd, l, 0, 0) /\ Narrower(k, k1) /\ k1.current + 1 <= MaxCached
  BY RoomSound
<1>2. Inserted(k, n, o) = [k |-> k4, e |-> e]
  BY DEF Inserted, Room, Entered, Entry
<1>3. l.fd = o.fd /\ l.uniq = o.uniq
  BY DEF Loose
<1> HIDE DEF k1
<1>4. \E x \in Cached : k1.file[x] = NoFile
  BY <1>1 DEF CanCreateEntry, Narrower
<1>5. e \in Cached /\ k1.file[e] = NoFile
  BY <1>4
<1> HIDE DEF e, l
<1>6. \A x \in k1.tree : k1.file[x].name # n
  BY <1>1 DEF Narrower
<1>7. Sound(k2, rd, l, e, 0) /\ k2.file[e].fd = NoFd
  BY <1>1, <1>5, <1>6, JoinSound
<1> HIDE DEF k2
<1>8. Due(k2, rd, e, o, l)
  BY <1>3, <1>7 DEF Due, Arriving
<1>9. Due(k3, rd, e, o, l)
  BY <1>5, <1>8, DueEvent
<1> HIDE DEF k3
<1>10. Sound(k4, Taken(rd, r, e, o), Unopened, 0, 0) /\ k4.file[e].kind = o.kind /\ k4.file[e].uniq = o.uniq
  BY <1>5, <1>9, RefreshSound
<1> HIDE DEF k4
<1> QED BY <1>2, <1>10

\* The request has the entry, if it is a file.
LEMMA ReturnStep ==
  ASSUME NEW r \in Readers, NEW k, NEW e, NEW o, k.file[e].kind = o.kind, k.file[e].uniq = o.uniq,
         Sound(k, Taken(reading, r, e, o), Unopened, 0, 0), ReturnEntry(r, k, e)
  PROVE  Sound(ofc', reading', Unopened, 0, 0) /\ UNCHANGED <<fileConf, disk, broken>>
<1>1. ofc' = k /\ reading' = Taken(reading, r, e, o) /\ UNCHANGED <<fileConf, disk, broken>>
  BY DEF ReturnEntry, Taken
<1> QED BY <1>1

LEMMA CreateSound ==
  ASSUME NEW k, NEW o, Arriving(o), Sound(k, reading, Loose(o), 0, 0), NEW n \in Names,
         \A x \in k.tree : k.file[x].name # n, CanCreateEntry(k), NEW r \in Readers, reading[r] = Nobody,
         CreateEntry(r, n, k, o)
  PROVE  Sound(ofc', reading', Unopened, 0, 0) /\ UNCHANGED <<fileConf, disk, broken>>
<1> DEFINE c == Inserted(k, n, o)
<1>1. CASE ReturnEntry(r, c.k, c.e)
  <2>1. /\ Sound(c.k, Taken(reading, r, c.e, o), Unopened, 0, 0)
        /\ c.k.file[c.e].kind = o.kind /\ c.k.file[c.e].uniq = o.uniq
    BY InsertSound
  <2> HIDE DEF c
  <2> QED BY <1>1, <2>1, ReturnStep
<1>2. CASE ReturnError(FdClosed(Room(k), o.fd))
  <2>1. Sound(Room(k), reading, Loose(o), 0, 0) /\ Loose(o).fd = o.fd
    BY RoomSound DEF Loose
  <2>2. Sound(FdClosed(Room(k), o.fd), reading, Unopened, 0, 0)
    BY <2>1, UnopenedSound
  <2> QED BY <1>2, <2>2 DEF ReturnError
<1> QED BY <1>1, <1>2 DEF CreateEntry, Room

-----------------------------------------------------------------------------
(* ngx_open_cached_file *)

\* The state of the disk and of the configuration that the actions start from.
Ready ==
  /\ Sound(ofc, reading, Unopened, 0, 0) /\ fileConf \in FileConfs
  /\ \A n \in Names : disk[n].kind \in {"none", "file", "dir"} /\ (disk[n].kind = "file" => disk[n].uniq \in Uniqs)
Steady == Sound(ofc', reading', Unopened, 0, 0) /\ UNCHANGED <<fileConf, disk, broken>>

LEMMA Arrives ==
  ASSUME NEW k, NEW rd, NEW away, Sound(k, rd, Unopened, away, 0), NEW o, ~GivesUp(o),
         Missing(o, k) \/ Fresh(o, k, rd, away)
  PROVE  Arriving(o) /\ Sound(o.k, rd, Loose(o), away, 0) /\ o.k.file = k.file /\ o.k.tree = k.tree
<1>1. NoFd \notin FileDescs
  BY Constants
<1>2. CASE Missing(o, k)
  <2>1. Loose(o) = Unopened
    BY <1>2 DEF Missing, Loose, Unopened
  <2>2. o.kind # "failed"
    BY DEF GivesUp
  <2> QED BY <1>2, <2>1, <2>2 DEF Missing, Arriving
<1>3. CASE Fresh(o, k, rd, away)
  BY <1>1, <1>3 DEF Fresh, Arriving, Loose
<1> QED BY <1>2, <1>3

\* What arrives is due to an entry without descriptor.
LEMMA DueArrived ==
  ASSUME NEW k, NEW rd, NEW e, NEW o, Arriving(o), Sound(k, rd, Loose(o), e, 0), k.file[e].fd = NoFd
  PROVE  Due(k, rd, e, o, Loose(o))
<1>1. Loose(o).fd = o.fd /\ Loose(o).uniq = o.uniq
  BY DEF Loose
<1> QED BY <1>1 DEF Due, Arriving

LEMMA FoundStep ==
  ASSUME NEW r \in Readers, reading[r] = Nobody, NEW e \in Cached, NEW k, NEW o, NEW l, Due(k, reading, e, o, l),
         ReturnEntry(r, Refreshed(k, e, o), e)
  PROVE  Steady
<1> DEFINE c == Refreshed(k, e, o)
<1>1. Sound(c, Taken(reading, r, e, o), Unopened, 0, 0) /\ c.file[e].kind = o.kind /\ c.file[e].uniq = o.uniq
  BY RefreshSound
<1> HIDE DEF c
<1> QED BY <1>1, ReturnStep DEF c, Steady

LEMMA GivenUp ==
  ASSUME NEW k, NEW rd, NEW away, NEW o, GivesUp(o),
         \/ Missing(o, k) \/ \E fd, uniq : Same(o, k, fd, uniq)
         \/ Fresh(o, k, rd, away)
  PROVE  o.k = k
BY DEF GivesUp, Missing, Same, Fresh

LEMMA MissedStep ==
  ASSUME Ready, NEW r \in Readers, NEW n \in Names, OpenMissed(r, n)
  PROVE  Steady
<1>1. reading[r] = Nobody /\ CachedAs(n) = {} /\ CanCreateEntry(ofc)
  BY DEF OpenMissed
<1>2. PICK o \in OpenAndStat(ofc, disk[n], NoFd, 0) :
        IF GivesUp(o) THEN ReturnError(o.k) ELSE CreateEntry(r, n, o.k, o)
  BY DEF OpenMissed
<1>3. Missing(o, ofc) \/ Fresh(o, ofc, reading, 0)
  <2>1. \/ Missing(o, ofc) \/ Same(o, ofc, NoFd, 0)
        \/ Fresh(o, ofc, reading, 0) /\ (NoFd # NoFd => o.uniq # 0)
    BY StatSound DEF Ready
  <2> QED BY <2>1 DEF Same
<1>4. CASE GivesUp(o)
  <2>1. o.k = ofc
    BY <1>3, <1>4, GivenUp
  <2> QED BY <1>2, <1>4, <2>1 DEF ReturnError, Ready, Steady
<1>5. CASE ~GivesUp(o)
  <2>1. Arriving(o) /\ Sound(o.k, reading, Loose(o), 0, 0) /\ o.k.file = ofc.file /\ o.k.tree = ofc.tree
    BY <1>3, <1>5, Arrives DEF Ready
  <2>2. CanCreateEntry(o.k) /\ \A x \in o.k.tree : o.k.file[x].name # n
    BY <1>1, <2>1 DEF CanCreateEntry, CachedAs
  <2> QED BY <1>1, <1>2, <1>5, <2>1, <2>2, CreateSound DEF Steady
<1> QED BY <1>4, <1>5

LEMMA DormantStep ==
  ASSUME Ready, NEW r \in Readers, NEW n \in Names, OpenDormant(r, n)
  PROVE  Steady
<1>1. reading[r] = Nobody /\ ofc.tree \in SUBSET Cached
  BY CacheParts DEF OpenDormant, Ready, Sound
<1>2. PICK e \in CachedAs(n) :
        /\ Dormant(ofc.file[e])
        /\ \E o \in OpenAndStat(UsedAgain(e), disk[n], NoFd, 0) :
             IF GivesUp(o) THEN ReturnError(FailedEntry(o.k, e))
             ELSE ReturnEntry(r, Refreshed(AddEvent(o.k, e, o.fd), e, o), e)
  BY DEF OpenDormant
<1> DEFINE u == UsedAgain(e)
<1>3. PICK o \in OpenAndStat(u, disk[n], NoFd, 0) :
        IF GivesUp(o) THEN ReturnError(FailedEntry(o.k, e))
        ELSE ReturnEntry(r, Refreshed(AddEvent(o.k, e, o.fd), e, o), e)
  BY <1>2
<1>4. e \in ofc.tree /\ e \in Cached /\ ofc.file[e].fd = NoFd
  BY <1>1, <1>2 DEF CachedAs, Dormant
<1>5. Sound(u, reading, Unopened, e, 0) /\ u.file[e].fd = NoFd
  BY <1>4, UsedAgainSound DEF Ready
<1> HIDE DEF u
<1>6. Missing(o, u) \/ Fresh(o, u, reading, e)
  <2>1. \/ Missing(o, u) \/ Same(o, u, NoFd, 0)
        \/ Fresh(o, u, reading, e) /\ (NoFd # NoFd => o.uniq # 0)
    BY <1>5, StatSound DEF Ready
  <2> QED BY <2>1 DEF Same
<1>7. CASE GivesUp(o)
  <2>1. o.k = u
    BY <1>6, <1>7, GivenUp
  <2>2. Sound(FailedEntry(u, e), reading, Unopened, 0, 0)
    BY <1>4, <1>5, FailedSound
  <2> QED BY <1>3, <1>7, <2>1, <2>2 DEF ReturnError, Steady
<1>8. CASE ~GivesUp(o)
  <2>1. Arriving(o) /\ Sound(o.k, reading, Loose(o), e, 0) /\ o.k.file = u.file
    BY <1>5, <1>6, <1>8, Arrives
  <2>2. Due(o.k, reading, e, o, Loose(o))
    BY <1>5, <2>1, DueArrived
  <2>3. Due(AddEvent(o.k, e, o.fd), reading, e, o, Loose(o))
    BY <1>4, <2>2, DueEvent
  <2> QED BY <1>1, <1>3, <1>4, <1>8, <2>3, FoundStep
<1> QED BY <1>7, <1>8

\* One request more has an entry.
LEMMA MoreSound ==
  ASSUME NEW k, NEW rd, Sound(k, rd, Unopened, 0, 0), NEW e \in k.tree, k.file[e].fd # NoFd,
         NEW r \in Readers, rd[r] = Nobody
  PROVE  LET m == [k EXCEPT !.file[e].count = @ + 1] IN
         /\ Sound(m, Taken(rd, r, e, k.file[e]), Unopened, 0, 0) /\ m.file[e] # NoFile
         /\ m.file[e].kind = k.file[e].kind /\ m.file[e].uniq = k.file[e].uniq
<1> DEFINE g == k.file[e]
           f == [g EXCEPT !.count = g.count + 1]
           m == WithFile(k, e, f)
           u == g.uniq
           rd2 == [rd EXCEPT ![r] = [entry |-> e, uniq |-> u]]
<1>1. k \in Caches /\ rd \in Reads /\ ~k.exited /\ Data(k.file, k.fds, rd, Unopened)
      /\ Books(k.file, k.tree, k.queue, k.current, 0, 0)
  BY DEF Sound
<1>2. k.file \in Files /\ k.tree \in SUBSET Cached /\ k.fds \in Descs /\ e \in Cached /\ g \in FileType /\ 0 \notin Cached
  BY <1>1, CacheParts, Constants
<1>3. g.count \in Nat /\ g.kind = "file" /\ u \in Uniqs /\ k.fds[g.fd] = u /\ g.fd # Unopened.fd
      /\ g.count = Cardinality(HavingIn(rd, e)) /\ g.uses >= 1 /\ ~g.close
  <2>1. g.count \in Nat
    BY <1>2 DEF FileType
  <2>2. g.uses >= 1 /\ ~g.close
    BY <1>1 DEF Books
  <2> QED BY <1>1, <1>2, <2>1, <2>2 DEF Data, Fitting
<1>4. [k EXCEPT !.file[e].count = @ + 1] = m /\ Taken(rd, r, e, g) = rd2
  BY <1>1, <1>3 DEF WithFile, Caches, Taken
<1>5. f \in FileType /\ f.count = g.count + 1 /\ f.name = g.name /\ f.kind = g.kind /\ f.fd = g.fd /\ f.uniq = g.uniq
      /\ f.uses = g.uses /\ f.close = g.close
  <2> DEFINE n == g.count + 1
  <2>1. n \in Nat
    BY <1>3
  <2> HIDE DEF n, g
  <2>2. /\ [g EXCEPT !.count = n] \in FileType /\ [g EXCEPT !.count = n].count = n
        /\ [g EXCEPT !.count = n].name = g.name /\ [g EXCEPT !.count = n].kind = g.kind
        /\ [g EXCEPT !.count = n].fd = g.fd /\ [g EXCEPT !.count = n].uniq = g.uniq
        /\ [g EXCEPT !.count = n].uses = g.uses /\ [g EXCEPT !.count = n].close = g.close
    BY <1>2, <2>1 DEF FileType
  <2> QED BY <2>2 DEF n
<1> HIDE DEF f
<1>6. /\ rd2 \in Reads
      /\ Cardinality(HavingIn(rd2, e)) = Cardinality(HavingIn(rd, e)) + 1
      /\ Cardinality(HavingIn(rd, e)) \in Nat
      /\ \A x \in Cached \ {e} : HavingIn(rd2, x) = HavingIn(rd, x)
  <2>1. rd \in Reads /\ e \in Cached /\ u \in Uniqs
    BY <1>1, <1>2, <1>3
  <2> HIDE DEF u
  <2>2. rd2 \in Reads
    BY <2>1 DEF Reads
  <2>3. \A s \in Readers : rd2[s].entry = IF s = r THEN e ELSE rd[s].entry
    BY <2>1 DEF Reads
  <2> HIDE DEF rd2
  <2> QED BY <2>1, <2>2, <2>3, HavingMore
<1>7. \A s \in Readers : rd2[s] = IF s = r THEN [entry |-> e, uniq |-> u] ELSE rd[s]
  BY <1>1 DEF Reads
<1>8. \A s \in Readers : \/ rd2[s] = Nobody
                         \/ rd2[s].entry = e /\ rd2[s].uniq = f.uniq
                         \/ rd2[s] = rd[s] /\ rd[s].entry # e
  <2> SUFFICES ASSUME NEW s \in Readers
               PROVE  \/ rd2[s] = Nobody
                      \/ rd2[s].entry = e /\ rd2[s].uniq = f.uniq
                      \/ rd2[s] = rd[s] /\ rd[s].entry # e
    OBVIOUS
  <2>1. CASE s = r
    BY <1>5, <1>7, <2>1
  <2>2. CASE s # r
    <3>1. rd[s] = Nobody \/ rd[s].entry # e \/ rd[s].uniq = g.uniq
      BY <1>1 DEF Data
    <3> QED BY <1>5, <1>7, <2>2, <3>1
  <2> QED BY <2>1, <2>2
<1> HIDE DEF rd2
<1>9. Data([k.file EXCEPT ![e] = f], k.fds, rd2, Unopened)
  <2>1. Fitting(f, k.fds, Unopened) /\ f.count = Cardinality(HavingIn(rd2, e))
    BY <1>3, <1>5, <1>6 DEF Fitting
  <2>2. \A x \in Cached \ {e} : k.file[x].fd # NoFd =>
          k.fds[k.file[x].fd] = k.fds[k.file[x].fd] /\ k.file[x].fd # Unopened.fd /\ k.file[x].fd # f.fd
    BY <1>1, <1>2, <1>5 DEF Data, Fitting
  <2>3. \A d \in FileDescs : k.fds[d] # 0 => \/ d = Unopened.fd \/ d = f.fd
                                             \/ \E x \in Cached \ {e} : k.file[x].fd = d
    BY <1>1, <1>5 DEF Data
  <2>4. Unopened.fd \in FileDescs \cup {NoFd} /\ (Unopened.fd # NoFd => Unopened.uniq \in Uniqs /\ k.fds[Unopened.fd] = Unopened.uniq)
    BY DEF Unopened
  <2> QED BY <1>1, <1>2, <1>5, <1>6, <1>8, <2>1, <2>2, <2>3, <2>4, DataStep
<1>10. Books([k.file EXCEPT ![e] = f], k.tree, k.queue, k.current, 0, 0)
  <2>1. 0 \notin k.tree
    BY <1>2
  <2> QED BY <1>1, <1>2, <1>3, <1>5, <2>1, BooksStep
<1>11. /\ m \in Caches /\ m.file = [k.file EXCEPT ![e] = f] /\ m.tree = k.tree /\ m.queue = k.queue
       /\ m.current = k.current /\ m.fds = k.fds /\ m.exited = k.exited
       /\ m.file[e] = f /\ \A x \in Cached \ {e} : m.file[x] = k.file[x]
  BY <1>1, <1>2, <1>5, WithFileFields
<1> HIDE DEF m
<1>12. Sound(m, rd2, Unopened, 0, 0)
  BY <1>1, <1>6, <1>9, <1>10, <1>11 DEF Sound
<1>13. f # NoFile
  <2>1. NoFile.uses = 0 /\ f.uses >= 1
    BY <1>3, <1>5 DEF NoFile
  <2> QED BY <2>1
<1> QED BY <1>4, <1>5, <1>11, <1>12, <1>13

LEMMA HitStep ==
  ASSUME Ready, NEW r \in Readers, NEW n \in Names, OpenHit(r, n)
  PROVE  Steady
<1>1. reading[r] = Nobody /\ ofc.tree \in SUBSET Cached /\ reading \in Reads
  BY CacheParts DEF OpenHit, Ready, Sound
<1> DEFINE K(e) == QueuedFirst([UsedAgain(e) EXCEPT !.file[e].accessed = 0], e)
<1>2. PICK e \in CachedAs(n) :
        /\ ~Dormant(ofc.file[e])
        /\ IF ofc.file[e].kind = "file"
           THEN ReturnEntry(r, AddEvent([K(e) EXCEPT !.file[e].count = @ + 1], e, ofc.file[e].fd), e)
           ELSE ReturnEntry(r, K(e), e)
  BY DEF OpenHit
<1> DEFINE u == UsedAgain(e)
           f == [u.file[e] EXCEPT !.accessed = 0]
           w == WithFile(u, e, f)
           k == QueuedFirst(w, e)
<1>3. e \in ofc.tree /\ e \in Cached
  BY <1>1, <1>2 DEF CachedAs
<1>4. Sound(u, reading, Unopened, e, 0) /\ u.tree = ofc.tree /\ u.file[e].kind = ofc.file[e].kind /\ u.file[e].fd = ofc.file[e].fd
  BY <1>3, UsedAgainSound DEF Ready
<1>5. K(e) = k
  <2> HIDE DEF u
  <2>1. u \in Caches
    BY <1>4 DEF Sound
  <2>2. [u EXCEPT !.file[e].accessed = 0] = w
    BY <2>1 DEF WithFile, Caches
  <2> QED BY <2>2 DEF u
<1> HIDE DEF u
<1>6. u \in Caches /\ u.file[e] \in FileType /\ u.file[e] # NoFile /\ u.file[e].uses >= 1
  <2>1. u \in Caches
    BY <1>4 DEF Sound
  <2> QED BY <1>3, <1>4, <2>1, Allocates
<1>7. f \in FileType /\ f.uses = u.file[e].uses /\ f.name = u.file[e].name /\ f.kind = u.file[e].kind
      /\ f.fd = u.file[e].fd /\ f.uniq = u.file[e].uniq /\ f.count = u.file[e].count /\ f.close = u.file[e].close
  BY <1>6 DEF FileType
<1> HIDE DEF f
<1>8. Sound(w, reading, Unopened, e, 0)
  BY <1>3, <1>4, <1>6, <1>7, QuietFile
<1>9. /\ w \in Caches /\ w.file = [u.file EXCEPT ![e] = f] /\ w.tree = u.tree /\ w.queue = u.queue
      /\ w.current = u.current /\ w.fds = u.fds /\ w.exited = u.exited
      /\ w.file[e] = f /\ \A x \in Cached \ {e} : w.file[x] = u.file[x]
  BY <1>3, <1>6, <1>7, WithFileFields
<1> HIDE DEF w
<1>10. Sound(k, reading, Unopened, 0, 0) /\ k.file = w.file /\ k.tree = w.tree
  BY <1>3, <1>8, QueuedSound
<1> HIDE DEF k
<1>11. k.file[e].kind = ofc.file[e].kind /\ k.file[e].fd = ofc.file[e].fd /\ e \in k.tree
  BY <1>3, <1>4, <1>7, <1>9, <1>10
<1>12. CASE ofc.file[e].kind = "file"
  <2> DEFINE m == [k EXCEPT !.file[e].count = @ + 1]
             a == AddEvent(m, e, ofc.file[e].fd)
             o == k.file[e]
             rd2 == Taken(reading, r, e, o)
  <2>1. k.file[e].fd # NoFd
    BY <1>2, <1>11, <1>12 DEF Dormant
  <2>2. Sound(m, rd2, Unopened, 0, 0) /\ m.file[e] # NoFile /\ m.file[e].kind = o.kind /\ m.file[e].uniq = o.uniq
    BY <1>1, <1>10, <1>11, <2>1, MoreSound
  <2> HIDE DEF m, rd2
  <2>3. m \in Caches
    BY <2>2 DEF Sound
  <2> DEFINE z == Marked(m, e, TRUE, FALSE)
  <2>4. a = m \/ a = z
    BY <1>3, <2>3, Marks
  <2>5. Sound(z, rd2, Unopened, 0, 0)
    BY <1>3, <2>2, MarkedSound
  <2>6. z.file[e].kind = m.file[e].kind /\ z.file[e].uniq = m.file[e].uniq
    BY <1>3, <2>3, MarkedFields
  <2>7. ReturnEntry(r, a, e)
    BY <1>2, <1>5, <1>12 DEF m
  <2> HIDE DEF z, a, o
  <2>8. Sound(a, rd2, Unopened, 0, 0) /\ a.file[e].kind = o.kind /\ a.file[e].uniq = o.uniq
    BY <2>2, <2>4, <2>5, <2>6
  <2> QED BY <2>7, <2>8, ReturnStep DEF Steady, rd2
<1>13. CASE ofc.file[e].kind # "file"
  <2> DEFINE o == k.file[e]
  <2>1. Taken(reading, r, e, o) = reading
    BY <1>1, <1>11, <1>13 DEF Taken, Reads
  <2>2. ReturnEntry(r, k, e)
    BY <1>2, <1>5, <1>13
  <2> QED BY <1>10, <2>1, <2>2, ReturnStep DEF Steady
<1> QED BY <1>12, <1>13

\* The file that is tested again is another one now.
LEMMA ReplacedStep ==
  ASSUME Ready, NEW r \in Readers, reading[r] = Nobody, NEW n \in Names, CanCreateEntry(ofc), NEW e \in CachedAs(n),
         NEW o, Arriving(o), Sound(o.k, reading, Loose(o), e, 0), o.k.file = UsedAgain(e).file, o.k.tree = ofc.tree,
         IF ofc.file[e].count = 0 THEN ReturnEntry(r, Refreshed(AddEvent(Shut(o.k, e), e, o.fd), e, o), e)
         ELSE CreateEntry(r, n, [Untreed(o.k, e) EXCEPT !.file[e].close = TRUE], o)
  PROVE  Steady
<1> DEFINE k == o.k l == Loose(o)
<1>1. ofc \in Caches /\ ofc.tree \in SUBSET Cached /\ k \in Caches /\ k.file \in Files /\ k.current \in Int /\ k.tree \in SUBSET Cached
      /\ Books(ofc.file, ofc.tree, ofc.queue, ofc.current, 0, 0)
  <2>1. ofc \in Caches /\ k \in Caches /\ Books(ofc.file, ofc.tree, ofc.queue, ofc.current, 0, 0)
    BY DEF Ready, Sound
  <2> QED BY <2>1, CacheParts
<1>2. e \in ofc.tree /\ e \in Cached /\ ofc.file[e].name = n
  BY <1>1 DEF CachedAs
<1>3. k.file[e].count = ofc.file[e].count /\ \A x \in Cached \ {e} : k.file[x] = ofc.file[x]
  BY <1>2, UsedAgainSound DEF Ready
<1>4. k.file[e] # NoFile /\ ofc.file[e] # NoFile /\ k.file[e] \in FileType
  BY <1>2, Allocates DEF Ready
<1> HIDE DEF k, l
<1>5. Sound(k, reading, l, e, 0) /\ k.tree = ofc.tree
  BY DEF k, l
<1>6. CASE ofc.file[e].count = 0
  <2> DEFINE s == Shut(k, e)
  <2>1. Sound(s, reading, l, e, 0)
    BY <1>2, <1>3, <1>4, <1>5, <1>6, ShutSound
  <2>2. /\ s \in Caches /\ s.tree = k.tree /\ s.queue = k.queue /\ s.current = k.current
        /\ s.exited = k.exited /\ s.file = [k.file EXCEPT ![e] = Shutting(k.file[e])]
        /\ Shutting(k.file[e]) \in FileType
        /\ s.fds = IF k.file[e].fd = NoFd THEN k.fds ELSE [k.fds EXCEPT ![k.file[e].fd] = 0]
    BY <1>1, <1>2, ShutFields
  <2>3. s.file[e].fd = NoFd
    <3>1. Shutting(k.file[e]).fd = NoFd
      BY <1>4 DEF Shutting, FileType
    <3>2. k.file \in Files /\ s.file = [k.file EXCEPT ![e] = Shutting(k.file[e])]
      BY <1>1, <2>2
    <3> HIDE DEF s
    <3> QED BY <1>2, <3>1, <3>2 DEF Files
  <2> HIDE DEF s
  <2>4. Due(s, reading, e, o, l)
    BY <2>1, <2>3, DueArrived DEF l
  <2>5. Due(AddEvent(s, e, o.fd), reading, e, o, l)
    BY <1>2, <2>4, DueEvent
  <2>6. ReturnEntry(r, Refreshed(AddEvent(s, e, o.fd), e, o), e)
    BY <1>6 DEF s, k
  <2> QED BY <1>2, <2>5, <2>6, FoundStep
<1>7. CASE ofc.file[e].count # 0
  <2> DEFINE g == k.file[e] s == LeftCache(k, e, g.event, g.use_event) u == Untreed(k, e)
  <2>1. g.event \in BOOLEAN /\ g.use_event \in BOOLEAN /\ g.count \in Nat
    BY <1>4 DEF FileType
  <2>2. LET f2 == Leaving(k.file[e], g.event, g.use_event)
            s2 == LeftCache(k, e, g.event, g.use_event)
        IN  /\ Sound(s2, reading, l, 0, e) /\ s2.file[e] = f2 /\ f2 \in FileType /\ f2 # NoFile
            /\ f2.count = k.file[e].count /\ f2.fd = k.file[e].fd /\ f2.close /\ f2.uses >= 1
            /\ e \in k.tree /\ s2.tree = k.tree \ {e} /\ s2.current = k.current - 1 /\ s2.queue = k.queue
            /\ \A x \in Cached \ {e} : s2.file[x] = k.file[x]
    BY <1>2, <1>5, <2>1, LeaveSound
  <2>3. [u EXCEPT !.file[e].close = TRUE] = s
    <3>1. u \in Caches /\ u.file = k.file
      <4> DEFINE t == k.tree \ {e} c == k.current - 1
      <4>1. t \in SUBSET Cached /\ c \in Int
        BY <1>1
      <4>2. u = [k EXCEPT !.tree = t, !.current = c]
        BY <1>1 DEF Untreed, Caches
      <4> HIDE DEF t, c, u
      <4> QED BY <1>1, <4>1, <4>2 DEF Caches
    <3>2. [u EXCEPT !.file[e].close = TRUE] = WithFile(u, e, Leaving(u.file[e], u.file[e].event, u.file[e].use_event))
      <4> HIDE DEF u
      <4> QED BY <1>2, <3>1, Closing
    <3> HIDE DEF u
    <3> QED BY <3>1, <3>2 DEF LeftCache, u
  <2>4. Sound(s, reading, l, 0, e) /\ s.file[e].count > 0 /\ s.tree = ofc.tree \ {e} /\ s.file[e] # NoFile
        /\ \A x \in Cached \ {e} : s.file[x] = ofc.file[x]
    <3>1. Sound(s, reading, l, 0, e) /\ s.file[e].count = g.count /\ s.tree = k.tree \ {e} /\ s.file[e] # NoFile
          /\ \A x \in Cached \ {e} : s.file[x] = k.file[x]
      <4> HIDE DEF s
      <4> QED BY <2>2 DEF s
    <3> HIDE DEF s
    <3>2. s.file[e].count > 0
      BY <1>3, <1>7, <2>1, <3>1
    <3> QED BY <1>3, <1>5, <3>1, <3>2
  <2>5. CreateEntry(r, n, s, o)
    BY <1>7, <2>3 DEF k
  <2> HIDE DEF s, g, u
  <2>6. Sound(s, reading, Loose(o), 0, 0)
    BY <1>2, <2>4, UsedSound DEF l
  <2>7. \A x \in s.tree : s.file[x].name # n
    BY <1>1, <1>2, <2>4 DEF Books
  <2>8. CanCreateEntry(s)
    BY <1>4, <2>4 DEF CanCreateEntry
  <2> QED BY <2>5, <2>6, <2>7, <2>8, CreateSound DEF Steady
<1> QED BY <1>6, <1>7

LEMMA RetestStep ==
  ASSUME Ready, NEW r \in Readers, NEW n \in Names, NEW other \in BOOLEAN, OpenRetest(r, n, other)
  PROVE  Steady
<1>1. reading[r] = Nobody /\ CanCreateEntry(ofc) /\ ofc.tree \in SUBSET Cached
  BY CacheParts DEF OpenRetest, Ready, Sound
<1>2. PICK e \in CachedAs(n) :
       LET f == ofc.file[e] IN
       /\ ~Dormant(f)
       /\ \E o \in OpenAndStat(UsedAgain(e), disk[n], f.fd, f.uniq) :
            \/ GivesUp(o) /\ ReturnError(FailedEntry(o.k, e))
            \/ /\ ~GivesUp(o) /\ f.kind # "file"
               /\ ReturnEntry(r, Refreshed(IF o.kind = "file" THEN AddEvent(o.k, e, o.fd) ELSE o.k, e, o), e)
            \/ /\ ~GivesUp(o) /\ f.kind = "file" /\ o.kind = "file" /\ o.uniq = f.uniq
               /\ ReturnEntry(r, Refreshed([o.k EXCEPT !.file[e].use_event = f.event], e, o), e)
            \/ /\ ~GivesUp(o) /\ f.kind = "file" /\ (o.kind # "file" \/ o.uniq # f.uniq)
               /\ IF f.count = 0
                  THEN ReturnEntry(r, Refreshed(AddEvent(Shut(o.k, e), e, o.fd), e, o), e)
                  ELSE CreateEntry(r, n, [Untreed(o.k, e) EXCEPT !.file[e].close = TRUE], o)
  BY DEF OpenRetest
<1> DEFINE u == UsedAgain(e) f == ofc.file[e]
<1>3. PICK o \in OpenAndStat(u, disk[n], f.fd, f.uniq) :
        \/ GivesUp(o) /\ ReturnError(FailedEntry(o.k, e))
        \/ /\ ~GivesUp(o) /\ f.kind # "file"
           /\ ReturnEntry(r, Refreshed(IF o.kind = "file" THEN AddEvent(o.k, e, o.fd) ELSE o.k, e, o), e)
        \/ /\ ~GivesUp(o) /\ f.kind = "file" /\ o.kind = "file" /\ o.uniq = f.uniq
           /\ ReturnEntry(r, Refreshed([o.k EXCEPT !.file[e].use_event = f.event], e, o), e)
        \/ /\ ~GivesUp(o) /\ f.kind = "file" /\ (o.kind # "file" \/ o.uniq # f.uniq)
           /\ IF f.count = 0
              THEN ReturnEntry(r, Refreshed(AddEvent(Shut(o.k, e), e, o.fd), e, o), e)
              ELSE CreateEntry(r, n, [Untreed(o.k, e) EXCEPT !.file[e].close = TRUE], o)
  BY <1>2
<1>4. e \in ofc.tree /\ e \in Cached
  BY <1>1 DEF CachedAs
<1>5. /\ Sound(u, reading, Unopened, e, 0) /\ u.tree = ofc.tree /\ u.file[e].fd = f.fd /\ u.file[e].uniq = f.uniq
      /\ u.file[e].kind = f.kind /\ u.file[e].event = f.event
  BY <1>4, UsedAgainSound DEF Ready
<1>6. f.kind # "file" => f.fd = NoFd
  BY <1>4 DEF Ready, Sound, Data, Fitting
<1>7. f.kind = "file" => f.fd # NoFd
  BY <1>2 DEF Dormant
<1>8. f.event \in BOOLEAN
  BY <1>4, Allocates DEF Ready, FileType
<1> HIDE DEF u, f
<1>9. \/ Missing(o, u) \/ Same(o, u, f.fd, f.uniq)
      \/ Fresh(o, u, reading, e) /\ (f.fd # NoFd => o.uniq # f.uniq)
  BY <1>5, StatSound DEF Ready
<1>10. CASE GivesUp(o)
  <2>1. o.k = u
    BY <1>9, <1>10, GivenUp
  <2>2. Sound(FailedEntry(u, e), reading, Unopened, 0, 0)
    BY <1>4, <1>5, FailedSound
  <2> QED BY <1>3, <1>10, <2>1, <2>2 DEF ReturnError, Steady
<1>11. CASE ~GivesUp(o) /\ f.kind # "file"
  <2>1. Missing(o, u) \/ Fresh(o, u, reading, e)
    BY <1>6, <1>9, <1>11 DEF Same
  <2>2. Arriving(o) /\ Sound(o.k, reading, Loose(o), e, 0) /\ o.k.file = u.file
    BY <1>5, <1>11, <2>1, Arrives
  <2>3. Due(o.k, reading, e, o, Loose(o))
    BY <1>5, <1>6, <1>11, <2>2, DueArrived
  <2> DEFINE k == IF o.kind = "file" THEN AddEvent(o.k, e, o.fd) ELSE o.k
  <2>4. Due(k, reading, e, o, Loose(o))
    BY <1>4, <2>3, DueEvent
  <2>5. ReturnEntry(r, Refreshed(k, e, o), e)
    BY <1>3, <1>11
  <2> HIDE DEF k
  <2> QED BY <1>1, <1>4, <2>4, <2>5, FoundStep
<1>12. CASE ~GivesUp(o) /\ f.kind = "file" /\ o.kind = "file" /\ o.uniq = f.uniq
  <2>1. o.k = u /\ o.fd = f.fd /\ f.fd # NoFd
    BY <1>7, <1>9, <1>12 DEF Missing, Same
  <2> DEFINE m == Marked(u, e, f.event, f.event)
  <2>2. [u EXCEPT !.file[e].use_event = f.event] = m
    <3>1. u \in Caches /\ u.file[e] \in FileType
      BY <1>4, <1>5, Allocates DEF Sound
    <3>2. [u.file[e] EXCEPT !.use_event = f.event] = [u.file[e] EXCEPT !.event = f.event, !.use_event = f.event]
      BY <1>5, <3>1 DEF FileType
    <3> QED BY <3>1, <3>2 DEF Marked, WithFile, Caches
  <2>3. u \in Caches /\ u.file[e] # NoFile
    BY <1>4, <1>5, Allocates DEF Sound
  <2>4. Sound(m, reading, Unopened, e, 0)
    BY <1>4, <1>5, <1>8, <2>3, MarkedSound
  <2>5. m.file[e].fd = u.file[e].fd /\ m.file[e].uniq = u.file[e].uniq
    <3>1. CASE f.event
      <4>1. m = Marked(u, e, TRUE, TRUE)
        BY <1>8, <3>1
      <4> HIDE DEF m
      <4> QED BY <1>4, <2>3, <4>1, MarkedFields
    <3>2. CASE ~f.event
      <4>1. m = Marked(u, e, FALSE, FALSE)
        BY <1>8, <3>2
      <4> HIDE DEF m
      <4> QED BY <1>4, <2>3, <4>1, MarkedFields
    <3> QED BY <3>1, <3>2
  <2> HIDE DEF m
  <2>6. o.uniq \in Uniqs \cup {0}
    <3>1. u.file[e] \in FileType
      BY <1>4, <1>5, Allocates
    <3> QED BY <1>5, <1>12, <3>1 DEF FileType
  <2>7. Due(m, reading, e, o, Unopened)
    BY <1>5, <1>12, <2>1, <2>4, <2>5, <2>6 DEF Due, Unopened
  <2>8. ReturnEntry(r, Refreshed(m, e, o), e)
    BY <1>3, <1>12, <2>1, <2>2
  <2> QED BY <1>1, <1>4, <2>7, <2>8, FoundStep
<1>13. CASE ~GivesUp(o) /\ f.kind = "file" /\ (o.kind # "file" \/ o.uniq # f.uniq)
  <2>1. Missing(o, u) \/ Fresh(o, u, reading, e)
    BY <1>9, <1>13 DEF Same
  <2>2. Arriving(o) /\ Sound(o.k, reading, Loose(o), e, 0) /\ o.k.file = u.file /\ o.k.tree = u.tree
    BY <1>5, <1>13, <2>1, Arrives
  <2>3. IF ofc.file[e].count = 0 THEN ReturnEntry(r, Refreshed(AddEvent(Shut(o.k, e), e, o.fd), e, o), e)
        ELSE CreateEntry(r, n, [Untreed(o.k, e) EXCEPT !.file[e].close = TRUE], o)
    BY <1>3, <1>13 DEF f
  <2> QED BY <1>1, <1>5, <2>2, <2>3, ReplacedStep DEF u
<1> QED BY <1>3, <1>10, <1>11, <1>12, <1>13

-----------------------------------------------------------------------------
(* Requests that end, events of the kernel, and time *)

\* A request gives an entry back; an entry out of the cache is perhaps not used any more.
LEMMA LessSound ==
  ASSUME NEW k, NEW rd, Sound(k, rd, Unopened, 0, 0), NEW r \in Readers, rd[r] # Nobody
  PROVE  LET e == rd[r].entry
             m == [k EXCEPT !.file[e].count = @ - 1]
         IN  /\ e \in Cached /\ m.file[e] # NoFile /\ m.tree = k.tree
             /\ Sound(m, [rd EXCEPT ![r] = Nobody], Unopened, 0, IF e \in k.tree THEN 0 ELSE e)
<1> DEFINE e == rd[r].entry
           g == k.file[e]
           n == g.count - 1
           f == [g EXCEPT !.count = n]
           m == WithFile(k, e, f)
           rd2 == [rd EXCEPT ![r] = Nobody]
           odd == IF e \in k.tree THEN 0 ELSE e
<1>1. k \in Caches /\ rd \in Reads /\ ~k.exited /\ Data(k.file, k.fds, rd, Unopened)
      /\ Books(k.file, k.tree, k.queue, k.current, 0, 0)
  BY DEF Sound
<1>2. e \in Cached
  BY <1>1 DEF Data
<1>3. k.file \in Files /\ k.tree \in SUBSET Cached /\ k.fds \in Descs /\ g \in FileType /\ 0 \notin Cached /\ 0 \notin k.tree
  <2> HIDE DEF e
  <2> QED BY <1>1, <1>2, CacheParts, Constants
<1>4. \A s \in Readers : rd2[s] = IF s = r THEN Nobody ELSE rd[s]
  BY <1>1 DEF Reads
<1>5. \A s \in Readers : rd[s].entry = e => rd[s] = Nobody \/ rd[s].uniq = g.uniq
  BY <1>1 DEF Data
<1>6. rd[r].entry = e
  OBVIOUS
<1>7. [k EXCEPT !.file[e].count = @ - 1] = m
  BY <1>1 DEF WithFile, Caches
<1> HIDE DEF e
<1>8. /\ rd2 \in Reads
      /\ Cardinality(HavingIn(rd, e)) = Cardinality(HavingIn(rd2, e)) + 1
      /\ Cardinality(HavingIn(rd2, e)) \in Nat
      /\ \A x \in Cached \ {e} : HavingIn(rd2, x) = HavingIn(rd, x)
  BY <1>1, <1>2, <1>6, HavingLess
<1>9. g.count \in Nat /\ g.count = Cardinality(HavingIn(rd, e)) /\ Fitting(g, k.fds, Unopened)
  <2>1. g.count \in Nat
    BY <1>3 DEF FileType
  <2> QED BY <1>1, <1>2, <2>1 DEF Data
<1>10. n \in Nat /\ n = Cardinality(HavingIn(rd2, e)) /\ g.count > 0
  BY <1>8, <1>9
<1>11. g.uses >= 1 /\ g # NoFile /\ (e \in k.tree => ~g.close) /\ (e \notin k.tree => g.close)
  <2>1. NoFile.count = 0
    BY DEF NoFile
  <2>2. g # NoFile
    BY <1>10, <2>1
  <2> QED BY <1>2, <2>2, Allocates
<1> HIDE DEF n, rd2
<1>12. f \in FileType /\ f.count = n /\ f.name = g.name /\ f.kind = g.kind /\ f.fd = g.fd /\ f.uniq = g.uniq
       /\ f.uses = g.uses /\ f.close = g.close
  <2> HIDE DEF g
  <2> QED BY <1>3, <1>10 DEF FileType
<1> HIDE DEF f
<1>13. Fitting(f, k.fds, Unopened)
  BY <1>9, <1>10, <1>11, <1>12 DEF Fitting
<1>14. \A s \in Readers : \/ rd2[s] = Nobody
                          \/ rd2[s].entry = e /\ rd2[s].uniq = f.uniq
                          \/ rd2[s] = rd[s] /\ rd[s].entry # e
  <2> SUFFICES ASSUME NEW s \in Readers
               PROVE  \/ rd2[s] = Nobody
                      \/ rd2[s].entry = e /\ rd2[s].uniq = f.uniq
                      \/ rd2[s] = rd[s] /\ rd[s].entry # e
    OBVIOUS
  <2>1. CASE s = r
    BY <1>4, <2>1
  <2>2. CASE s # r
    BY <1>4, <1>5, <1>12, <2>2
  <2> QED BY <2>1, <2>2
<1>15. Data([k.file EXCEPT ![e] = f], k.fds, rd2, Unopened)
  <2>1. \A x \in Cached \ {e} : k.file[x].fd # NoFd =>
          k.fds[k.file[x].fd] = k.fds[k.file[x].fd] /\ k.file[x].fd # Unopened.fd /\ k.file[x].fd # f.fd
    BY <1>1, <1>2, <1>12 DEF Data, Fitting
  <2>2. \A d \in FileDescs : k.fds[d] # 0 => \/ d = Unopened.fd \/ d = f.fd
                                             \/ \E x \in Cached \ {e} : k.file[x].fd = d
    BY <1>1, <1>12 DEF Data
  <2>3. Unopened.fd \in FileDescs \cup {NoFd} /\ (Unopened.fd # NoFd => Unopened.uniq \in Uniqs /\ k.fds[Unopened.fd] = Unopened.uniq)
    BY DEF Unopened
  <2>4. f.count = Cardinality(HavingIn(rd2, e))
    BY <1>10, <1>12
  <2> QED BY <1>1, <1>2, <1>3, <1>8, <1>12, <1>13, <1>14, <2>1, <2>2, <2>3, <2>4, DataStep
<1>16. Books([k.file EXCEPT ![e] = f], k.tree, k.queue, k.current, 0, odd)
  <2>1. odd \notin k.tree /\ (0 # e => odd = e \/ odd = 0) /\ (e \notin k.tree => odd = e)
    BY <1>3
  <2>2. e \in k.tree => f.name = k.file[e].name /\ ~f.close /\ f.uses >= 1
    BY <1>11, <1>12
  <2>3. e \notin k.tree => f.close
    BY <1>11, <1>12
  <2> DEFINE h == [k.file EXCEPT ![e] = f]
  <2>4. \A x \in Cached : h[x] = IF x = e THEN f ELSE k.file[x]
    BY <1>3 DEF Files
  <2> HIDE DEF h, odd
  <2>5. \A x \in k.tree : ~h[x].close /\ h[x].uses >= 1 /\ h[x].name = k.file[x].name
    BY <1>1, <1>3, <2>2, <2>4 DEF Books
  <2>6. \A x \in Cached \ k.tree : h[x] = NoFile \/ (h[x].close /\ (h[x].count > 0 \/ x = odd))
    BY <1>1, <1>3, <2>1, <2>3, <2>4 DEF Books
  <2> QED BY <1>1, <2>1, <2>5, <2>6 DEF Books, h
<1>17. /\ m \in Caches /\ m.file = [k.file EXCEPT ![e] = f] /\ m.tree = k.tree /\ m.queue = k.queue
       /\ m.current = k.current /\ m.fds = k.fds /\ m.exited = k.exited
       /\ m.file[e] = f /\ \A x \in Cached \ {e} : m.file[x] = k.file[x]
  BY <1>1, <1>2, <1>12, WithFileFields
<1> HIDE DEF m, odd
<1>18. Sound(m, rd2, Unopened, 0, odd)
  BY <1>1, <1>8, <1>15, <1>16, <1>17 DEF Sound
<1>19. f # NoFile
  <2>1. NoFile.uses = 0
    BY DEF NoFile
  <2> QED BY <1>11, <1>12, <2>1
<1> QED BY <1>2, <1>7, <1>17, <1>18, <1>19 DEF e, odd, rd2

LEMMA CloseStep ==
  ASSUME Ready, NEW r \in Readers, CloseFile(r)
  PROVE  Steady
<1> DEFINE e == reading[r].entry
           m == [ofc EXCEPT !.file[e].count = @ - 1]
           rd2 == [reading EXCEPT ![r] = Nobody]
           odd == IF e \in ofc.tree THEN 0 ELSE e
           c == CloseCached(m, e, fileConf.min_uses)
<1>1. reading[r] # Nobody /\ ofc' = ExpireInactive(c) /\ reading' = rd2 /\ UNCHANGED <<fileConf, disk, broken>>
  BY DEF CloseFile
<1>2. e \in Cached /\ m.file[e] # NoFile /\ m.tree = ofc.tree /\ Sound(m, rd2, Unopened, 0, odd)
  BY <1>1, LessSound DEF Ready
<1> HIDE DEF e, m, rd2
<1>3. (e \in m.tree /\ odd = 0) \/ (e \notin m.tree /\ odd = e)
  BY <1>2
<1> HIDE DEF odd
<1>4. Sound(c, rd2, Unopened, 0, 0)
  BY <1>2, <1>3, CloseSound
<1> HIDE DEF c
<1>5. Sound(ExpireInactive(c), rd2, Unopened, 0, 0)
  BY <1>4, InactiveSound
<1> QED BY <1>1, <1>5 DEF Steady

LEMMA VnodeStep ==
  ASSUME Ready, NEW e \in Cached, VnodeEvent(e), ~broken'
  PROVE  Steady \/ (broken' = broken /\ ofc' = ofc /\ UNCHANGED <<fileConf, disk, reading>>)
<1> DEFINE q == Unqueued(ofc, e) k == Untreed(q, e)
           z == [DelEvent(k, e) EXCEPT !.file[e].close = TRUE]
           c == CloseCached(z, e, 0)
<1>1. CASE e \in ofc.tree /\ ofc' = c /\ UNCHANGED broken
  <2>1. UNCHANGED <<fileConf, disk, reading>>
    BY DEF VnodeEvent
  <2>2. Sound(q, reading, Unopened, e, 0)
    BY <1>1, UnqueuedSound DEF Ready
  <2> HIDE DEF q
  <2>3. q \in Caches
    BY <2>2 DEF Sound
  <2> DEFINE s == LeftCache(q, e, FALSE, FALSE)
  <2>4. k \in Caches /\ k.file = q.file
    <3> DEFINE t == q.tree \ {e} n == q.current - 1
    <3>1. t \in SUBSET Cached /\ n \in Int
      BY <2>3, CacheParts
    <3>2. k = [q EXCEPT !.tree = t, !.current = n]
      BY <2>3 DEF Untreed, Caches
    <3> HIDE DEF t, n, k
    <3> QED BY <2>3, <3>1, <3>2 DEF Caches
  <2>5. z = s
    <3>1. z = WithFile(k, e, Leaving(k.file[e], FALSE, FALSE))
      <4> HIDE DEF k
      <4> QED BY <2>4, Closing
    <3> HIDE DEF z
    <3> QED BY <2>4, <3>1 DEF LeftCache
  <2>6. LET f2 == Leaving(q.file[e], FALSE, FALSE)
            s2 == LeftCache(q, e, FALSE, FALSE)
        IN  /\ Sound(s2, reading, Unopened, 0, e) /\ s2.file[e] = f2 /\ f2 \in FileType /\ f2 # NoFile
            /\ f2.count = q.file[e].count /\ f2.fd = q.file[e].fd /\ f2.close /\ f2.uses >= 1
            /\ e \in q.tree /\ s2.tree = q.tree \ {e} /\ s2.current = q.current - 1 /\ s2.queue = q.queue
            /\ \A x \in Cached \ {e} : s2.file[x] = q.file[x]
    <3> DEFINE no == FALSE
    <3>1. no \in BOOLEAN
      OBVIOUS
    <3> HIDE DEF no
    <3>2. LET f2 == Leaving(q.file[e], no, no)
              s2 == LeftCache(q, e, no, no)
          IN  /\ Sound(s2, reading, Unopened, 0, e) /\ s2.file[e] = f2 /\ f2 \in FileType /\ f2 # NoFile
              /\ f2.count = q.file[e].count /\ f2.fd = q.file[e].fd /\ f2.close /\ f2.uses >= 1
              /\ e \in q.tree /\ s2.tree = q.tree \ {e} /\ s2.current = q.current - 1 /\ s2.queue = q.queue
              /\ \A x \in Cached \ {e} : s2.file[x] = q.file[x]
      BY <2>2, <3>1, LeaveSound
    <3> QED BY <3>2 DEF no
  <2>7. Sound(s, reading, Unopened, 0, e) /\ s.file[e] # NoFile /\ e \notin s.tree
    <3> HIDE DEF s
    <3> QED BY <2>6 DEF s
  <2> HIDE DEF s, z
  <2>8. Sound(CloseCached(s, e, 0), reading, Unopened, 0, 0)
    BY <2>7, CloseSound
  <2> QED BY <1>1, <2>1, <2>5, <2>8 DEF Steady
<1>2. CASE UNCHANGED <<ofc, broken>>
  BY <1>2 DEF VnodeEvent
<1>3. CASE broken' = TRUE
  BY <1>3
<1> QED BY <1>1, <1>2, <1>3 DEF VnodeEvent

LEMMA DiskStep ==
  ASSUME FilesInv, NEW n \in Names, ChangeDisk(n)
  PROVE  FilesInv'
<1>1. PICK is \in {Gone, [kind |-> "dir", uniq |-> 0]} \cup [kind : {"file"}, uniq : Uniqs] :
        disk' = [disk EXCEPT ![n] = is] /\ UNCHANGED <<fileConf, ofc, reading, broken>>
  BY DEF ChangeDisk
<1>2. is \in [kind : {"none", "file", "dir"}, uniq : Uniqs \cup {0}] /\ (is.kind = "file" => is.uniq \in Uniqs)
  BY DEF Gone
<1>3. disk' \in Disks /\ \A m \in Names : disk'[m] = IF m = n THEN is ELSE disk[m]
  BY <1>1, <1>2 DEF FilesInv, Disks
<1> HIDE DEF Unopened
<1>4. \A m \in Names : disk'[m].kind = "file" => disk'[m].uniq \in Uniqs
  BY <1>2, <1>3 DEF FilesInv
<1>5. ~broken' => IF ofc'.exited THEN Ended' ELSE Sound(ofc', reading', Unopened, 0, 0)
  <2>1. Ended' <=> Ended
    BY <1>1 DEF Ended
  <2> QED BY <1>1, <2>1 DEF FilesInv
<1> QED BY <1>1, <1>3, <1>4, <1>5 DEF FilesInv, Unopened

\* A second later every entry is older.
LEMMA SecondStep ==
  ASSUME Ready, Second
  PROVE  Steady
<1> DEFINE Aged(f) == [f EXCEPT !.created = Older(f.created, Valid), !.accessed = Older(f.accessed, Inactive + 1)]
           g == [e \in Cached |-> IF ofc.file[e] = NoFile THEN NoFile ELSE Aged(ofc.file[e])]
<1>1. ofc \in Caches /\ reading \in Reads /\ ~ofc.exited /\ Data(ofc.file, ofc.fds, reading, Unopened)
      /\ Books(ofc.file, ofc.tree, ofc.queue, ofc.current, 0, 0)
  BY DEF Ready, Sound
<1>3. ofc.file \in Files /\ ofc.tree \in SUBSET Cached /\ Valid \in Nat /\ Inactive \in Nat
  BY <1>1, CacheParts, Constants
<1>2. ofc' = [ofc EXCEPT !.file = g] /\ UNCHANGED <<fileConf, disk, reading, broken>>
  <2> DEFINE h == [e \in Cached |-> IF ofc.file[e] = NoFile THEN NoFile
                 ELSE [ofc.file[e] EXCEPT !.created = Older(@, Valid), !.accessed = Older(@, Inactive + 1)]]
  <2>1. ASSUME NEW f \in FileType
        PROVE  [f EXCEPT !.created = Older(@, Valid), !.accessed = Older(@, Inactive + 1)] = Aged(f)
    BY DEF FileType
  <2>2. \A e \in Cached : ofc.file[e] \in FileType
    BY <1>3 DEF Files
  <2>3. h = g
    <3> HIDE DEF Aged
    <3> QED BY <2>1, <2>2
  <2>4. ofc' = [ofc EXCEPT !.file = h] /\ UNCHANGED <<fileConf, disk, reading, broken>>
    BY DEF Second
  <2> HIDE DEF h, g
  <2> QED BY <2>3, <2>4
<1>4. ASSUME NEW e \in Cached
      PROVE  LET f == ofc.file[e] IN
             /\ g[e] \in FileType /\ g[e].name = f.name /\ g[e].kind = f.kind /\ g[e].fd = f.fd /\ g[e].uniq = f.uniq
             /\ g[e].uses = f.uses /\ g[e].count = f.count /\ g[e].close = f.close
             /\ (f = NoFile => g[e] = NoFile)
  <2> DEFINE f == ofc.file[e] a == Older(f.created, Valid) b == Older(f.accessed, Inactive + 1)
  <2>1. f \in FileType
    BY <1>3 DEF Files
  <2>2. f.created \in Nat /\ f.accessed \in Nat
    BY <2>1 DEF FileType
  <2>3. a \in Nat /\ b \in Nat
    BY <1>3, <2>2 DEF Older
  <2> HIDE DEF a, b, f
  <2> DEFINE h == [f EXCEPT !.created = a, !.accessed = b]
  <2>4. h \in FileType /\ h.name = f.name /\ h.kind = f.kind /\ h.fd = f.fd /\ h.uniq = f.uniq
        /\ h.uses = f.uses /\ h.count = f.count /\ h.close = f.close
    BY <2>1, <2>3 DEF FileType
  <2>5. g[e] = IF f = NoFile THEN NoFile ELSE h
    BY DEF f, a, b
  <2> HIDE DEF h, g
  <2>6. CASE f = NoFile
    BY <2>1, <2>5, <2>6 DEF f
  <2>7. CASE f # NoFile
    BY <2>4, <2>5, <2>7 DEF f
  <2> QED BY <2>6, <2>7
<1>5. g \in Files
  BY <1>4 DEF Files
<1> HIDE DEF g
<1>6. /\ ofc' \in Caches /\ ofc'.file = g /\ ofc'.tree = ofc.tree /\ ofc'.queue = ofc.queue /\ ofc'.current = ofc.current
      /\ ofc'.fds = ofc.fds /\ ofc'.exited = ofc.exited
  BY <1>1, <1>2, <1>5 DEF Caches
<1>7. Data(g, ofc.fds, reading, Unopened)
  <2>1. \A e \in Cached : Fitting(g[e], ofc.fds, Unopened) /\ g[e].count = Cardinality(HavingIn(reading, e))
    BY <1>1, <1>4 DEF Data, Fitting
  <2>2. \A e, f \in Cached : g[e].fd = g[f].fd /\ g[e].fd # NoFd => e = f
    BY <1>1, <1>4 DEF Data
  <2>3. \A d \in FileDescs : ofc.fds[d] # 0 => d = Unopened.fd \/ \E e \in Cached : g[e].fd = d
    BY <1>1, <1>4 DEF Data
  <2>4. \A r \in Readers : \/ reading[r] = Nobody
                           \/ reading[r].entry \in Cached /\ reading[r].uniq = g[reading[r].entry].uniq
    BY <1>1, <1>4 DEF Data
  <2> QED BY <1>1, <2>1, <2>2, <2>3, <2>4 DEF Data
<1>8. Books(g, ofc.tree, ofc.queue, ofc.current, 0, 0)
  <2>1. \A e \in ofc.tree : ~g[e].close /\ g[e].uses >= 1 /\ g[e].name = ofc.file[e].name
    BY <1>1, <1>3, <1>4 DEF Books
  <2>2. \A e \in Cached \ ofc.tree : g[e] = NoFile \/ (g[e].close /\ (g[e].count > 0 \/ e = 0))
    BY <1>1, <1>4 DEF Books
  <2> QED BY <1>1, <2>1, <2>2 DEF Books
<1>9. Sound(ofc', reading, Unopened, 0, 0)
  BY <1>1, <1>6, <1>7, <1>8 DEF Sound
<1> QED BY <1>2, <1>9 DEF Steady

LEMMA ExitStep ==
  ASSUME FilesInv, Ready, CacheExit
  PROVE  FilesInv'
<1>1. ofc.tree = ToSet(ofc.queue) /\ ofc.current = Len(ofc.queue) /\ Len(ofc.queue) \in Nat
  <2>1. Books(ofc.file, ofc.tree, ofc.queue, ofc.current, 0, 0) /\ ofc.queue \in Seq(Cached) /\ ofc.tree \in SUBSET Cached
    BY CacheParts DEF Ready, Sound
  <2>2. Len(ofc.queue) \in Nat /\ 0 \notin Cached
    BY <2>1, LenProperties, Constants
  <2> QED BY <2>1, <2>2 DEF Books
<1>2. ofc'.tree = ofc.tree \ ToSet(ofc.queue) /\ ofc'.queue = <<>> /\ ofc'.current = ofc.current - Len(ofc.queue)
      /\ ofc'.exited = TRUE /\ reading' = [r \in Readers |-> Nobody] /\ UNCHANGED <<fileConf, disk, broken>>
  BY DEF CacheExit
<1>3. Ended'
  BY <1>1, <1>2 DEF Ended
<1> QED BY <1>2, <1>3 DEF FilesInv

-----------------------------------------------------------------------------
(* The theorem *)

LEMMA FilesStart == OpenFilesInit => FilesInv
<1> SUFFICES ASSUME OpenFilesInit PROVE FilesInv
  OBVIOUS
<1>1. NoFile \in FileType /\ NoFile.count = 0 /\ NoFile.fd = NoFd
  BY DEF NoFile, FileType
<1> DEFINE g == [e \in Cached |-> NoFile] fds == [d \in FileDescs |-> 0]
<1>2. ofc = [file |-> g, tree |-> {}, queue |-> <<>>, current |-> 0, fds |-> fds, exited |-> FALSE]
  BY DEF OpenFilesInit
<1>3. fileConf \in FileConfs /\ disk = [n \in Names |-> Gone] /\ reading = [r \in Readers |-> Nobody] /\ ~broken
  BY DEF OpenFilesInit
<1>4. g \in Files /\ fds \in Descs /\ \A e \in Cached : g[e] = NoFile
  BY <1>1 DEF Files, Descs
<1>5. <<>> \in Seq(Cached) /\ Len(<<>>) = 0 /\ ToSet(<<>>) = {} /\ IsInjective(<<>>)
  <2>1. <<>> \in Seq(Cached) /\ Len(<<>>) = 0
    BY EmptySeq
  <2>2. DOMAIN <<>> = {}
    OBVIOUS
  <2> QED BY <2>1, <2>2 DEF ToSet, IsInjective
<1>6. reading \in Reads /\ \A r \in Readers : reading[r] = Nobody
  BY <1>3 DEF Reads, Nobody
<1>7. \A e \in Cached : Cardinality(HavingIn(reading, e)) = 0
  <2> SUFFICES ASSUME NEW e \in Cached PROVE Cardinality(HavingIn(reading, e)) = 0
    OBVIOUS
  <2>1. \A r \in Readers : reading[r].entry # e
    BY <1>6, Constants DEF Nobody
  <2> QED BY <1>6, <2>1, HavingNone
<1>8. Unopened.fd = NoFd /\ \A d \in FileDescs : fds[d] = 0
  BY DEF Unopened
<1>9. Data(g, fds, reading, Unopened)
  <2> HIDE DEF fds, g
  <2>1. \A e \in Cached : Fitting(NoFile, fds, Unopened)
    BY <1>1 DEF Fitting
  <2> QED BY <1>1, <1>4, <1>6, <1>7, <1>8, <2>1 DEF Data
<1>10. Books(g, {}, <<>>, 0, 0, 0)
  <2>1. MaxCached \in Nat
    BY Constants
  <2> HIDE DEF fds, g
  <2> QED BY <1>4, <1>5, <2>1 DEF Books
<1>11. ofc \in Caches /\ ofc.file = g /\ ofc.tree = {} /\ ofc.queue = <<>> /\ ofc.current = 0 /\ ofc.fds = fds /\ ~ofc.exited
       /\ ofc.exited \in BOOLEAN
  <2> DEFINE q == <<>>
  <2>1. q \in Seq(Cached)
    BY <1>5
  <2>2. ofc = [file |-> g, tree |-> {}, queue |-> q, current |-> 0, fds |-> fds, exited |-> FALSE]
    BY <1>2
  <2> HIDE DEF fds, g, q
  <2>3. ofc \in Caches
    BY <1>4, <2>1, <2>2 DEF Caches
  <2>4. ofc.file = g /\ ofc.tree = {} /\ ofc.queue = q /\ ofc.current = 0 /\ ofc.fds = fds /\ ~ofc.exited /\ ofc.exited \in BOOLEAN
    BY <2>2
  <2> QED BY <2>3, <2>4 DEF q
<1> HIDE DEF g, fds
<1>12. Sound(ofc, reading, Unopened, 0, 0)
  BY <1>6, <1>9, <1>10, <1>11 DEF Sound
<1>13. disk \in Disks /\ \A n \in Names : disk[n].kind = "file" => disk[n].uniq \in Uniqs
  BY <1>3 DEF Disks, Gone
<1> QED BY <1>3, <1>11, <1>12, <1>13 DEF FilesInv

LEMMA FilesStep == FilesInv /\ [OpenFilesNext]_ofcVars => FilesInv'
<1> SUFFICES ASSUME FilesInv, [OpenFilesNext]_ofcVars PROVE FilesInv'
  OBVIOUS
<1> DEFINE Unchanging == UNCHANGED <<fileConf, disk, ofc, reading, broken>>
<1>1. ASSUME Unchanging PROVE FilesInv'
  <2>1. Ended' <=> Ended
    BY <1>1 DEF Ended
  <2> HIDE DEF Unopened
  <2>2. Unopened' = Unopened
    BY DEF Unopened
  <2> QED BY <1>1, <2>1, <2>2 DEF FilesInv
<1>2. CASE UNCHANGED ofcVars
  BY <1>1, <1>2 DEF ofcVars
<1>3. CASE OpenFilesNext
  <2>1. ~broken /\ ~ofc.exited /\ Ready
    <3>1. ~broken /\ ~ofc.exited
      BY <1>3 DEF OpenFilesNext
    <3>2. \A n \in Names : disk[n].kind \in {"none", "file", "dir"}
      BY DEF FilesInv, Disks
    <3> QED BY <3>1, <3>2 DEF FilesInv, Ready
  <2>2. ASSUME Steady PROVE FilesInv'
    <3>1. ~ofc'.exited /\ ofc'.exited \in BOOLEAN
      <4>1. ofc' \in Caches /\ ~ofc'.exited
        BY <2>2 DEF Steady, Sound
      <4> QED BY <4>1, CacheParts
    <3> QED BY <2>2, <3>1 DEF FilesInv, Steady
  <2>3. ASSUME NEW r \in Readers, CloseFile(r) PROVE FilesInv'
    BY <2>1, <2>2, <2>3, CloseStep
  <2>4. ASSUME NEW r \in Readers, NEW n \in Names, OpenMissed(r, n) PROVE FilesInv'
    BY <2>1, <2>2, <2>4, MissedStep
  <2>5. ASSUME NEW r \in Readers, NEW n \in Names, OpenDormant(r, n) PROVE FilesInv'
    BY <2>1, <2>2, <2>5, DormantStep
  <2>6. ASSUME NEW r \in Readers, NEW n \in Names, OpenHit(r, n) PROVE FilesInv'
    BY <2>1, <2>2, <2>6, HitStep
  <2>7. ASSUME NEW r \in Readers, NEW n \in Names, NEW other \in BOOLEAN, OpenRetest(r, n, other) PROVE FilesInv'
    BY <2>1, <2>2, <2>7, RetestStep
  <2>8. ASSUME NEW e \in Cached, VnodeEvent(e) PROVE FilesInv'
    <3>1. CASE ~broken'
      <4>1. CASE Steady
        BY <2>2, <4>1
      <4>2. CASE broken' = broken /\ ofc' = ofc /\ UNCHANGED <<fileConf, disk, reading>>
        BY <1>1, <4>2
      <4> QED BY <2>1, <2>8, <3>1, <4>1, <4>2, VnodeStep
    <3>2. CASE broken'
      <4>1. ofc'.exited \in BOOLEAN /\ UNCHANGED <<fileConf, disk>>
        <5>1. UNCHANGED <<fileConf, disk>> /\ (broken' = broken \/ ofc' = ofc)
          BY <2>8 DEF VnodeEvent
        <5> QED BY <2>1, <3>2, <5>1 DEF FilesInv
      <4> QED BY <3>2, <4>1 DEF FilesInv
    <3> QED BY <3>1, <3>2
  <2>9. ASSUME NEW n \in Names, ChangeDisk(n) PROVE FilesInv'
    BY <2>9, DiskStep
  <2>10. CASE Second
    BY <2>1, <2>2, <2>10, SecondStep
  <2>11. CASE CacheExit
    BY <2>1, <2>11, ExitStep
  <2> QED BY <1>3, <2>3, <2>4, <2>5, <2>6, <2>7, <2>8, <2>9, <2>10, <2>11 DEF OpenFilesNext
<1> QED BY <1>2, <1>3

\* What the invariant says of the books, and of the descriptors.
LEMMA FilesBooks ==
  ASSUME FilesInv, ~broken
  PROVE  BooksAgree
<1>1. MaxCached \in Nat /\ 0 \notin Cached
  BY Constants
<1>2. CASE ofc.exited
  <2>1. Ended
    BY <1>2 DEF FilesInv
  <2>2. Cardinality({}) = 0 /\ ToSet(<<>>) = {} /\ Len(<<>>) = 0
    <3>1. DOMAIN <<>> = {}
      OBVIOUS
    <3> QED BY <3>1, FS_EmptySet DEF ToSet
  <2> QED BY <1>1, <1>2, <2>1, <2>2 DEF BooksAgree, Ended
<1>3. CASE ~ofc.exited
  <2>1. Books(ofc.file, ofc.tree, ofc.queue, ofc.current, 0, 0) /\ ofc.queue \in Seq(Cached) /\ ofc.tree \in SUBSET Cached
    BY <1>3, CacheParts DEF FilesInv, Sound
  <2>2. IsInjective(ofc.queue) /\ ToSet(ofc.queue) = ofc.tree /\ Len(ofc.queue) \in Nat
    BY <1>1, <2>1, LenProperties DEF Books
  <2>3. Len(ofc.queue) = Cardinality(ofc.tree)
    BY <2>1, <2>2, ListLength
  <2>4. ofc.current = Len(ofc.queue)
    BY <2>1, <2>2 DEF Books
  <2> QED BY <1>3, <2>1, <2>2, <2>3, <2>4 DEF BooksAgree, Books
<1> QED BY <1>2, <1>3

LEMMA FilesDescs ==
  ASSUME FilesInv, ~broken
  PROVE  DescriptorsKept
<1>1. CASE ofc.exited
  BY <1>1 DEF FilesInv, Ended, DescriptorsKept
<1>2. CASE ~ofc.exited
  <2>1. Data(ofc.file, ofc.fds, reading, Unopened) /\ Books(ofc.file, ofc.tree, ofc.queue, ofc.current, 0, 0)
        /\ reading \in Reads /\ Unopened.fd = NoFd /\ NoFd \notin FileDescs /\ 0 \notin Cached
    BY <1>2, Constants DEF FilesInv, Sound, Unopened
  <2>2. \A e \in Cached : Having(e) = HavingIn(reading, e) /\ ofc.file[e].count = Cardinality(Having(e))
    BY <2>1 DEF Having, HavingIn, Data
  <2>3. ASSUME NEW e \in Cached
        PROVE  ofc.file[e].count \in Nat /\ (ofc.file[e].count > 0 <=> Having(e) # {})
    <3>1. Cardinality(HavingIn(reading, e)) \in Nat
          /\ (Cardinality(HavingIn(reading, e)) = 0 <=> \A r \in Readers : reading[r].entry # e)
      BY <2>1, HavingNone
    <3>2. Having(e) = {} <=> \A r \in Readers : reading[r].entry # e
      BY DEF Having
    <3> QED BY <2>2, <3>1, <3>2
  <2>4. ASSUME NEW r \in Readers, reading[r] # Nobody
        PROVE  LET f == ofc.file[reading[r].entry] IN f.fd # NoFd /\ ofc.fds[f.fd] = reading[r].uniq
    <3> DEFINE e == reading[r].entry
    <3>1. e \in Cached /\ reading[r].uniq = ofc.file[e].uniq /\ r \in Having(e)
      BY <2>1, <2>4 DEF Data, Having
    <3> HIDE DEF e
    <3>2. ofc.file[e].count > 0
      BY <2>3, <3>1
    <3>3. ofc.file[e].fd # NoFd /\ ofc.fds[ofc.file[e].fd] = ofc.file[e].uniq
      BY <2>1, <3>1, <3>2 DEF Data, Fitting
    <3> QED BY <3>1, <3>3 DEF e
  <2>5. ASSUME NEW d \in FileDescs, ofc.fds[d] # 0
        PROVE  Cardinality({e \in Cached : ofc.file[e].fd = d}) = 1
    <3>1. PICK x \in Cached : ofc.file[x].fd = d
      BY <2>1, <2>5 DEF Data
    <3>2. {e \in Cached : ofc.file[e].fd = d} = {x}
      BY <2>1, <3>1 DEF Data
    <3> QED BY <3>2, FS_Singleton
  <2>6. ASSUME NEW e \in Cached, ofc.file[e] # NoFile
        PROVE  ofc.file[e].count = Cardinality(Having(e)) /\ (e \notin ofc.tree => Having(e) # {})
    <3>1. e \notin ofc.tree => ofc.file[e].count > 0
      BY <2>1, <2>6 DEF Books
    <3> QED BY <2>2, <2>3, <3>1
  <2> QED BY <2>4, <2>5, <2>6 DEF DescriptorsKept
<1> QED BY <1>1, <1>2

\* Whatever requests, expiry, retests, vnode events and the disk do, ngx_open_cached_file() and its
\* clean-ups keep the tree, the queue, the count of entries and the descriptors in step, until an
\* entry is taken out of the tree a second time.
THEOREM HandlesKept == OpenFilesSpec => []HandlesExact
<1>1. OpenFilesInit => FilesInv
  BY FilesStart
<1>2. FilesInv /\ [OpenFilesNext]_ofcVars => FilesInv'
  BY FilesStep
<1>3. FilesInv => HandlesExact
  BY FilesBooks, FilesDescs DEF HandlesExact
<1> QED BY <1>1, <1>2, <1>3, PTL DEF OpenFilesSpec
-----------------------------------------------------------------------------
(* The cache of open files: who is served what                                *)

\* some name has the file
HasName(u) == \E n \in Names : disk[n].uniq = u

\* An entry that is open is for a file that has a name or lost it no earlier than the entry was
\* tested; it is relied upon only while the kernel watches it, and once its file lost the name
\* the kernel has said so.
Honest(e, f) ==
  /\ f.use_event => f.event
  /\ f.fd # NoFd => HasName(f.uniq) \/ lost[f.uniq] <= f.created
  /\ f.fd # NoFd /\ f.use_event => HasName(f.uniq) \/ e \in told

\* What of an entry's type the moments within a step keep.
EntryType ==
  [name : Names \cup {""}, kind : {"none", "file", "dir", "err"}, fd : FileDescs \cup {NoFd},
   uniq : Uniqs \cup {0}, uses : Nat, count : Int, close : BOOLEAN, event : BOOLEAN,
   use_event : BOOLEAN, created : Nat, accessed : Nat]
Formed(k) ==
  k \in [file : [Cached -> EntryType], tree : {k.tree}, queue : {k.queue}, current : {k.current},
         fds : {k.fds}, exited : {k.exited}]
Honestly(k) == Formed(k) /\ \A e \in Cached : Honest(e, k.file[e])

LEMMA FormedCache ==
  ASSUME NEW k \in Caches
  PROVE  Formed(k)
<1>1. ASSUME NEW f \in FileType PROVE f \in EntryType
  <2>1. f.count \in Nat
    BY DEF FileType
  <2>3. f.count \in Int
    BY <2>1
  <2> QED BY <2>3 DEF FileType, EntryType
<1>2. k.file \in [Cached -> EntryType]
  BY <1>1 DEF Caches, Files
<1> QED BY <1>2 DEF Formed, Caches

\* The descriptors and the books are another matter.
LEMMA HonestBooks ==
  ASSUME NEW k, Honestly(k)
  PROVE  /\ \A q : LET c == [k EXCEPT !.queue = q] IN Honestly(c) /\ c.file = k.file
         /\ \A t, n : LET c == [k EXCEPT !.tree = t, !.current = n] IN Honestly(c) /\ c.file = k.file
         /\ \A d : LET c == [k EXCEPT !.fds = d] IN Honestly(c) /\ c.file = k.file
<1>1. Formed(k) /\ \A e \in Cached : Honest(e, k.file[e])
  BY DEF Honestly
<1>2. ASSUME NEW q
      PROVE  LET c == [k EXCEPT !.queue = q] IN Formed(c) /\ c.file = k.file
  BY <1>1 DEF Formed
<1>3. ASSUME NEW t, NEW n
      PROVE  LET c == [k EXCEPT !.tree = t, !.current = n] IN Formed(c) /\ c.file = k.file
  BY <1>1 DEF Formed
<1>4. ASSUME NEW d
      PROVE  LET c == [k EXCEPT !.fds = d] IN Formed(c) /\ c.file = k.file
  BY <1>1 DEF Formed
<1> HIDE DEF Formed, Honest
<1> QED BY <1>1, <1>2, <1>3, <1>4 DEF Honestly

LEMMA HonestSteps ==
  ASSUME NEW k, Honestly(k), NEW e
  PROVE  /\ Honestly(Unqueued(k, e)) /\ Unqueued(k, e).file = k.file
         /\ Honestly(QueuedFirst(k, e)) /\ QueuedFirst(k, e).file = k.file
         /\ Honestly(Untreed(k, e)) /\ Untreed(k, e).file = k.file
         /\ \A d : Honestly(FdClosed(k, d)) /\ FdClosed(k, d).file = k.file
<1>0. k = [k EXCEPT !.queue = k.queue] /\ Formed(k)
  BY DEF Honestly, Formed
<1>1. \E q : Unqueued(k, e) = [k EXCEPT !.queue = q]
  BY <1>0 DEF Unqueued
<1>2. \E q : QueuedFirst(k, e) = [k EXCEPT !.queue = q]
  BY <1>0 DEF QueuedFirst
<1>3. \E t, n : Untreed(k, e) = [k EXCEPT !.tree = t, !.current = n]
  BY <1>0 DEF Untreed
<1>4. \A d : FdClosed(k, d) = k \/ \E x : FdClosed(k, d) = [k EXCEPT !.fds = x]
  BY <1>0 DEF FdClosed
<1>5. /\ \A q : LET c == [k EXCEPT !.queue = q] IN Honestly(c) /\ c.file = k.file
      /\ \A t, n : LET c == [k EXCEPT !.tree = t, !.current = n] IN Honestly(c) /\ c.file = k.file
      /\ \A d : LET c == [k EXCEPT !.fds = d] IN Honestly(c) /\ c.file = k.file
  BY HonestBooks
<1> DEFINE Q(q) == [k EXCEPT !.queue = q] T(t, n) == [k EXCEPT !.tree = t, !.current = n]
           D(d) == [k EXCEPT !.fds = d]
<1>6. /\ \A q : Honestly(Q(q)) /\ Q(q).file = k.file
      /\ \A t, n : Honestly(T(t, n)) /\ T(t, n).file = k.file
      /\ \A d : Honestly(D(d)) /\ D(d).file = k.file
  BY <1>5
<1>7. /\ \E q : Unqueued(k, e) = Q(q)
      /\ \E q : QueuedFirst(k, e) = Q(q)
      /\ \E t, n : Untreed(k, e) = T(t, n)
      /\ \A d : FdClosed(k, d) = k \/ \E x : FdClosed(k, d) = D(x)
  BY <1>1, <1>2, <1>3, <1>4
<1> HIDE DEF Q, T, D
<1>8. Honestly(k) /\ k.file = k.file
  OBVIOUS
<1> QED BY <1>6, <1>7, <1>8

\* An entry is written.
LEMMA HonestPut ==
  ASSUME NEW k, Honestly(k), NEW e \in Cached, NEW f \in EntryType, Honest(e, f)
  PROVE  LET c == [k EXCEPT !.file = [k.file EXCEPT ![e] = f]] IN
         Honestly(c) /\ c.file[e] = f /\ \A x \in Cached \ {e} : c.file[x] = k.file[x]
<1> DEFINE g == [k.file EXCEPT ![e] = f] c == [k EXCEPT !.file = g]
<1>1. Formed(k) /\ \A x \in Cached : Honest(x, k.file[x])
  BY DEF Honestly
<1>2. k.file \in [Cached -> EntryType]
  BY <1>1 DEF Formed
<1>3. g \in [Cached -> EntryType] /\ g[e] = f /\ \A x \in Cached \ {e} : g[x] = k.file[x]
  BY <1>2
<1> HIDE DEF g, Honest
<1>4. Formed(c) /\ c.file = g
  BY <1>1, <1>3 DEF Formed
<1> HIDE DEF c
<1>5. \A x \in Cached : Honest(x, c.file[x])
  BY <1>1, <1>3, <1>4
<1> QED BY <1>3, <1>4, <1>5 DEF Honestly, c, g

LEMMA HonestWith ==
  ASSUME NEW k, Honestly(k), NEW e \in Cached, NEW f \in EntryType, Honest(e, f)
  PROVE  Honestly(WithFile(k, e, f)) /\ WithFile(k, e, f).file[e] = f
<1> DEFINE c == [k EXCEPT !.file = [k.file EXCEPT ![e] = f]]
<1>1. Honestly(c) /\ c.file[e] = f /\ \A x \in Cached \ {e} : c.file[x] = k.file[x]
  BY HonestPut
<1>2. WithFile(k, e, f) = c
  BY DEF WithFile, Honestly, Formed
<1> HIDE DEF c
<1> QED BY <1>1, <1>2

\* The fields that are written.
LEMMA HonestFields ==
  ASSUME NEW k, Honestly(k), NEW e \in Cached, NEW c,
         \E f \in EntryType : c = [k EXCEPT !.file = [k.file EXCEPT ![e] = f]] /\ f.fd \in {k.file[e].fd, NoFd}
           /\ f.uniq = k.file[e].uniq /\ f.created = k.file[e].created /\ f.kind = k.file[e].kind
           /\ (f.use_event => f.event) /\ (f.use_event => k.file[e].use_event \/ HasName(f.uniq))
  PROVE  Honestly(c) /\ c.file[e].uniq = k.file[e].uniq /\ c.file[e].kind = k.file[e].kind
         /\ c.file[e].fd \in {k.file[e].fd, NoFd}
<1>1. PICK f \in EntryType : c = [k EXCEPT !.file = [k.file EXCEPT ![e] = f]] /\ f.fd \in {k.file[e].fd, NoFd}
           /\ f.uniq = k.file[e].uniq /\ f.created = k.file[e].created /\ f.kind = k.file[e].kind
           /\ (f.use_event => f.event) /\ (f.use_event => k.file[e].use_event \/ HasName(f.uniq))
  OBVIOUS
<1>2. Honest(e, k.file[e])
  BY DEF Honestly
<1>3. Honest(e, f)
  BY <1>1, <1>2 DEF Honest
<1> DEFINE d == [k EXCEPT !.file = [k.file EXCEPT ![e] = f]]
<1>4. Honestly(d) /\ d.file[e] = f /\ \A x \in Cached \ {e} : d.file[x] = k.file[x]
  BY <1>3, HonestPut
<1> HIDE DEF d
<1> QED BY <1>1, <1>4 DEF d

\* What the code writes to an entry: it stops or starts to watch the file, closes the descriptor,
\* takes the entry out of the cache, or counts.
Edited(k, c, e) ==
  /\ Honestly(c) /\ c.file[e].uniq = k.file[e].uniq /\ c.file[e].kind = k.file[e].kind
  /\ c.file[e].fd \in {k.file[e].fd, NoFd}

LEMMA HonestEdits ==
  ASSUME NEW k, Honestly(k), NEW e \in Cached
  PROVE  /\ \A a \in BOOLEAN : Edited(k, [k EXCEPT !.file[e].event = a, !.file[e].use_event = FALSE], e)
         /\ \A a \in BOOLEAN : a = k.file[e].event /\ HasName(k.file[e].uniq) =>
              Edited(k, [k EXCEPT !.file[e].use_event = a], e)
         /\ Edited(k, [k EXCEPT !.file[e].fd = NoFd], e)
         /\ Edited(k, [k EXCEPT !.file[e].close = TRUE], e)
         /\ Edited(k, [k EXCEPT !.file[e].accessed = 0], e)
         /\ Edited(k, [k EXCEPT !.file[e].count = @ - 1], e)
         /\ Edited(k, [k EXCEPT !.file[e].count = @ + 1], e)
         /\ \A n \in Nat : Edited(k, [k EXCEPT !.file[e].uses = n], e)
<1> DEFINE g == k.file[e]
           P(f) == [k EXCEPT !.file = [k.file EXCEPT ![e] = f]]
           Like(f) == /\ f \in EntryType /\ f.fd \in {g.fd, NoFd} /\ f.uniq = g.uniq /\ f.created = g.created
                      /\ f.kind = g.kind /\ (f.use_event => f.event) /\ (f.use_event => g.use_event \/ HasName(f.uniq))
<1>1. Formed(k) /\ k.file \in [Cached -> EntryType] /\ g \in EntryType /\ Honest(e, g)
  BY DEF Honestly, Formed
<1>2. g.event \in BOOLEAN /\ g.use_event \in BOOLEAN /\ g.count \in Int /\ (g.use_event => g.event)
  BY <1>1 DEF EntryType, Honest
<1>3. ASSUME NEW f, Like(f) PROVE Edited(k, P(f), e)
  <2> DEFINE c == P(f)
  <2>1. \E h \in EntryType : c = [k EXCEPT !.file = [k.file EXCEPT ![e] = h]] /\ h.fd \in {k.file[e].fd, NoFd}
           /\ h.uniq = k.file[e].uniq /\ h.created = k.file[e].created /\ h.kind = k.file[e].kind
           /\ (h.use_event => h.event) /\ (h.use_event => k.file[e].use_event \/ HasName(h.uniq))
    BY <1>3
  <2> HIDE DEF c
  <2>2. Honestly(c) /\ c.file[e].uniq = k.file[e].uniq /\ c.file[e].kind = k.file[e].kind
         /\ c.file[e].fd \in {k.file[e].fd, NoFd}
    BY <2>1, HonestFields
  <2> QED BY <2>2 DEF Edited, c
<1>4. ASSUME NEW a \in BOOLEAN
      PROVE  Edited(k, [k EXCEPT !.file[e].event = a, !.file[e].use_event = FALSE], e)
  <2> DEFINE f == [g EXCEPT !.event = a] h == [f EXCEPT !.use_event = FALSE]
  <2>1. h \in EntryType /\ h.fd = g.fd /\ h.uniq = g.uniq /\ h.created = g.created /\ h.kind = g.kind /\ h.use_event = FALSE
    BY <1>1 DEF EntryType
  <2>2. f \in EntryType
    BY <1>1 DEF EntryType
  <2> HIDE DEF f
  <2> DEFINE m == P(f)
  <2>3. [k EXCEPT !.file[e].event = a] = m
    BY <1>1 DEF Formed, f
  <2>4. m.file = [k.file EXCEPT ![e] = f] /\ m.file[e] = f
    BY <1>1 DEF Formed
  <2>6. [m EXCEPT !.file = [k.file EXCEPT ![e] = h]] = P(h)
    BY <1>1 DEF Formed
  <2> HIDE DEF m
  <2>5. [m.file EXCEPT ![e].use_event = FALSE] = [k.file EXCEPT ![e] = h]
    BY <1>1, <2>4
  <2> HIDE DEF h
  <2>7. [k EXCEPT !.file[e].event = a, !.file[e].use_event = FALSE] = P(h)
    BY <2>3, <2>5, <2>6
  <2>8. Like(h)
    BY <2>1
  <2> HIDE DEF P, Like
  <2> QED BY <1>3, <2>7, <2>8
<1>5. ASSUME NEW a \in BOOLEAN, a = g.event, HasName(g.uniq)
      PROVE  Edited(k, [k EXCEPT !.file[e].use_event = a], e)
  <2> DEFINE f == [g EXCEPT !.use_event = a]
  <2>1. Like(f)
    BY <1>1, <1>5 DEF EntryType
  <2>2. [k EXCEPT !.file[e].use_event = a] = P(f)
    BY <1>1 DEF Formed
  <2> HIDE DEF f, P, Like
  <2> QED BY <1>3, <2>1, <2>2
<1>6. Edited(k, [k EXCEPT !.file[e].fd = NoFd], e)
  <2> DEFINE f == [g EXCEPT !.fd = NoFd]
  <2>1. Like(f)
    BY <1>1, <1>2 DEF EntryType
  <2>2. [k EXCEPT !.file[e].fd = NoFd] = P(f)
    BY <1>1 DEF Formed
  <2> HIDE DEF f, P, Like
  <2> QED BY <1>3, <2>1, <2>2
<1>7. Edited(k, [k EXCEPT !.file[e].close = TRUE], e)
  <2> DEFINE f == [g EXCEPT !.close = TRUE]
  <2>1. Like(f)
    BY <1>1, <1>2 DEF EntryType
  <2>2. [k EXCEPT !.file[e].close = TRUE] = P(f)
    BY <1>1 DEF Formed
  <2> HIDE DEF f, P, Like
  <2> QED BY <1>3, <2>1, <2>2
<1>8. Edited(k, [k EXCEPT !.file[e].accessed = 0], e)
  <2> DEFINE f == [g EXCEPT !.accessed = 0]
  <2>1. Like(f)
    BY <1>1, <1>2 DEF EntryType
  <2>2. [k EXCEPT !.file[e].accessed = 0] = P(f)
    BY <1>1 DEF Formed
  <2> HIDE DEF f, P, Like
  <2> QED BY <1>3, <2>1, <2>2
<1>9. ASSUME NEW n \in Int PROVE Edited(k, P([g EXCEPT !.count = n]), e)
  <2> DEFINE f == [g EXCEPT !.count = n]
  <2>1. Like(f)
    BY <1>1, <1>2 DEF EntryType
  <2> HIDE DEF f, P, Like
  <2> QED BY <1>3, <2>1 DEF f
<1>10. ASSUME NEW n \in Nat PROVE Edited(k, [k EXCEPT !.file[e].uses = n], e)
  <2> DEFINE f == [g EXCEPT !.uses = n]
  <2>1. Like(f)
    BY <1>1, <1>2 DEF EntryType
  <2>2. [k EXCEPT !.file[e].uses = n] = P(f)
    BY <1>1 DEF Formed
  <2> HIDE DEF f, P, Like
  <2> QED BY <1>3, <2>1, <2>2
<1>11. Edited(k, [k EXCEPT !.file[e].count = @ - 1], e)
  <2>1. g.count - 1 \in Int
    BY <1>2
  <2>2. [k EXCEPT !.file[e].count = @ - 1] = P([g EXCEPT !.count = g.count - 1])
    BY <1>1 DEF Formed
  <2> HIDE DEF P
  <2> QED BY <1>9, <2>1, <2>2
<1>12. Edited(k, [k EXCEPT !.file[e].count = @ + 1], e)
  <2>1. g.count + 1 \in Int
    BY <1>2
  <2>2. [k EXCEPT !.file[e].count = @ + 1] = P([g EXCEPT !.count = g.count + 1])
    BY <1>1 DEF Formed
  <2> HIDE DEF P
  <2> QED BY <1>9, <2>1, <2>2
<1> HIDE DEF P, Like
<1> QED BY <1>4, <1>5, <1>6, <1>7, <1>8, <1>10, <1>11, <1>12

LEMMA HonestEvents ==
  ASSUME NEW k, Honestly(k), NEW e \in Cached
  PROVE  Edited(k, DelEvent(k, e), e) /\ \A fd : Edited(k, AddEvent(k, e, fd), e)
<1> DEFINE W(a) == [k EXCEPT !.file[e].event = a, !.file[e].use_event = FALSE]
<1>1. \A a \in BOOLEAN : Edited(k, W(a), e)
  BY HonestEdits
<1>2. Edited(k, k, e)
  BY DEF Edited
<1>3. DelEvent(k, e) = W(FALSE) /\ \A fd : AddEvent(k, e, fd) \in {k, W(TRUE)}
  BY DEF DelEvent, AddEvent
<1> HIDE DEF W
<1> QED BY <1>1, <1>2, <1>3

LEMMA HonestShut ==
  ASSUME NEW k, Honestly(k), NEW e \in Cached
  PROVE  Honestly(Shut(k, e))
<1> DEFINE m == DelEvent(k, e) c == FdClosed(m, k.file[e].fd)
<1>1. Honestly(m)
  BY HonestEvents DEF Edited
<1> HIDE DEF m
<1>2. Honestly(c)
  BY <1>1, HonestSteps
<1>3. Shut(k, e) = [c EXCEPT !.file[e].fd = NoFd]
  BY DEF Shut, m
<1> HIDE DEF c
<1>4. Edited(c, [c EXCEPT !.file[e].fd = NoFd], e)
  BY <1>2, HonestEdits
<1> QED BY <1>3, <1>4 DEF Edited

LEMMA HonestFree ==
  ASSUME NEW k, Honestly(k), NEW e \in Cached
  PROVE  Honestly(WithFile(k, e, NoFile))
<1>1. NoFile \in EntryType
  BY DEF NoFile, EntryType
<1>2. Honest(e, NoFile)
  BY DEF NoFile, Honest
<1> QED BY <1>1, <1>2, HonestWith

LEMMA HonestClose ==
  ASSUME NEW k, Honestly(k), NEW e \in Cached, NEW min
  PROVE  Honestly(CloseCached(k, e, min))
<1> DEFINE f == k.file[e]
           w == WithFile(k, e, [f EXCEPT !.accessed = 0])
           k1 == IF f.close THEN k ELSE QueuedFirst(Unqueued(w, e), e)
           k2 == Shut(k1, e)
<1>1. Honestly(w)
  <2>1. Edited(k, [k EXCEPT !.file[e].accessed = 0], e)
    BY HonestEdits
  <2>2. [k EXCEPT !.file[e].accessed = 0] = w
    BY DEF WithFile, Honestly, Formed
  <2> HIDE DEF w
  <2> QED BY <2>1, <2>2 DEF Edited
<1> HIDE DEF w
<1>2. Honestly(Unqueued(w, e))
  BY <1>1, HonestSteps
<1>3. Honestly(QueuedFirst(Unqueued(w, e), e))
  BY <1>2, HonestSteps
<1>4. Honestly(k1)
  BY <1>3
<1>5. CloseCached(k, e, min) \in {k1, DelEvent(k1, e), WithFile(k2, e, NoFile), k2}
  BY DEF CloseCached, w
<1> HIDE DEF k1
<1>6. Honestly(k2) /\ Honestly(DelEvent(k1, e))
  BY <1>4, HonestShut, HonestEvents DEF Edited
<1> HIDE DEF k2
<1>7. Honestly(WithFile(k2, e, NoFile))
  BY <1>6, HonestFree
<1> QED BY <1>4, <1>5, <1>6, <1>7

LEMMA HonestExpire ==
  ASSUME NEW k, Honestly(k), NEW rd, NEW l, Sound(k, rd, l, 0, 0), NEW force
  PROVE  Honestly(ExpireOne(k, force))
<1> DEFINE e == Last(k.queue)
           k1 == Untreed(Unqueued(k, e), e)
           m == [k1 EXCEPT !.file[e].close = TRUE]
<1>1. CASE k.queue = <<>>
  BY <1>1 DEF ExpireOne
<1>2. CASE k.queue # <<>>
  <2>1. k.queue \in Seq(Cached)
    BY CacheParts DEF Sound
  <2>2. e \in Cached
    BY <1>2, <2>1 DEF Last
  <2>3. ExpireOne(k, force) \in {k, CloseCached(m, e, 0), WithFile(k1, e, NoFile)}
    BY DEF ExpireOne
  <2> HIDE DEF e
  <2>4. Honestly(Unqueued(k, e))
    BY HonestSteps
  <2>5. Honestly(k1)
    BY <2>4, HonestSteps
  <2> HIDE DEF k1
  <2>6. Honestly(m) /\ Honestly(WithFile(k1, e, NoFile))
    BY <2>2, <2>5, HonestEdits, HonestFree DEF Edited
  <2> HIDE DEF m
  <2>7. Honestly(CloseCached(m, e, 0))
    BY <2>2, <2>6, HonestClose
  <2> QED BY <2>3, <2>6, <2>7
<1> QED BY <1>1, <1>2

LEMMA HonestRoom ==
  ASSUME NEW k, Honestly(k), NEW rd, NEW l, Sound(k, rd, l, 0, 0)
  PROVE  Honestly(ExpireInactive(k)) /\ Honestly(Room(k))
<1>1. ASSUME NEW j, Honestly(j), Sound(j, rd, l, 0, 0)
      PROVE  Honestly(ExpireInactive(j))
  <2> DEFINE a == ExpireOne(j, FALSE) b == ExpireOne(a, FALSE)
  <2>1. Sound(a, rd, l, 0, 0) /\ Honestly(a)
    <3>1. LET c == ExpireOne(j, FALSE) IN
          /\ Sound(c, rd, l, 0, 0) /\ Narrower(j, c)
          /\ FALSE /\ j.current >= 1 => c.current = j.current - 1
      BY <1>1, ExpireSound
    <3> QED BY <1>1, <3>1, HonestExpire
  <2> HIDE DEF a
  <2>2. Honestly(b)
    BY <2>1, HonestExpire
  <2> HIDE DEF b
  <2> QED BY <2>2 DEF ExpireInactive, a, b
<1> DEFINE a == ExpireOne(k, TRUE)
<1>2. Sound(a, rd, l, 0, 0) /\ Honestly(a)
  BY ExpireSound, HonestExpire
<1> HIDE DEF a
<1>3. Honestly(ExpireInactive(a))
  BY <1>1, <1>2
<1> HIDE DEF Honestly, Sound
<1> QED BY <1>1, <1>3 DEF Room, ExpireForced, a

\* A file that is opened or tested has the name that was asked for.
LEMMA StatName ==
  ASSUME NEW k, NEW n \in Names, NEW fd, NEW uniq, NEW o \in OpenAndStat(k, disk[n], fd, uniq)
  PROVE  o.kind = "file" => HasName(o.uniq)
BY DEF OpenAndStat, HasName

LEMMA HonestRefresh ==
  ASSUME NEW k, Honestly(k), NEW e \in Cached, NEW o, Arriving(o), o.kind = "file" => HasName(o.uniq)
  PROVE  Honestly(Refreshed(k, e, o)) /\ Refreshed(k, e, o).file[e].uniq = o.uniq
         /\ Refreshed(k, e, o).file[e].kind = o.kind
<1> DEFINE g == k.file[e]
           n == IF o.kind = "file" THEN g.count + 1 ELSE g.count
           f == [g EXCEPT !.fd = o.fd, !.kind = o.kind, !.uniq = o.uniq, !.count = n]
           h == [f EXCEPT !.created = 0, !.accessed = 0, !.close = FALSE]
           w == WithFile(k, e, h)
<1>1. Formed(k) /\ g \in EntryType /\ Honest(e, g)
  BY DEF Honestly, Formed
<1>2. g.count \in Int /\ (g.use_event => g.event)
  BY <1>1 DEF EntryType, Honest
<1>3. n \in Int
  BY <1>2
<1>4. Refreshed(k, e, o) = QueuedFirst(w, e)
  BY DEF Refreshed
<1> HIDE DEF n
<1>5. f \in EntryType /\ f.fd = o.fd /\ f.kind = o.kind /\ f.uniq = o.uniq /\ f.event = g.event /\ f.use_event = g.use_event
  BY <1>1, <1>3 DEF EntryType, Arriving
<1> HIDE DEF f
<1>6. h \in EntryType /\ h.fd = f.fd /\ h.kind = f.kind /\ h.uniq = f.uniq /\ h.event = f.event /\ h.use_event = f.use_event
  BY <1>5 DEF EntryType
<1> HIDE DEF h
<1>7. Honest(e, h)
  BY <1>2, <1>5, <1>6 DEF Honest, Arriving
<1>8. Honestly(w) /\ w.file[e] = h
  BY <1>6, <1>7, HonestWith
<1> HIDE DEF w
<1>9. Honestly(QueuedFirst(w, e)) /\ QueuedFirst(w, e).file = w.file
  BY <1>8, HonestSteps
<1> QED BY <1>4, <1>5, <1>6, <1>8, <1>9

LEMMA HonestFailed ==
  ASSUME NEW k, Honestly(k), NEW e \in Cached
  PROVE  Honestly(FailedEntry(k, e))
<1> DEFINE k1 == Untreed(k, e) c == FdClosed(k1, k.file[e].fd) m == [k1 EXCEPT !.file[e].close = TRUE]
<1>1. Honestly(k1)
  BY HonestSteps
<1>2. FailedEntry(k, e) \in {WithFile(c, e, NoFile), m}
  BY DEF FailedEntry
<1> HIDE DEF k1
<1>3. Honestly(c) /\ Honestly(m)
  BY <1>1, HonestSteps, HonestEdits DEF Edited
<1> HIDE DEF c, m
<1>4. Honestly(WithFile(c, e, NoFile))
  BY <1>3, HonestFree
<1> QED BY <1>2, <1>3, <1>4

LEMMA HonestUsed ==
  ASSUME Honestly(ofc), NEW e \in Cached
  PROVE  Honestly(UsedAgain(e)) /\ UsedAgain(e).file[e].uniq = ofc.file[e].uniq
         /\ UsedAgain(e).file[e].kind = ofc.file[e].kind
<1> DEFINE q == Unqueued(ofc, e)
           n == IF ofc.file[e].uses < fileConf.min_uses THEN ofc.file[e].uses + 1 ELSE ofc.file[e].uses
<1>1. Honestly(q) /\ q.file = ofc.file
  BY HonestSteps
<1>2. ofc.file[e] \in EntryType
  BY DEF Honestly, Formed
<1>3. ofc.file[e].uses \in Nat
  BY <1>2 DEF EntryType
<1>4. n \in Nat
  BY <1>3
<1> HIDE DEF q
<1>5. UsedAgain(e) = [q EXCEPT !.file[e].uses = n]
  BY <1>1 DEF UsedAgain, q
<1> HIDE DEF n
<1>6. Edited(q, [q EXCEPT !.file[e].uses = n], e)
  BY <1>1, <1>4, HonestEdits
<1> QED BY <1>1, <1>5, <1>6 DEF Edited

LEMMA HonestInsert ==
  ASSUME NEW k, Honestly(k), NEW o, Arriving(o), o.kind = "file" => HasName(o.uniq), NEW rd,
         Sound(k, rd, Loose(o), 0, 0), CanCreateEntry(k), NEW n \in Names
  PROVE  LET c == Inserted(k, n, o) IN
         Honestly(c.k) /\ c.k.file[c.e].uniq = o.uniq /\ c.k.file[c.e].kind = o.kind
<1> DEFINE k1 == Room(k)
           e == CHOOSE x \in Cached : k1.file[x] = NoFile
           k2 == Entered(k1, e, n)
           k3 == AddEvent(k2, e, o.fd)
           k4 == Refreshed(k3, e, o)
<1>1. Honestly(k1) /\ Narrower(k, k1)
  BY HonestRoom, RoomSound
<1>2. Inserted(k, n, o) = [k |-> k4, e |-> e]
  BY DEF Inserted, Room, Entered, Entry
<1> HIDE DEF k1
<1>3. \E x \in Cached : k1.file[x] = NoFile
  BY <1>1 DEF CanCreateEntry, Narrower
<1>4. e \in Cached
  BY <1>3
<1> HIDE DEF e
<1>5. Honestly(k2)
  <2> DEFINE f == Entry(n) w == WithFile(k1, e, f) t == w.tree \cup {e} i == w.current + 1
  <2>4. NoFile \in EntryType /\ NoFile.fd = NoFd /\ ~NoFile.use_event
    BY DEF NoFile, EntryType
  <2>5. f \in EntryType /\ f.fd = NoFile.fd /\ f.use_event = NoFile.use_event
    <3> HIDE DEF NoFile
    <3> QED BY <2>4 DEF Entry, EntryType
  <2>1. f \in EntryType /\ Honest(e, f)
    <3> HIDE DEF f, NoFile
    <3> QED BY <2>4, <2>5 DEF Honest
  <2> HIDE DEF f
  <2>2. Honestly(w)
    BY <1>1, <1>4, <2>1, HonestWith
  <2>3. k2 = [w EXCEPT !.tree = t, !.current = i]
    BY <1>1 DEF Entered, WithFile, Honestly, Formed, f
  <2> HIDE DEF w, t, i
  <2>6. /\ \A q : LET c == [w EXCEPT !.queue = q] IN Honestly(c) /\ c.file = w.file
        /\ \A t2, n2 : LET c == [w EXCEPT !.tree = t2, !.current = n2] IN Honestly(c) /\ c.file = w.file
        /\ \A d : LET c == [w EXCEPT !.fds = d] IN Honestly(c) /\ c.file = w.file
    BY <2>2, HonestBooks
  <2> DEFINE T(t2, n2) == [w EXCEPT !.tree = t2, !.current = n2]
  <2>7. (\A t2, n2 : Honestly(T(t2, n2))) /\ k2 = T(t, i)
    BY <2>3, <2>6
  <2> HIDE DEF Honestly, T
  <2> QED BY <2>7
<1> HIDE DEF k2
<1>6. Honestly(k3)
  BY <1>4, <1>5, HonestEvents DEF Edited
<1> HIDE DEF k3
<1>7. Honestly(k4) /\ k4.file[e].uniq = o.uniq /\ k4.file[e].kind = o.kind
  BY <1>4, <1>6, HonestRefresh
<1> HIDE DEF k4
<1> QED BY <1>2, <1>7

-----------------------------------------------------------------------------
(* What ngx_open_cached_file() gives a request *)

FreshInv == lost \in [Uniqs -> Nat] /\ (~broken /\ ~ofc.exited => Honestly(ofc))

\* a request that has a file now has one that is fresh
FreshFor(r) ==
  reading[r] = Nobody /\ reading'[r] # Nobody =>
     \/ HasName(reading'[r].uniq)
     \/ lost[reading'[r].uniq] < Valid
     \/ reading'[r].entry \in told
ServedNow == \A r \in Readers : FreshFor(r)

\* where the actions start from, and what they keep that do not touch the disk
Poised == Ready /\ Honestly(ofc) /\ lost \in [Uniqs -> Nat]
Stays == Honestly(ofc') /\ ServedNow /\ UNCHANGED <<disk, lost, told, broken>>

LEMMA HonestReturn ==
  ASSUME Poised, NEW r \in Readers, NEW e, NEW k, Honestly(k), ReturnEntry(r, k, e),
         k.file[e].kind = "file" =>
           HasName(k.file[e].uniq) \/ lost[k.file[e].uniq] < Valid \/ e \in told
  PROVE  Stays
<1>1. ofc' = k /\ UNCHANGED <<disk, lost, told, broken>>
  BY DEF ReturnEntry
<1>2. reading \in Reads
  BY DEF Poised, Ready, Sound
<1>3. reading' = [reading EXCEPT ![r] =
       IF k.file[e].kind = "file" THEN [entry |-> e, uniq |-> k.file[e].uniq] ELSE Nobody]
  BY DEF ReturnEntry
<1>4. \A x \in Readers \ {r} : reading'[x] = reading[x]
  BY <1>2, <1>3 DEF Reads
<1>5. reading'[r] = IF k.file[e].kind = "file" THEN [entry |-> e, uniq |-> k.file[e].uniq] ELSE Nobody
  BY <1>2, <1>3 DEF Reads
<1>6. FreshFor(r)
  <2>1. CASE k.file[e].kind = "file"
    <3>1. reading'[r].entry = e /\ reading'[r].uniq = k.file[e].uniq
      BY <1>5, <2>1
    <3> QED BY <2>1, <3>1 DEF FreshFor
  <2>2. CASE k.file[e].kind # "file"
    BY <1>5, <2>2 DEF FreshFor
  <2> QED BY <2>1, <2>2
<1>7. ServedNow
  BY <1>4, <1>6 DEF ServedNow, FreshFor
<1> HIDE DEF Honestly
<1> QED BY <1>1, <1>7 DEF Stays

LEMMA HonestError ==
  ASSUME Poised, NEW k, Honestly(k), ReturnError(k)
  PROVE  Stays
<1>1. ofc' = k /\ UNCHANGED <<disk, reading, lost, told, broken>>
  BY DEF ReturnError
<1>2. ServedNow
  BY <1>1 DEF ServedNow, FreshFor
<1> HIDE DEF Honestly
<1> QED BY <1>1, <1>2 DEF Stays

LEMMA HonestFound ==
  ASSUME Poised, NEW r \in Readers, NEW e \in Cached, NEW k, Honestly(k), NEW o, Arriving(o),
         o.kind = "file" => HasName(o.uniq), ReturnEntry(r, Refreshed(k, e, o), e)
  PROVE  Stays
<1> DEFINE c == Refreshed(k, e, o)
<1>1. Honestly(c) /\ c.file[e].uniq = o.uniq /\ c.file[e].kind = o.kind
  BY HonestRefresh
<1>2. ReturnEntry(r, c, e)
  OBVIOUS
<1> HIDE DEF c, Poised, Honestly
<1>3. c.file[e].kind = "file" =>
        HasName(c.file[e].uniq) \/ lost[c.file[e].uniq] < Valid \/ e \in told
  BY <1>1
<1> QED BY <1>1, <1>2, <1>3, HonestReturn

LEMMA HonestCreate ==
  ASSUME Poised, NEW r \in Readers, NEW n \in Names, NEW k, Honestly(k), NEW o, Arriving(o),
         o.kind = "file" => HasName(o.uniq), Sound(k, reading, Loose(o), 0, 0), CanCreateEntry(k),
         CreateEntry(r, n, k, o)
  PROVE  Stays
<1> DEFINE c == Inserted(k, n, o)
<1>1. CASE ReturnEntry(r, c.k, c.e)
  <2>1. Honestly(c.k) /\ c.k.file[c.e].uniq = o.uniq /\ c.k.file[c.e].kind = o.kind
    BY HonestInsert
  <2> HIDE DEF c, Poised, Honestly
  <2>2. c.k.file[c.e].kind = "file" =>
          HasName(c.k.file[c.e].uniq) \/ lost[c.k.file[c.e].uniq] < Valid \/ c.e \in told
    BY <2>1
  <2> QED BY <1>1, <2>1, <2>2, HonestReturn
<1>2. CASE ReturnError(FdClosed(Room(k), o.fd))
  <2>1. Honestly(Room(k))
    BY HonestRoom
  <2>2. Honestly(FdClosed(Room(k), o.fd))
    BY <2>1, HonestSteps
  <2> HIDE DEF Poised, Honestly
  <2> QED BY <1>2, <2>2, HonestError
<1> QED BY <1>1, <1>2 DEF CreateEntry, Room

LEMMA MissedHonest ==
  ASSUME Poised, NEW r \in Readers, NEW n \in Names, OpenMissed(r, n)
  PROVE  Stays
<1>1. reading[r] = Nobody /\ CachedAs(n) = {} /\ CanCreateEntry(ofc) /\ Ready /\ Honestly(ofc)
  BY DEF OpenMissed, Poised
<1>2. PICK o \in OpenAndStat(ofc, disk[n], NoFd, 0) :
        IF GivesUp(o) THEN ReturnError(o.k) ELSE CreateEntry(r, n, o.k, o)
  BY DEF OpenMissed
<1>3. Missing(o, ofc) \/ Fresh(o, ofc, reading, 0)
  <2>1. \/ Missing(o, ofc) \/ Same(o, ofc, NoFd, 0)
        \/ Fresh(o, ofc, reading, 0) /\ (NoFd # NoFd => o.uniq # 0)
    BY <1>1, StatSound DEF Ready
  <2> QED BY <2>1 DEF Same
<1>4. o.kind = "file" => HasName(o.uniq)
  BY StatName
<1> HIDE DEF Poised, Honestly
<1>5. CASE GivesUp(o)
  <2>1. o.k = ofc
    BY <1>3, <1>5, GivenUp
  <2> QED BY <1>1, <1>2, <1>5, <2>1, HonestError
<1>6. CASE ~GivesUp(o)
  <2>1. Arriving(o) /\ Sound(o.k, reading, Loose(o), 0, 0) /\ o.k.file = ofc.file /\ o.k.tree = ofc.tree
    BY <1>1, <1>3, <1>6, Arrives DEF Ready
  <2>2. CanCreateEntry(o.k)
    BY <1>1, <2>1 DEF CanCreateEntry
  <2>3. Honestly(o.k)
    BY <1>1, <2>1, FormedCache DEF Honestly, Sound
  <2> QED BY <1>2, <1>4, <1>6, <2>1, <2>2, <2>3, HonestCreate
<1> QED BY <1>5, <1>6

LEMMA DormantHonest ==
  ASSUME Poised, NEW r \in Readers, NEW n \in Names, OpenDormant(r, n)
  PROVE  Stays
<1>1. Ready /\ Honestly(ofc) /\ ofc.tree \in SUBSET Cached
  BY CacheParts DEF Poised, Ready, Sound
<1>2. PICK e \in CachedAs(n) :
        /\ Dormant(ofc.file[e])
        /\ \E o \in OpenAndStat(UsedAgain(e), disk[n], NoFd, 0) :
             IF GivesUp(o) THEN ReturnError(FailedEntry(o.k, e))
             ELSE ReturnEntry(r, Refreshed(AddEvent(o.k, e, o.fd), e, o), e)
  BY DEF OpenDormant
<1> DEFINE u == UsedAgain(e)
<1>3. PICK o \in OpenAndStat(u, disk[n], NoFd, 0) :
        IF GivesUp(o) THEN ReturnError(FailedEntry(o.k, e))
        ELSE ReturnEntry(r, Refreshed(AddEvent(o.k, e, o.fd), e, o), e)
  BY <1>2
<1>4. e \in ofc.tree /\ e \in Cached
  BY <1>1, <1>2 DEF CachedAs
<1>5. Sound(u, reading, Unopened, e, 0)
  BY <1>1, <1>4, UsedAgainSound DEF Ready
<1>6. Honestly(u)
  BY <1>1, <1>4, HonestUsed
<1>7. o.kind = "file" => HasName(o.uniq)
  BY StatName
<1> HIDE DEF u, Poised, Honestly
<1>8. Missing(o, u) \/ Fresh(o, u, reading, e)
  <2>1. \/ Missing(o, u) \/ Same(o, u, NoFd, 0)
        \/ Fresh(o, u, reading, e) /\ (NoFd # NoFd => o.uniq # 0)
    BY <1>1, <1>5, StatSound DEF Ready
  <2> QED BY <2>1 DEF Same
<1>9. CASE GivesUp(o)
  <2>1. o.k = u
    BY <1>8, <1>9, GivenUp
  <2>2. Honestly(FailedEntry(u, e))
    BY <1>4, <1>6, HonestFailed
  <2> QED BY <1>3, <1>9, <2>1, <2>2, HonestError
<1>10. CASE ~GivesUp(o)
  <2>1. Arriving(o) /\ Sound(o.k, reading, Loose(o), e, 0) /\ o.k.file = u.file /\ o.k.tree = u.tree
    BY <1>5, <1>8, <1>10, Arrives
  <2>2. Honestly(o.k)
    BY <1>6, <2>1, FormedCache DEF Honestly, Sound
  <2>3. Honestly(AddEvent(o.k, e, o.fd))
    BY <1>4, <2>2, HonestEvents DEF Edited
  <2> QED BY <1>3, <1>4, <1>7, <1>10, <2>1, <2>3, HonestFound
<1> QED BY <1>9, <1>10

\* An entry that is trusted is fresh.
LEMMA TrustedFresh ==
  ASSUME Poised, NEW e \in Cached, Trusted(ofc.file[e]), ofc.file[e].fd # NoFd, ofc.file[e].uniq \in Uniqs
  PROVE  HasName(ofc.file[e].uniq) \/ lost[ofc.file[e].uniq] < Valid \/ e \in told
<1> DEFINE g == ofc.file[e] u == g.uniq
<1>1. Honest(e, g) /\ g.created \in Nat /\ lost[u] \in Nat /\ Valid \in Nat
  <2>1. Honest(e, g) /\ g \in EntryType
    BY DEF Poised, Honestly, Formed
  <2>2. lost[u] \in Nat
    BY DEF Poised
  <2> QED BY <2>1, <2>2, Constants DEF EntryType
<1>2. CASE g.use_event
  BY <1>1, <1>2 DEF Honest
<1>3. CASE g.created < Valid
  <2>1. HasName(u) \/ lost[u] <= g.created
    BY <1>1 DEF Honest
  <2> HIDE DEF g, u
  <2>2. HasName(u) \/ lost[u] < Valid
    BY <1>1, <1>3, <2>1
  <2> QED BY <2>2 DEF g, u
<1> QED BY <1>2, <1>3 DEF Trusted

LEMMA HitHonest ==
  ASSUME Poised, NEW r \in Readers, NEW n \in Names, OpenHit(r, n)
  PROVE  Stays
<1>1. Ready /\ Honestly(ofc) /\ ofc \in Caches /\ ofc.tree \in SUBSET Cached
  BY CacheParts DEF Poised, Ready, Sound
<1> DEFINE K(e) == QueuedFirst([UsedAgain(e) EXCEPT !.file[e].accessed = 0], e)
<1>2. PICK e \in CachedAs(n) :
        /\ ~Dormant(ofc.file[e]) /\ Trusted(ofc.file[e])
        /\ IF ofc.file[e].kind = "file"
           THEN ReturnEntry(r, AddEvent([K(e) EXCEPT !.file[e].count = @ + 1], e, ofc.file[e].fd), e)
           ELSE ReturnEntry(r, K(e), e)
  BY DEF OpenHit
<1> DEFINE u == UsedAgain(e) w == [u EXCEPT !.file[e].accessed = 0] k == QueuedFirst(w, e)
           m == [k EXCEPT !.file[e].count = @ + 1] a == AddEvent(m, e, ofc.file[e].fd)
<1>3. e \in Cached
  BY <1>1, <1>2 DEF CachedAs
<1>4. Honestly(u) /\ u.file[e].uniq = ofc.file[e].uniq /\ u.file[e].kind = ofc.file[e].kind
  BY <1>1, <1>3, HonestUsed
<1>5. IF ofc.file[e].kind = "file" THEN ReturnEntry(r, a, e) ELSE ReturnEntry(r, k, e)
  BY <1>2
<1> HIDE DEF u
<1>6. Edited(u, w, e)
  BY <1>3, <1>4, HonestEdits
<1> HIDE DEF w
<1>7. Honestly(k) /\ k.file = w.file
  BY <1>6, HonestSteps DEF Edited
<1> HIDE DEF k
<1>8. Edited(k, m, e)
  BY <1>3, <1>7, HonestEdits
<1> HIDE DEF m
<1>9. Edited(m, a, e)
  BY <1>3, <1>8, HonestEvents DEF Edited
<1> HIDE DEF a, Poised
<1>10. /\ Honestly(k) /\ k.file[e].kind = ofc.file[e].kind
       /\ Honestly(a) /\ a.file[e].kind = ofc.file[e].kind /\ a.file[e].uniq = ofc.file[e].uniq
  BY <1>4, <1>6, <1>7, <1>8, <1>9 DEF Edited
<1>11. CASE ofc.file[e].kind = "file"
  <2>1. ofc.file[e].fd # NoFd
    BY <1>2, <1>11 DEF Dormant
  <2>2. ofc.file[e].uniq \in Uniqs
    BY <1>1, <1>3, <2>1 DEF Ready, Sound, Data, Fitting
  <2>3. HasName(a.file[e].uniq) \/ lost[a.file[e].uniq] < Valid \/ e \in told
    BY <1>2, <1>3, <1>10, <2>1, <2>2, TrustedFresh
  <2> HIDE DEF Honestly
  <2> QED BY <1>5, <1>10, <1>11, <2>3, HonestReturn
<1>12. CASE ofc.file[e].kind # "file"
  <2> HIDE DEF Honestly
  <2> QED BY <1>5, <1>10, <1>12, HonestReturn
<1> QED BY <1>11, <1>12

\* The file that is tested again is another one, and the entry is in use: it leaves the cache.
LEMMA ReplacedHonest ==
  ASSUME Poised, NEW r \in Readers, reading[r] = Nobody, NEW n \in Names, CanCreateEntry(ofc), NEW e \in CachedAs(n),
         NEW o, Arriving(o), Sound(o.k, reading, Loose(o), e, 0), o.k.file = UsedAgain(e).file, o.k.tree = ofc.tree,
         Honestly(o.k), o.kind = "file" => HasName(o.uniq), ofc.file[e].count # 0,
         CreateEntry(r, n, [Untreed(o.k, e) EXCEPT !.file[e].close = TRUE], o)
  PROVE  Stays
<1> DEFINE k == o.k u == Untreed(k, e) s == [u EXCEPT !.file[e].close = TRUE]
<1>1. ofc \in Caches /\ ofc.tree \in SUBSET Cached /\ k \in Caches /\ k.file \in Files /\ k.tree \in SUBSET Cached /\ Ready
      /\ k.current \in Int
  <2>1. ofc \in Caches /\ k \in Caches /\ Ready
    BY DEF Poised, Ready, Sound
  <2> QED BY <2>1, CacheParts
<1>2. e \in ofc.tree /\ e \in Cached
  BY <1>1 DEF CachedAs
<1>3. k.file[e].count = ofc.file[e].count /\ \A x \in Cached \ {e} : k.file[x] = ofc.file[x]
  BY <1>1, <1>2, UsedAgainSound DEF Ready
<1>4. ofc.file[e] # NoFile /\ k.file[e] \in FileType
  BY <1>1, <1>2, Allocates DEF Ready, Files
<1>5. Honestly(u) /\ u.file = k.file
  BY HonestSteps
<1> DEFINE g == k.file[e] z == LeftCache(k, e, g.event, g.use_event)
<1>6. s = z
  <2>1. u \in Caches
    <3> DEFINE t == k.tree \ {e} c == k.current - 1
    <3>1. t \in SUBSET Cached /\ c \in Int
      BY <1>1
    <3>2. u = [k EXCEPT !.tree = t, !.current = c]
      BY <1>1 DEF Untreed, Caches
    <3> HIDE DEF t, c, u, k
    <3> QED BY <1>1, <3>1, <3>2 DEF Caches
  <2>2. s = WithFile(u, e, Leaving(u.file[e], u.file[e].event, u.file[e].use_event))
    <3> HIDE DEF u
    <3> QED BY <1>2, <2>1, Closing
  <2> HIDE DEF u
  <2> QED BY <1>5, <2>2 DEF LeftCache, u
<1> HIDE DEF u
<1>7. Honestly(s)
  BY <1>2, <1>5, HonestEdits DEF Edited
<1>8. g.event \in BOOLEAN /\ g.use_event \in BOOLEAN /\ g.count \in Nat
  BY <1>4 DEF FileType
<1> HIDE DEF s, k
<1>9. LET f2 == Leaving(k.file[e], g.event, g.use_event)
          s2 == LeftCache(k, e, g.event, g.use_event)
      IN  /\ Sound(s2, reading, Loose(o), 0, e) /\ s2.file[e] = f2 /\ f2 \in FileType /\ f2 # NoFile
          /\ f2.count = k.file[e].count /\ f2.fd = k.file[e].fd /\ f2.close /\ f2.uses >= 1
          /\ e \in k.tree /\ s2.tree = k.tree \ {e} /\ s2.current = k.current - 1 /\ s2.queue = k.queue
          /\ \A x \in Cached \ {e} : s2.file[x] = k.file[x]
  <2>1. Sound(k, reading, Loose(o), e, 0)
    BY DEF k
  <2> QED BY <1>2, <1>8, <2>1, LeaveSound
<1>10. Sound(z, reading, Loose(o), 0, e) /\ z.file[e].count > 0 /\ z.file[e] # NoFile
       /\ \A x \in Cached \ {e} : z.file[x] = ofc.file[x]
  <2>1. Sound(z, reading, Loose(o), 0, e) /\ z.file[e].count = g.count /\ z.file[e] # NoFile
        /\ \A x \in Cached \ {e} : z.file[x] = k.file[x]
    <3> HIDE DEF z
    <3> QED BY <1>9 DEF z
  <2> HIDE DEF z
  <2> QED BY <1>3, <1>8, <2>1
<1> HIDE DEF z, g
<1>11. Sound(s, reading, Loose(o), 0, 0)
  BY <1>2, <1>6, <1>10, UsedSound
<1>12. CanCreateEntry(s)
  BY <1>4, <1>6, <1>10 DEF CanCreateEntry
<1>13. CreateEntry(r, n, s, o)
  BY DEF s, u, k
<1> HIDE DEF Poised, Honestly
<1> QED BY <1>7, <1>11, <1>12, <1>13, HonestCreate

LEMMA RetestHonest ==
  ASSUME Poised, NEW r \in Readers, NEW n \in Names, NEW other \in BOOLEAN, OpenRetest(r, n, other)
  PROVE  Stays
<1>1. reading[r] = Nobody /\ CanCreateEntry(ofc) /\ ofc.tree \in SUBSET Cached /\ Ready /\ Honestly(ofc)
  BY CacheParts DEF OpenRetest, Poised, Ready, Sound
<1>2. PICK e \in CachedAs(n) :
       LET f == ofc.file[e] IN
       /\ ~Dormant(f)
       /\ \E o \in OpenAndStat(UsedAgain(e), disk[n], f.fd, f.uniq) :
            \/ GivesUp(o) /\ ReturnError(FailedEntry(o.k, e))
            \/ /\ ~GivesUp(o) /\ f.kind # "file"
               /\ ReturnEntry(r, Refreshed(IF o.kind = "file" THEN AddEvent(o.k, e, o.fd) ELSE o.k, e, o), e)
            \/ /\ ~GivesUp(o) /\ f.kind = "file" /\ o.kind = "file" /\ o.uniq = f.uniq
               /\ ReturnEntry(r, Refreshed([o.k EXCEPT !.file[e].use_event = f.event], e, o), e)
            \/ /\ ~GivesUp(o) /\ f.kind = "file" /\ (o.kind # "file" \/ o.uniq # f.uniq)
               /\ IF f.count = 0
                  THEN ReturnEntry(r, Refreshed(AddEvent(Shut(o.k, e), e, o.fd), e, o), e)
                  ELSE CreateEntry(r, n, [Untreed(o.k, e) EXCEPT !.file[e].close = TRUE], o)
  BY DEF OpenRetest
<1> DEFINE u == UsedAgain(e) f == ofc.file[e]
<1>3. PICK o \in OpenAndStat(u, disk[n], f.fd, f.uniq) :
        \/ GivesUp(o) /\ ReturnError(FailedEntry(o.k, e))
        \/ /\ ~GivesUp(o) /\ f.kind # "file"
           /\ ReturnEntry(r, Refreshed(IF o.kind = "file" THEN AddEvent(o.k, e, o.fd) ELSE o.k, e, o), e)
        \/ /\ ~GivesUp(o) /\ f.kind = "file" /\ o.kind = "file" /\ o.uniq = f.uniq
           /\ ReturnEntry(r, Refreshed([o.k EXCEPT !.file[e].use_event = f.event], e, o), e)
        \/ /\ ~GivesUp(o) /\ f.kind = "file" /\ (o.kind # "file" \/ o.uniq # f.uniq)
           /\ IF f.count = 0
              THEN ReturnEntry(r, Refreshed(AddEvent(Shut(o.k, e), e, o.fd), e, o), e)
              ELSE CreateEntry(r, n, [Untreed(o.k, e) EXCEPT !.file[e].close = TRUE], o)
  BY <1>2
<1>4. e \in ofc.tree /\ e \in Cached
  BY <1>1 DEF CachedAs
<1>5. /\ Sound(u, reading, Unopened, e, 0) /\ u.tree = ofc.tree /\ u.file[e].fd = f.fd /\ u.file[e].uniq = f.uniq
      /\ u.file[e].kind = f.kind /\ u.file[e].event = f.event
  BY <1>1, <1>4, UsedAgainSound DEF Ready
<1>6. Honestly(u)
  BY <1>1, <1>4, HonestUsed
<1>7. f.kind # "file" => f.fd = NoFd
  BY <1>1, <1>4 DEF Ready, Sound, Data, Fitting
<1>8. f.kind = "file" => f.fd # NoFd
  BY <1>2 DEF Dormant
<1>9. f.event \in BOOLEAN /\ f.fd \in FileDescs \cup {NoFd} /\ f.uniq \in Uniqs \cup {0}
  <2>1. f \in FileType
    BY <1>1, <1>4, Allocates DEF Ready
  <2> QED BY <2>1 DEF FileType
<1>10. o.kind = "file" => HasName(o.uniq)
  BY StatName
<1> HIDE DEF u, f, Poised, Honestly
<1>11. \/ Missing(o, u) \/ Same(o, u, f.fd, f.uniq)
       \/ Fresh(o, u, reading, e) /\ (f.fd # NoFd => o.uniq # f.uniq)
  BY <1>1, <1>5, StatSound DEF Ready
<1>12. CASE GivesUp(o)
  <2>1. o.k = u
    BY <1>11, <1>12, GivenUp
  <2>2. Honestly(FailedEntry(u, e))
    BY <1>4, <1>6, HonestFailed
  <2>3. ReturnError(FailedEntry(u, e))
    BY <1>3, <1>12, <2>1
  <2> QED BY <2>2, <2>3, HonestError
<1>13. ASSUME ~GivesUp(o), Missing(o, u) \/ Fresh(o, u, reading, e)
       PROVE  Arriving(o) /\ Sound(o.k, reading, Loose(o), e, 0) /\ o.k.file = u.file /\ o.k.tree = u.tree /\ Honestly(o.k)
  <2>1. Arriving(o) /\ Sound(o.k, reading, Loose(o), e, 0) /\ o.k.file = u.file /\ o.k.tree = u.tree
    BY <1>5, <1>13, Arrives
  <2>2. Honestly(o.k)
    BY <1>6, <2>1, FormedCache DEF Honestly, Sound
  <2> QED BY <2>1, <2>2
<1>14. CASE ~GivesUp(o) /\ f.kind # "file"
  <2>1. Missing(o, u) \/ Fresh(o, u, reading, e)
    BY <1>7, <1>11, <1>14 DEF Same
  <2>2. Arriving(o) /\ Honestly(o.k)
    BY <1>13, <1>14, <2>1
  <2> DEFINE k == IF o.kind = "file" THEN AddEvent(o.k, e, o.fd) ELSE o.k
  <2>3. Honestly(k)
    BY <1>4, <2>2, HonestEvents DEF Edited
  <2>4. ReturnEntry(r, Refreshed(k, e, o), e)
    BY <1>3, <1>14
  <2> HIDE DEF k
  <2> QED BY <1>4, <1>10, <2>2, <2>3, <2>4, HonestFound
<1>15. CASE ~GivesUp(o) /\ f.kind = "file" /\ o.kind = "file" /\ o.uniq = f.uniq
  <2>1. o.k = u /\ o.fd = f.fd /\ f.fd # NoFd
    BY <1>8, <1>11, <1>15 DEF Missing, Same
  <2> DEFINE m == [u EXCEPT !.file[e].use_event = f.event]
  <2>2. HasName(u.file[e].uniq)
    BY <1>5, <1>10, <1>15
  <2>3. Edited(u, m, e)
    BY <1>4, <1>5, <1>6, <1>9, <2>2, HonestEdits
  <2>4. Arriving(o)
    BY <1>9, <1>15, <2>1 DEF Arriving
  <2>5. ReturnEntry(r, Refreshed(m, e, o), e)
    BY <1>3, <1>15, <2>1
  <2> HIDE DEF m
  <2> QED BY <1>4, <1>10, <2>3, <2>4, <2>5, HonestFound DEF Edited
<1>16. CASE ~GivesUp(o) /\ f.kind = "file" /\ (o.kind # "file" \/ o.uniq # f.uniq)
  <2>1. Missing(o, u) \/ Fresh(o, u, reading, e)
    BY <1>11, <1>16 DEF Same
  <2>2. Arriving(o) /\ Sound(o.k, reading, Loose(o), e, 0) /\ o.k.file = u.file /\ o.k.tree = u.tree /\ Honestly(o.k)
    BY <1>13, <1>16, <2>1
  <2>3. CASE f.count = 0
    <3> DEFINE s == Shut(o.k, e) k == AddEvent(s, e, o.fd)
    <3>1. Honestly(s)
      BY <1>4, <2>2, HonestShut
    <3>2. ReturnEntry(r, Refreshed(k, e, o), e)
      BY <1>3, <1>16, <2>3
    <3> HIDE DEF s
    <3>3. Honestly(k)
      BY <1>4, <3>1, HonestEvents DEF Edited
    <3> HIDE DEF k
    <3> QED BY <1>4, <1>10, <2>2, <3>2, <3>3, HonestFound
  <2>4. CASE f.count # 0
    <3>1. CreateEntry(r, n, [Untreed(o.k, e) EXCEPT !.file[e].close = TRUE], o)
      BY <1>3, <1>16, <2>4
    <3> QED BY <1>1, <1>5, <1>10, <2>2, <2>4, <3>1, ReplacedHonest DEF u, f
  <2> QED BY <2>3, <2>4
<1> QED BY <1>3, <1>12, <1>14, <1>15, <1>16

-----------------------------------------------------------------------------
(* Requests that end, events of the kernel, the disk and time *)

LEMMA CloseHonest ==
  ASSUME Poised, NEW r \in Readers, CloseFile(r)
  PROVE  Stays
<1> DEFINE e == reading[r].entry
           m == [ofc EXCEPT !.file[e].count = @ - 1]
           rd2 == [reading EXCEPT ![r] = Nobody]
           odd == IF e \in ofc.tree THEN 0 ELSE e
           c == CloseCached(m, e, fileConf.min_uses)
<1>1. reading[r] # Nobody /\ ofc' = ExpireInactive(c) /\ reading' = rd2 /\ UNCHANGED <<disk, lost, told, broken>>
  BY DEF CloseFile
<1>2. e \in Cached /\ m.file[e] # NoFile /\ m.tree = ofc.tree /\ Sound(m, rd2, Unopened, 0, odd)
  BY <1>1, LessSound DEF Poised, Ready
<1>3. ServedNow
  <2>1. reading \in Reads
    BY DEF Poised, Ready, Sound
  <2>2. \A x \in Readers : reading'[x] = Nobody \/ reading'[x] = reading[x]
    BY <1>1, <2>1 DEF Reads
  <2> QED BY <2>2 DEF ServedNow, FreshFor
<1> HIDE DEF e
<1>4. Honestly(m)
  BY <1>2, HonestEdits DEF Poised, Edited
<1> HIDE DEF m, rd2
<1>5. (e \in m.tree /\ odd = 0) \/ (e \notin m.tree /\ odd = e)
  BY <1>2
<1> HIDE DEF odd
<1>6. Sound(c, rd2, Unopened, 0, 0)
  BY <1>2, <1>5, CloseSound
<1>7. Honestly(c)
  BY <1>2, <1>4, HonestClose
<1> HIDE DEF c
<1>8. Honestly(ExpireInactive(c))
  BY <1>6, <1>7, HonestRoom
<1> HIDE DEF Honestly
<1> QED BY <1>1, <1>3, <1>8 DEF Stays

\* The event of an entry is over: nobody relies on it.
LEMMA VnodeHonest ==
  ASSUME Poised, NEW e \in Cached, VnodeEvent(e), ~broken'
  PROVE  Honestly(ofc)' /\ ServedNow /\ lost' = lost
<1>1. UNCHANGED <<disk, reading, lost>> /\ told' = told \ {e} /\ Honestly(ofc)
  BY DEF VnodeEvent, Poised
<1>2. ServedNow
  BY <1>1 DEF ServedNow, FreshFor
<1>3. ASSUME Honestly(ofc'), ~ofc'.file[e].use_event PROVE Honestly(ofc)'
  <2>1. Formed(ofc') /\ \A x \in Cached : Honest(x, ofc'.file[x])
    BY <1>3 DEF Honestly
  <2> HIDE DEF Formed
  <2> QED BY <1>1, <1>3, <2>1 DEF Honestly, Honest, HasName
<1> DEFINE q == Unqueued(ofc, e) k == Untreed(q, e)
           d == DelEvent(k, e)
           z == [d EXCEPT !.file[e].close = TRUE]
           c == CloseCached(z, e, 0)
<1>4. CASE ofc' = c
  <2>1. Honestly(q)
    BY <1>1, HonestSteps
  <2> HIDE DEF q
  <2>2. Honestly(k)
    BY <2>1, HonestSteps
  <2> HIDE DEF k
  <2>3. Honestly(d)
    BY <2>2, HonestEvents DEF Edited
  <2> HIDE DEF d
  <2>4. Honestly(z)
    BY <2>3, HonestEdits DEF Edited
  <2>5. z.file[e].close = TRUE
    <3>1. d.file \in [Cached -> EntryType] /\ d.file[e] \in EntryType /\ Formed(d)
      BY <2>3 DEF Honestly, Formed
    <3> DEFINE f == [d.file[e] EXCEPT !.close = TRUE] g == [d.file EXCEPT ![e] = f]
    <3>2. f.close = TRUE /\ g[e] = f
      BY <3>1 DEF EntryType
    <3>3. z = [d EXCEPT !.file = g]
      BY <3>1 DEF Formed
    <3> HIDE DEF f, g, z
    <3>4. z.file = g
      BY <3>1, <3>3 DEF Formed
    <3> QED BY <3>2, <3>4
  <2> HIDE DEF z
  <2> DEFINE s == Shut(z, e) w == WithFile(s, e, NoFile) y == DelEvent(z, e)
  <2>6. c \in {y, w}
    BY <2>5 DEF CloseCached
  <2>7. Honestly(s) /\ Honestly(y)
    BY <2>4, HonestShut, HonestEvents DEF Edited
  <2>8. ~y.file[e].use_event
    <3>1. z.file \in [Cached -> EntryType] /\ z.file[e] \in EntryType /\ Formed(z)
      BY <2>4 DEF Honestly, Formed
    <3> DEFINE f == [z.file[e] EXCEPT !.event = FALSE] g == [z.file EXCEPT ![e] = f] m == [z EXCEPT !.file = g]
               h == [g EXCEPT ![e].use_event = FALSE]
    <3>2. f \in EntryType /\ g[e] = f /\ g \in [Cached -> EntryType]
      BY <3>1 DEF EntryType
    <3> HIDE DEF f
    <3>3. h[e].use_event = FALSE
      <4> HIDE DEF g
      <4> QED BY <3>2 DEF EntryType
    <3>4. [z EXCEPT !.file[e].event = FALSE] = m
      BY <3>1 DEF Formed, f
    <3> HIDE DEF g
    <3>5. m.file = g
      BY <3>1 DEF Formed
    <3>6. y = [m EXCEPT !.file[e].use_event = FALSE]
      BY <3>4 DEF DelEvent
    <3>7. y.file = h
      <4> HIDE DEF y, h
      <4>1. [m EXCEPT !.file[e].use_event = FALSE].file = [m.file EXCEPT ![e].use_event = FALSE]
        BY <3>1 DEF Formed
      <4> QED BY <3>5, <3>6, <4>1 DEF h
    <3> HIDE DEF y, h
    <3> QED BY <3>3, <3>7
  <2> HIDE DEF s, y
  <2>9. NoFile \in EntryType /\ Honest(e, NoFile) /\ ~NoFile.use_event
    BY DEF NoFile, EntryType, Honest
  <2>10. Honestly(w) /\ w.file[e] = NoFile
    BY <2>7, <2>9, HonestWith
  <2> HIDE DEF w, c, NoFile
  <2>11. Honestly(c) /\ ~c.file[e].use_event
    BY <2>6, <2>7, <2>8, <2>9, <2>10
  <2> HIDE DEF Honestly
  <2>12. Honestly(ofc') /\ ~ofc'.file[e].use_event
    BY <1>4, <2>11
  <2> QED BY <1>1, <1>2, <1>3, <2>12
<1>5. CASE ofc' = ofc /\ ~ofc.file[e].event
  <2>1. Honest(e, ofc.file[e]) /\ ofc.file[e] \in EntryType
    BY <1>1 DEF Honestly, Formed
  <2>2. ~ofc.file[e].use_event
    BY <1>5, <2>1 DEF Honest, EntryType
  <2> HIDE DEF Honestly
  <2>3. Honestly(ofc') /\ ~ofc'.file[e].use_event
    BY <1>1, <1>5, <2>2
  <2> QED BY <1>1, <1>2, <1>3, <2>3
<1>6. ofc' = c \/ (ofc' = ofc /\ ~ofc.file[e].event)
  BY DEF VnodeEvent
<1> QED BY <1>1, <1>2, <1>4, <1>5, <1>6

\* What the disk's changes do to the files of the entries.
LEMMA DiskHonest ==
  ASSUME FilesInv, FreshInv, ~broken, ~ofc.exited, NEW n \in Names, ChangeDisk(n)
  PROVE  FreshInv' /\ ServedNow
<1>1. PICK is \in {Gone, [kind |-> "dir", uniq |-> 0]} \cup [kind : {"file"}, uniq : Uniqs] :
        /\ disk' = [disk EXCEPT ![n] = is]
        /\ lost' = [u \in Uniqs |-> IF u \in {is.uniq, disk[n].uniq} THEN 0 ELSE lost[u]]
        /\ told' = told \cup {e \in Cached : ofc.file[e].event /\ ofc.file[e].uniq = disk[n].uniq}
        /\ UNCHANGED <<fileConf, ofc, reading, broken>>
  BY DEF ChangeDisk
<1>2. disk'[n] = is /\ \A m \in Names \ {n} : disk'[m] = disk[m]
  BY <1>1 DEF FilesInv, Disks
<1>3. Formed(ofc) /\ \A e \in Cached : Honest(e, ofc.file[e]) /\ ofc.file[e] \in EntryType
  BY DEF FreshInv, Honestly, Formed
<1>4. lost \in [Uniqs -> Nat] /\ lost' \in [Uniqs -> Nat]
  BY <1>1 DEF FreshInv
<1>5. ASSUME NEW e \in Cached PROVE Honest(e, ofc.file[e])'
  <2> DEFINE f == ofc.file[e] u == f.uniq Has == \E m \in Names : disk'[m].uniq = u
  <2>1. f' = f /\ Honest(e, f) /\ f.created \in Nat
    BY <1>1, <1>3 DEF EntryType
  <2>2. f.fd # NoFd => u \in Uniqs
    BY DEF FilesInv, Sound, Data, Fitting
  <2>3. HasName(u) /\ ~Has => disk[n].uniq = u
    BY <1>2 DEF HasName
  <2>4. ASSUME f.fd # NoFd PROVE Has \/ lost'[u] <= f.created
    <3>1. CASE u \in {is.uniq, disk[n].uniq}
      <4>1. lost'[u] = 0
        BY <1>1, <2>2, <2>4, <3>1
      <4> HIDE DEF f, u
      <4> QED BY <2>1, <4>1
    <3>2. CASE u \notin {is.uniq, disk[n].uniq}
      <4>1. lost'[u] = lost[u]
        BY <1>1, <2>2, <2>4, <3>2
      <4> QED BY <2>1, <2>3, <2>4, <3>2, <4>1 DEF Honest
    <3> QED BY <3>1, <3>2
  <2>5. ASSUME f.fd # NoFd, f.use_event PROVE Has \/ e \in told'
    <3>1. f.event /\ (HasName(u) \/ e \in told)
      BY <2>1, <2>5 DEF Honest
    <3> QED BY <1>1, <2>3, <3>1
  <2>6. f.use_event => f.event
    BY <2>1 DEF Honest
  <2> QED BY <1>1, <2>4, <2>5, <2>6 DEF Honest, HasName
<1>6. Formed(ofc)'
  BY <1>1, <1>3
<1>7. ServedNow
  BY <1>1 DEF ServedNow, FreshFor
<1> QED BY <1>4, <1>5, <1>6, <1>7 DEF FreshInv, Honestly

LEMMA OlderAges ==
  ASSUME NEW a \in Nat, NEW b \in Nat, NEW max \in Nat
  PROVE  Older(a, max) \in Nat /\ (a <= b => Older(a, max) <= Older(b, max))
BY DEF Older

LEMMA SecondHonest ==
  ASSUME Poised, Second
  PROVE  Honestly(ofc)' /\ lost' \in [Uniqs -> Nat] /\ ServedNow
<1> DEFINE g == [e \in Cached |-> IF ofc.file[e] = NoFile THEN NoFile
                 ELSE [ofc.file[e] EXCEPT !.created = Older(@, Valid), !.accessed = Older(@, Inactive + 1)]]
<1>1. ofc' = [ofc EXCEPT !.file = g] /\ UNCHANGED <<disk, reading, told>>
      /\ lost' = [u \in Uniqs |-> IF \E n \in Names : disk[n].uniq = u THEN 0 ELSE Older(lost[u], Valid)]
  BY DEF Second
<1>2. Formed(ofc')
  <2>1. Sound(ofc', reading', Unopened, 0, 0)
    BY SecondStep DEF Poised, Steady
  <2> QED BY <2>1, FormedCache DEF Sound
<1>3. lost \in [Uniqs -> Nat] /\ Valid \in Nat /\ ofc \in Caches
      /\ \A e \in Cached : Honest(e, ofc.file[e]) /\ ofc.file[e] \in EntryType
  BY Constants DEF Poised, Honestly, Formed, Ready, Sound
<1>4. \A u \in Uniqs : Older(lost[u], Valid) \in Nat
  BY <1>3, OlderAges
<1>5. lost' \in [Uniqs -> Nat] /\ \A u \in Uniqs : ~HasName(u) => lost'[u] = Older(lost[u], Valid)
  BY <1>1, <1>4 DEF HasName
<1>6. ofc'.file = g
  <2> HIDE DEF g
  <2> QED BY <1>1, <1>3 DEF Caches
<1>7. ASSUME NEW e \in Cached PROVE Honest(e, ofc.file[e])'
  <2> DEFINE f == ofc.file[e] h == g[e] u == f.uniq
  <2>1. Honest(e, f) /\ f \in EntryType /\ (f.fd # NoFd => u \in Uniqs)
    <3>1. f.fd # NoFd => u \in Uniqs
      BY DEF Poised, Ready, Sound, Data, Fitting
    <3> QED BY <1>3, <3>1
  <2>2. f.created \in Nat
    BY <2>1 DEF EntryType
  <2>3. f # NoFile => h.fd = f.fd /\ h.uniq = u /\ h.event = f.event /\ h.use_event = f.use_event
                      /\ h.created = Older(f.created, Valid)
    BY <2>1 DEF EntryType
  <2>4. f = NoFile => h.fd = NoFd /\ ~h.use_event
    BY DEF NoFile
  <2>5. ASSUME f # NoFile, f.fd # NoFd PROVE HasName(u) \/ lost'[u] <= h.created
    <3>1. CASE ~HasName(u)
      <4>1. lost[u] <= f.created /\ lost[u] \in Nat /\ lost'[u] = Older(lost[u], Valid)
        BY <1>3, <1>5, <2>1, <2>5, <3>1 DEF Honest
      <4> HIDE DEF f, u, h
      <4>2. Older(lost[u], Valid) <= Older(f.created, Valid)
        BY <1>3, <2>2, <4>1, OlderAges
      <4> QED BY <2>3, <2>5, <4>1, <4>2
    <3> QED BY <3>1
  <2>6. ofc'.file[e] = h
    BY <1>6
  <2> HIDE DEF h, g
  <2>7. /\ h.use_event => h.event
        /\ h.fd # NoFd => HasName(h.uniq) \/ lost'[h.uniq] <= h.created
        /\ h.fd # NoFd /\ h.use_event => HasName(h.uniq) \/ e \in told
    <3>1. CASE f = NoFile
      BY <2>4, <3>1
    <3>2. CASE f # NoFile
      <4> HIDE DEF f
      <4> QED BY <2>1, <2>3, <2>5, <3>2 DEF Honest, u
    <3> QED BY <3>1, <3>2
  <2> QED BY <1>1, <2>6, <2>7 DEF Honest, HasName
<1>8. ServedNow
  BY <1>1 DEF ServedNow, FreshFor
<1> HIDE DEF Formed, Honest
<1> QED BY <1>2, <1>5, <1>7, <1>8 DEF Honestly

LEMMA FreshStart == OpenFilesInit => FreshInv
<1> SUFFICES ASSUME OpenFilesInit PROVE FreshInv
  OBVIOUS
<1>1. FilesInv /\ ~broken /\ ~ofc.exited
  BY FilesStart DEF OpenFilesInit
<1>2. ofc \in Caches
  BY <1>1 DEF FilesInv, Sound
<1>3. lost \in [Uniqs -> Nat] /\ \A e \in Cached : ofc.file[e] = NoFile
  BY DEF OpenFilesInit
<1>4. \A e \in Cached : Honest(e, NoFile)
  BY DEF Honest, NoFile
<1> QED BY <1>2, <1>3, <1>4, FormedCache DEF FreshInv, Honestly

LEMMA FreshStep ==
  FilesInv /\ FreshInv /\ [OpenFilesNext]_ofcVars => FreshInv' /\ ServedNow
<1> SUFFICES ASSUME FilesInv, FreshInv, [OpenFilesNext]_ofcVars PROVE FreshInv' /\ ServedNow
  OBVIOUS
<1>1. CASE UNCHANGED ofcVars
  <2>1. ServedNow
    BY <1>1 DEF ofcVars, ServedNow, FreshFor
  <2>2. (Honestly(ofc))' <=> Honestly(ofc)
    BY <1>1 DEF ofcVars, Honestly, Formed, Honest, HasName
  <2> QED BY <1>1, <2>1, <2>2 DEF FreshInv, ofcVars
<1>2. CASE OpenFilesNext
  <2>1. ~broken /\ ~ofc.exited /\ Poised
    <3>1. ~broken /\ ~ofc.exited
      BY <1>2 DEF OpenFilesNext
    <3>2. \A n \in Names : disk[n].kind \in {"none", "file", "dir"}
      BY DEF FilesInv, Disks
    <3> QED BY <3>1, <3>2 DEF FilesInv, FreshInv, Ready, Poised
  <2>2. ASSUME Stays PROVE FreshInv' /\ ServedNow
    <3>1. Honestly(ofc') /\ UNCHANGED <<disk, lost, told, broken>> /\ ServedNow
      BY <2>2 DEF Stays
    <3>2. Formed(ofc') /\ \A e \in Cached : Honest(e, ofc'.file[e])
      BY <3>1 DEF Honestly
    <3>3. (Honestly(ofc))'
      <4> HIDE DEF Formed
      <4> QED BY <3>1, <3>2 DEF Honestly, Honest, HasName
    <3>4. lost' \in [Uniqs -> Nat]
      BY <3>1 DEF FreshInv
    <3> QED BY <3>1, <3>3, <3>4 DEF FreshInv
  <2>3. ASSUME NEW r \in Readers, CloseFile(r) PROVE FreshInv' /\ ServedNow
    BY <2>1, <2>2, <2>3, CloseHonest
  <2>4. ASSUME NEW r \in Readers, NEW n \in Names, OpenMissed(r, n) PROVE FreshInv' /\ ServedNow
    BY <2>1, <2>2, <2>4, MissedHonest
  <2>5. ASSUME NEW r \in Readers, NEW n \in Names, OpenDormant(r, n) PROVE FreshInv' /\ ServedNow
    BY <2>1, <2>2, <2>5, DormantHonest
  <2>6. ASSUME NEW r \in Readers, NEW n \in Names, OpenHit(r, n) PROVE FreshInv' /\ ServedNow
    BY <2>1, <2>2, <2>6, HitHonest
  <2>7. ASSUME NEW r \in Readers, NEW n \in Names, NEW other \in BOOLEAN, OpenRetest(r, n, other)
        PROVE  FreshInv' /\ ServedNow
    BY <2>1, <2>2, <2>7, RetestHonest
  <2>8. ASSUME NEW e \in Cached, VnodeEvent(e) PROVE FreshInv' /\ ServedNow
    <3>1. CASE ~broken'
      <4>1. Honestly(ofc)' /\ ServedNow /\ lost' = lost
        BY <2>1, <2>8, <3>1, VnodeHonest
      <4> QED BY <4>1 DEF FreshInv
    <3>2. CASE broken'
      <4>1. lost' = lost /\ reading' = reading
        BY <2>8 DEF VnodeEvent
      <4> QED BY <3>2, <4>1 DEF FreshInv, ServedNow, FreshFor
    <3> QED BY <3>1, <3>2
  <2>9. ASSUME NEW n \in Names, ChangeDisk(n) PROVE FreshInv' /\ ServedNow
    BY <2>1, <2>9, DiskHonest
  <2>10. CASE Second
    <3>1. Honestly(ofc)' /\ lost' \in [Uniqs -> Nat] /\ ServedNow
      BY <2>1, <2>10, SecondHonest
    <3> QED BY <3>1 DEF FreshInv
  <2>11. CASE CacheExit
    <3>1. lost' = lost /\ ofc'.exited /\ \A r \in Readers : reading'[r] = Nobody
      BY <2>11 DEF CacheExit
    <3> QED BY <3>1 DEF FreshInv, ServedNow, FreshFor
  <2> QED BY <1>2, <2>3, <2>4, <2>5, <2>6, <2>7, <2>8, <2>9, <2>10, <2>11 DEF OpenFilesNext
<1> QED BY <1>1, <1>2

\* The entry that ngx_open_cached_file() gives a request is of a file that still has a name, or lost
\* it less than `valid' seconds ago, or whose vnode event the kernel has for the worker: whatever was
\* trusted, tested again, expired or replaced before.
THEOREM FreshServed == OpenFilesSpec => ServedFresh
<1>1. OpenFilesInit => FilesInv /\ FreshInv
  BY FilesStart, FreshStart
<1>2. FilesInv /\ FreshInv /\ [OpenFilesNext]_ofcVars => FilesInv' /\ FreshInv'
  BY FilesStep, FreshStep
<1>3. FilesInv /\ FreshInv /\ [OpenFilesNext]_ofcVars =>
        [\A r \in Readers : reading[r] = Nobody /\ reading'[r] # Nobody =>
           \/ \E n \in Names : disk[n].uniq = reading'[r].uniq
           \/ lost[reading'[r].uniq] < Valid
           \/ reading'[r].entry \in told]_ofcVars
  BY FreshStep DEF ServedNow, FreshFor, HasName
<1> QED BY <1>1, <1>2, <1>3, PTL DEF OpenFilesSpec, ServedFresh
=============================================================================
