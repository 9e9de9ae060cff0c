------------------------------- MODULE MCZones -------------------------------
(* The users of shared memory zones, the allocator below them, and the cache of  *)
(* open files of a worker, for TLC.  Each has its own memory: a behaviour moves  *)
(* one of them.  They share the model values of keys, nodes, workers and         *)
(* requests, so that one symmetry serves all.                                    *)
EXTENDS FileCache, LimitReq, LimitZone, Slab, OpenFileCache, TLC

VARIABLE moving

CacheConf(min, stale, warm, faults, starts, deaths) ==
  [min |-> min, stale |-> stale, warm |-> warm, faults |-> faults, starts |-> starts, deaths |-> deaths]

MCCacheConfs ==
  {CacheConf(1, FALSE, TRUE, TRUE, 4, 0), CacheConf(1, TRUE, TRUE, FALSE, 3, 0),
   CacheConf(2, FALSE, FALSE, FALSE, 3, 0), CacheConf(1, FALSE, FALSE, FALSE, 3, 1)}
MCChunks == [small |-> 4, big |-> 2]
MCReserved == [small |-> 1, big |-> 0]
MCLimitConn == [strict |-> 1, lax |-> 2]

FileConf(min_uses, errors, vnode, faulty) ==
  [min_uses |-> min_uses, errors |-> errors, vnode |-> vnode, faults |-> faulty]
MCFileConfs ==
  {FileConf(1, TRUE, FALSE, FALSE), FileConf(2, FALSE, FALSE, TRUE), FileConf(1, TRUE, TRUE, FALSE)}

ZonesSymmetry ==
  Permutations(Keys) \cup Permutations(Nodes) \cup Permutations(CacheRequests)

zonesVars == <<cacheVars, limitVars, connVars, slabVars, ofcVars, moving>>

Moves(zone) == moving = zone /\ UNCHANGED moving

ZonesInit ==
  /\ LimitInit /\ ConnInit /\ SlabInit /\ CacheInit /\ OpenFilesInit
  /\ moving \in {"cache", "limit", "conn", "slab", "files"}
  \* of a part that stands still one configuration is enough
  /\ moving # "cache" => conf.deaths = 1
  /\ moving # "files" => fileConf.vnode

ZonesNext ==
  \/ Moves("cache") /\ CacheNext /\ UNCHANGED <<limitVars, connVars, slabVars, ofcVars>>
  \/ Moves("limit") /\ LimitNext /\ UNCHANGED <<cacheVars, connVars, slabVars, ofcVars>>
  \/ Moves("conn") /\ ConnNext /\ UNCHANGED <<cacheVars, limitVars, slabVars, ofcVars>>
  \/ Moves("slab") /\ SlabNext /\ UNCHANGED <<cacheVars, limitVars, connVars, ofcVars>>
  \/ Moves("files") /\ OpenFilesNext /\ UNCHANGED <<cacheVars, limitVars, connVars, slabVars>>

ZonesSpec == ZonesInit /\ [][ZonesNext]_zonesVars
=============================================================================
