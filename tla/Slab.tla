--------------------------------- MODULE Slab ---------------------------------
(***************************************************************************)
(* The slab allocator of the shared zones (core/ngx_slab.c).  Its callers  *)
(* hold the mutex of the zone, so that an allocation or a release is one   *)
(* action.  A class of sizes ("small", "exact" or "big" in the code, by    *)
(* where the bitmap of a page is kept) is a number of chunks per page, of  *)
(* which a small one gives up the first ones for its bitmap.               *)
(***************************************************************************)
EXTENDS Integers, Sequences, FiniteSets, SequencesExt

CONSTANTS
  PageCount,  \* pages of the zone
  Classes,    \* size classes
  Chunks,     \* chunks per page of each class
  Reserved,   \* chunks of a page that hold its bitmap
  MaxRun      \* bound: pages of one large allocation

ASSUME SlabAssumption ==
  /\ PageCount \in Nat \ {0} /\ MaxRun \in Nat \ {0}
  /\ Chunks \in [Classes -> Nat] /\ Reserved \in [Classes -> Nat]
  /\ \A c \in Classes : Reserved[c] + 1 < Chunks[c]
  /\ "page" \notin Classes

SlabPages == 0..(PageCount - 1)
NoClass == "page"

VARIABLES
  slab,      \* ngx_slab_page_t: [class, run, map]; class NoClass: run is the length of a run that
             \* starts here, free or not, 0 for NGX_SLAB_PAGE_FREE and -1 for NGX_SLAB_PAGE_BUSY
  freeRuns,  \* pool->free: the first pages of free runs
  slot,      \* the pages with room of each class
  live,      \* history: what the callers have: [page, chunk, run]
  refused    \* history: the class or the run that the last call could not have

slabVars == <<slab, freeRuns, slot, live, refused>>

PageFree == [class |-> NoClass, run |-> 0, map |-> {}]
PageBusy == [class |-> NoClass, run |-> -1, map |-> {}]
Run(n) == [class |-> NoClass, run |-> n, map |-> {}]
ChunkPage(c, m) == [class |-> c, run |-> 0, map |-> m]
NotRefused == [class |-> NoClass, run |-> 0]

\* ngx_slab_init
SlabInit ==
  /\ slab = [p \in SlabPages |-> IF p = 0 THEN Run(PageCount) ELSE PageFree]
  /\ freeRuns = <<0>>
  /\ slot = [c \in Classes |-> <<>>]
  /\ live = {} /\ refused = NotRefused

ClassChunks(c) == 0..(Chunks[c] - 1)
BitmapOf(c) == 0..(Reserved[c] - 1)

\* the place in pool->free of the first run of at least n pages
Fitting(n) == {i \in DOMAIN freeRuns : slab[freeRuns[i]].run >= n
                                       /\ \A j \in 1..(i - 1) : slab[freeRuns[j]].run < n}

\* ngx_slab_alloc_pages: the run at i of pool->free is cut to n pages
CutRun(i, n) ==
  LET p == freeRuns[i] IN
  [q \in SlabPages |-> IF q = p THEN Run(n)
                       ELSE IF q \in (p + 1)..(p + n - 1) THEN PageBusy
                       ELSE IF q = p + n /\ n < slab[p].run THEN Run(slab[p].run - n)
                       ELSE slab[q]]

\* the rest of a longer run takes its place in pool->free
FreeAfterCut(i, n) ==
  LET p == freeRuns[i] IN
  IF n < slab[p].run THEN [freeRuns EXCEPT ![i] = p + n] ELSE RemoveAt(freeRuns, i)

\* ngx_slab_alloc_locked for half a page and more
AllocRun(n) ==
  \/ \E i \in Fitting(n) :
       /\ slab' = CutRun(i, n) /\ freeRuns' = FreeAfterCut(i, n)
       /\ live' = live \cup {[page |-> freeRuns[i], chunk |-> 0, run |-> n]}
       /\ refused' = NotRefused
       /\ UNCHANGED slot
  \/ /\ Fitting(n) = {}
     /\ refused' = [class |-> NoClass, run |-> n]
     /\ UNCHANGED <<slab, freeRuns, slot, live>>

\* mutant: a full page stays in its slot
UnlinkedNever(c, p, m) == slot[c]

\* a page that has become full leaves its slot
Unlinked(c, p, m) == IF m = ClassChunks(c) THEN Tail(slot[c]) ELSE slot[c]

\* the first clear bit
FirstClear(c, m) == {i \in ClassChunks(c) \ m : \A j \in ClassChunks(c) \ m : i <= j}

\* the bitmap of a new page, with its first chunk taken
FirstMap(c) == 0..Reserved[c]

\* ngx_slab_alloc_locked for a chunk: in the first page of the slot, whose pages have all room
AllocOld(c) ==
  /\ slot[c] # <<>>
  /\ LET p == Head(slot[c]) IN
     \E i \in FirstClear(c, slab[p].map) :
       LET m == slab[p].map \cup {i} IN
       /\ slab' = [slab EXCEPT ![p] = ChunkPage(c, m)]
       /\ slot' = [slot EXCEPT ![c] = Unlinked(c, p, m)]
       /\ live' = live \cup {[page |-> p, chunk |-> i, run |-> 0]}
  /\ refused' = NotRefused
  /\ UNCHANGED freeRuns

\* or in a new page, or not at all
AllocNew(c) ==
  /\ slot[c] = <<>>
  /\ \/ \E i \in Fitting(1) :
          LET p == freeRuns[i] IN
          /\ slab' = [CutRun(i, 1) EXCEPT ![p] = ChunkPage(c, FirstMap(c))]
          /\ freeRuns' = FreeAfterCut(i, 1)
          /\ slot' = [slot EXCEPT ![c] = <<p>>]
          /\ live' = live \cup {[page |-> p, chunk |-> Reserved[c], run |-> 0]}
          /\ refused' = NotRefused
     \/ /\ Fitting(1) = {}
        /\ refused' = [class |-> c, run |-> 0]
        /\ UNCHANGED <<slab, freeRuns, slot, live>>

\* ngx_slab_free_pages: runs are not joined
FreePages(p, n) ==
  /\ slab' = [q \in SlabPages |-> IF q = p THEN Run(n)
                                  ELSE IF q \in (p + 1)..(p + n - 1) THEN PageFree ELSE slab[q]]
  /\ freeRuns' = <<p>> \o freeRuns

\* nothing but the bitmap is left in a page
Empty(c, m) == m = BitmapOf(c)

\* a page that was full is put first in its slot
Relinked(c, p) == IF slab[p].map = ClassChunks(c) THEN <<p>> \o slot[c] ELSE slot[c]

\* ngx_slab_free_pages unlinks the page of a slot
WithoutPage(q, p) == IF \E i \in DOMAIN q : q[i] = p THEN RemoveAt(q, CHOOSE i \in DOMAIN q : q[i] = p) ELSE q

\* ngx_slab_free_locked for a large allocation and for a chunk
ReleaseRun(a) ==
  /\ slab[a.page].class = NoClass
  /\ FreePages(a.page, slab[a.page].run)
  /\ UNCHANGED slot

ReleaseChunk(a) ==
  LET p == a.page
      c == slab[p].class
      m == slab[p].map \ {a.chunk}
      s == Relinked(c, p)
  IN /\ c # NoClass
     /\ \/ /\ Empty(c, m)
           /\ FreePages(p, 1)
           /\ slot' = [slot EXCEPT ![c] = WithoutPage(s, p)]
        \/ /\ ~Empty(c, m)
           /\ slab' = [slab EXCEPT ![p] = ChunkPage(c, m)]
           /\ slot' = [slot EXCEPT ![c] = s]
           /\ UNCHANGED freeRuns

Release(a) ==
  /\ ReleaseRun(a) \/ ReleaseChunk(a)
  /\ live' = live \ {a} /\ refused' = NotRefused

SlabNext ==
  \/ \E n \in 1..MaxRun : AllocRun(n)
  \/ \E c \in Classes : AllocOld(c) \/ AllocNew(c)
  \/ \E a \in live : Release(a)

SlabSpec == SlabInit /\ [][SlabNext]_slabVars

-----------------------------------------------------------------------------
(* Properties *)

\* the pages of a run, of a free run and of an allocation
PagesFrom(p, n) == p..(p + n - 1)
FreePageSet == UNION {PagesFrom(freeRuns[i], slab[freeRuns[i]].run) : i \in DOMAIN freeRuns}
ExtentOf(a) == PagesFrom(a.page, IF a.run = 0 THEN 1 ELSE a.run)
LivePages == UNION {ExtentOf(a) : a \in live}

\* No two callers share memory: chunks are different, no large allocation overlaps another
\* allocation, and no chunk lies over the bitmap of its page.
NoSharedMemory ==
  /\ \A a, b \in live : a # b =>
       IF a.run = 0 /\ b.run = 0 THEN a.page # b.page \/ a.chunk # b.chunk
       ELSE ExtentOf(a) \cap ExtentOf(b) = {}
  /\ \A a \in live : a.run = 0 =>
       slab[a.page].class # NoClass /\ a.chunk >= Reserved[slab[a.page].class]

\* Every page belongs to callers or to one free run: a page goes back as soon as its last chunk
\* does, and none is lost.
PagesConserved ==
  /\ LivePages \cup FreePageSet = SlabPages /\ LivePages \cap FreePageSet = {}
  /\ \A i, j \in DOMAIN freeRuns : i # j =>
       PagesFrom(freeRuns[i], slab[freeRuns[i]].run) \cap PagesFrom(freeRuns[j], slab[freeRuns[j]].run) = {}

\* A chunk is refused only if every chunk of every page of its class is with callers and no page
\* is free.
RefusedIsFull ==
  refused.class # NoClass =>
    /\ FreePageSet = {}
    /\ \A p \in SlabPages : slab[p].class = refused.class =>
         {a.chunk : a \in {b \in live : b.page = p}} = ClassChunks(refused.class) \ BitmapOf(refused.class)

\* The pages of a slot are those of its class that have room: the search never runs past the end
\* of the list, where the code would take the slot itself for a page.
SlotsHaveRoom ==
  \A c \in Classes :
    ToSet(slot[c]) = {p \in SlabPages : slab[p].class = c /\ slab[p].map # ClassChunks(c)}

\* After any sequence of allocations and releases: no memory is shared, no page is lost, lists
\* and bitmaps agree, and an allocation is refused only when there is really no chunk.
MemoryExact == NoSharedMemory /\ PagesConserved /\ SlotsHaveRoom /\ RefusedIsFull

=============================================================================
