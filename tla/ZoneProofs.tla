------------------------------ MODULE ZoneProofs ------------------------------
(***************************************************************************)
(* Proofs about the shared memory zones, the cycle that owns them and the  *)
(* limits that are kept in them: Slab, for any number of pages and classes *)
(* of sizes and any sequence of allocations and releases; Cycle, for any   *)
(* configurations of files, zones and listening sockets and any sequence   *)
(* of reloads, each committed or failing at any point; LimitZone and       *)
(* LimitReq, for any number of requests, keys and locations, any limits,   *)
(* rates and bursts, and any behaviour of the workers' clocks.             *)
(***************************************************************************)
EXTENDS Slab, Cycle, LimitReq, LimitZone, SequenceLemmas

-----------------------------------------------------------------------------
(* The inductive invariant *)

PageRecord == [class : Classes \cup {NoClass}, run : Int, map : SUBSET Int]
Area == [page : SlabPages, chunk : Nat, run : Nat]

\* the pages at which something starts, free or not
FreeHeads == ToSet(freeRuns)
LiveHeads == {a.page : a \in live}
Heads == FreeHeads \cup LiveHeads

\* how many pages start there
Extents(t) == [p \in SlabPages |-> IF t[p].class = NoClass THEN t[p].run ELSE 1]

\* The extents from the pages in H are apart and cover the zone.
Tiled(H, E) ==
  /\ \A p \in H : E[p] >= 1 /\ p + E[p] <= PageCount
  /\ \A p, q \in H : p # q => p + E[p] <= q \/ q + E[q] <= p
  /\ \A q \in SlabPages : \E p \in H : p <= q /\ q < p + E[p]

SlabTypes ==
  /\ slab \in [SlabPages -> PageRecord]
  /\ freeRuns \in Seq(SlabPages) /\ IsInjective(freeRuns)
  /\ slot \in [Classes -> Seq(SlabPages)] /\ \A c \in Classes : IsInjective(slot[c])
  /\ live \in SUBSET Area

\* What starts at a page is either free or with callers, and the table knows which.
HeadsKnown ==
  /\ FreeHeads \cap LiveHeads = {}
  /\ \A p \in FreeHeads : slab[p].class = NoClass
  /\ \A a \in live : IF slab[a.page].class = NoClass
                     THEN a.run = slab[a.page].run /\ a.chunk = 0 ELSE a.run = 0

\* The bitmap of a page of class c is its own chunks and those that callers have, of which there
\* is one at least.
PageExact(t, lv, p, c) ==
  /\ BitmapOf(c) \subseteq t[p].map /\ t[p].map \subseteq ClassChunks(c) /\ t[p].map # BitmapOf(c)
  /\ \A i \in Int : i \in t[p].map \ BitmapOf(c) <=> [page |-> p, chunk |-> i, run |-> 0] \in lv

ChunksExact ==
  \A p \in SlabPages : \A c \in Classes : slab[p].class = c => PageExact(slab, live, p, c)

SlabInv == SlabTypes /\ Tiled(Heads, Extents(slab)) /\ HeadsKnown /\ ChunksExact /\ SlotsHaveRoom /\ RefusedIsFull

-----------------------------------------------------------------------------
(* Runs of pages *)

\* Nothing of the tiling depends on the pages inside.
LEMMA TiledSame ==
  ASSUME NEW H, NEW E, NEW F, Tiled(H, E), \A q \in H : F[q] = E[q]
  PROVE  Tiled(H, F)
BY DEF Tiled

\* A run is cut: its rest starts at a page where nothing started.
LEMMA TiledCut ==
  ASSUME NEW H \in SUBSET SlabPages, NEW E \in [SlabPages -> Int], NEW F \in [SlabPages -> Int],
         Tiled(H, E), NEW p \in H, NEW n \in Nat \ {0}, n < E[p],
         F[p] = n, F[p + n] = E[p] - n, \A q \in H \ {p} : F[q] = E[q]
  PROVE  p + n \in SlabPages \ H /\ Tiled(H \cup {p + n}, F)
<1> DEFINE b == p + n
<1>1. PageCount \in Nat /\ p \in Int /\ 0 <= p /\ E[p] \in Int /\ p + E[p] <= PageCount
  BY SlabAssumption DEF SlabPages, Tiled
<1>2. b \in Int /\ p < b /\ b < p + E[p] /\ b \in SlabPages
  BY <1>1 DEF SlabPages
<1>3. \A q \in H : q \in Int /\ E[q] \in Int /\ E[q] >= 1 /\ q + E[q] <= PageCount
  BY <1>1 DEF Tiled, SlabPages
<1>4. \A q \in H \ {p} : q + E[q] <= p \/ p + E[p] <= q
  BY DEF Tiled
<1>5. b \notin H
  BY <1>1, <1>2, <1>3, <1>4
<1>6. F[b] \in Int /\ F[b] >= 1 /\ b + F[b] = p + E[p] /\ F[p] >= 1 /\ p + F[p] = b
  BY <1>1, <1>2
<1> HIDE DEF b
<1>7. \A q \in H \cup {b} : F[q] >= 1 /\ q + F[q] <= PageCount
  BY <1>1, <1>2, <1>3, <1>6
<1>8. ASSUME NEW q \in H \cup {b}, NEW r \in H \cup {b}, q # r
      PROVE  q + F[q] <= r \/ r + F[r] <= q
  <2>1. CASE q \in {p, b} /\ r \in {p, b}
    BY <1>2, <1>6, <1>8, <2>1
  <2>2. CASE q \in {p, b} /\ r \notin {p, b}
    BY <1>1, <1>2, <1>3, <1>4, <1>6, <2>2
  <2>3. CASE q \notin {p, b} /\ r \in {p, b}
    BY <1>1, <1>2, <1>3, <1>4, <1>6, <2>3
  <2>4. CASE q \notin {p, b} /\ r \notin {p, b}
    BY <1>8, <2>4 DEF Tiled
  <2> QED BY <2>1, <2>2, <2>3, <2>4
<1>9. ASSUME NEW q \in SlabPages PROVE \E r \in H \cup {b} : r <= q /\ q < r + F[r]
  <2>1. PICK r \in H : r <= q /\ q < r + E[r]
    BY DEF Tiled
  <2>2. q \in Int
    BY DEF SlabPages
  <2>3. CASE r # p
    BY <2>1, <2>3
  <2>4. CASE r = p /\ q < b
    BY <1>6, <2>1, <2>4
  <2>5. CASE r = p /\ ~(q < b)
    BY <1>2, <1>6, <2>1, <2>2, <2>5
  <2> QED BY <2>3, <2>4, <2>5
<1> QED BY <1>2, <1>5, <1>7, <1>8, <1>9 DEF Tiled, b

\* The types of the table.
LEMMA ExtentsType ==
  ASSUME NEW t \in [SlabPages -> PageRecord]
  PROVE  Extents(t) \in [SlabPages -> Int]
BY DEF Extents, PageRecord

\* Inside of an extent nothing starts, and no page belongs to a class.
LEMMA Inside ==
  ASSUME SlabInv, NEW p \in Heads, NEW q \in SlabPages, p < q, q < p + Extents(slab)[p]
  PROVE  q \notin Heads /\ slab[q].class = NoClass
<1>1. q \notin Heads
  <2>1. p \in SlabPages /\ Extents(slab)[p] \in Int /\ Extents(slab)[q] \in Int
    BY ExtentsType DEF SlabInv, SlabTypes, Heads, FreeHeads, LiveHeads, ToSet, Area
  <2> QED BY <2>1 DEF SlabInv, Tiled, SlabPages
<1>2. ASSUME slab[q].class # NoClass PROVE FALSE
  <2>1. slab[q].class \in Classes
    BY <1>2 DEF SlabInv, SlabTypes, PageRecord
  <2>2. PageExact(slab, live, q, slab[q].class)
    BY <2>1 DEF SlabInv, ChunksExact
  <2>3. slab[q].map \subseteq Int
    BY DEF SlabInv, SlabTypes, PageRecord
  <2>4. PICK i \in Int : [page |-> q, chunk |-> i, run |-> 0] \in live
    BY <2>2, <2>3 DEF PageExact
  <2> QED BY <1>1, <2>4 DEF Heads, LiveHeads
<1> QED BY <1>1, <1>2

\* A run that fits is free and long enough.
LEMMA FitFacts ==
  ASSUME SlabInv, NEW n \in Nat \ {0}, NEW i \in Fitting(n)
  PROVE  /\ i \in DOMAIN freeRuns /\ freeRuns[i] \in FreeHeads /\ freeRuns[i] \in SlabPages
         /\ slab[freeRuns[i]].class = NoClass /\ slab[freeRuns[i]].run \in Int
         /\ n <= slab[freeRuns[i]].run
<1>1. i \in DOMAIN freeRuns /\ slab[freeRuns[i]].run >= n
  BY DEF Fitting
<1>2. freeRuns[i] \in SlabPages /\ freeRuns[i] \in FreeHeads
  BY <1>1, InDomain DEF SlabInv, SlabTypes, FreeHeads
<1>3. slab[freeRuns[i]].class = NoClass /\ slab[freeRuns[i]].run \in Int
  BY <1>2 DEF SlabInv, SlabTypes, HeadsKnown, PageRecord
<1> QED BY <1>1, <1>2, <1>3

\* What is left free of a run of r pages at p that is cut to n.
RestOf(p, n) == IF n < slab[p].run THEN {p + n} ELSE {}

\* The table after the cut.
LEMMA CutTable ==
  ASSUME SlabInv, NEW n \in Nat \ {0}, NEW i \in Fitting(n), NEW p, p = freeRuns[i], NEW t, t = CutRun(i, n)
  PROVE  /\ t \in [SlabPages -> PageRecord] /\ t[p] = Run(n)
         /\ \A q \in SlabPages : t[q].class = slab[q].class /\ (slab[q].class # NoClass => t[q] = slab[q])
         /\ \A q \in Heads \ {p} : t[q] = slab[q]
         /\ n < slab[p].run => p + n \in SlabPages \ Heads /\ t[p + n] = Run(slab[p].run - n)
<1>1. /\ p \in FreeHeads /\ p \in SlabPages /\ p \in Heads /\ slab[p].class = NoClass
      /\ slab[p].run \in Int /\ n <= slab[p].run
  BY FitFacts DEF Heads
<1>2. Extents(slab)[p] = slab[p].run
  BY <1>1 DEF Extents
<1>3. PageCount \in Nat /\ p + slab[p].run <= PageCount
  BY <1>1, <1>2, SlabAssumption DEF SlabInv, Tiled
<1>4. t = [q \in SlabPages |-> IF q = p THEN Run(n)
                              ELSE IF q \in (p + 1)..(p + n - 1) THEN PageBusy
                              ELSE IF q = p + n /\ n < slab[p].run THEN Run(slab[p].run - n)
                              ELSE slab[q]]
  BY DEF CutRun
<1>5. Run(n) \in PageRecord /\ PageBusy \in PageRecord /\ Run(slab[p].run - n) \in PageRecord
  BY <1>1 DEF Run, PageBusy, PageRecord
<1>6. t \in [SlabPages -> PageRecord] /\ t[p] = Run(n)
  BY <1>1, <1>4, <1>5 DEF SlabInv, SlabTypes
<1>7. ASSUME NEW q \in SlabPages, p < q, q < p + slab[p].run PROVE q \notin Heads /\ slab[q].class = NoClass
  BY <1>1, <1>2, <1>7, Inside
<1>8. ASSUME NEW q \in SlabPages
      PROVE  \/ t[q] = slab[q]
             \/ q = p /\ t[q] = Run(n)
             \/ p < q /\ q < p + slab[p].run /\ (t[q] = PageBusy \/ t[q] = Run(slab[p].run - n))
  <2>1. q \in Int /\ p \in Int
    BY <1>1 DEF SlabPages
  <2> QED BY <1>1, <1>4, <2>1
<1>9. Run(n).class = NoClass /\ PageBusy.class = NoClass /\ Run(slab[p].run - n).class = NoClass
  BY DEF Run, PageBusy
<1>10. \A q \in SlabPages : t[q].class = slab[q].class /\ (slab[q].class # NoClass => t[q] = slab[q])
  BY <1>1, <1>7, <1>8, <1>9
<1>11. \A q \in Heads \ {p} : t[q] = slab[q]
  <2>1. Heads \subseteq SlabPages
    BY DEF SlabInv, SlabTypes, Heads, FreeHeads, LiveHeads, ToSet, Area
  <2> QED BY <1>7, <1>8, <2>1
<1>12. ASSUME n < slab[p].run PROVE p + n \in SlabPages \ Heads /\ t[p + n] = Run(slab[p].run - n)
  <2>1. p + n \in SlabPages /\ p < p + n /\ p + n < p + slab[p].run
    BY <1>1, <1>3, <1>12 DEF SlabPages
  <2>2. p + n \notin (p + 1)..(p + n - 1) /\ p + n # p
    BY <1>1 DEF SlabPages
  <2> QED BY <1>4, <1>7, <1>12, <2>1, <2>2
<1> QED BY <1>6, <1>10, <1>11, <1>12

\* The free list after the cut.
LEMMA CutFree ==
  ASSUME SlabInv, NEW n \in Nat \ {0}, NEW i \in Fitting(n), NEW p, p = freeRuns[i]
  PROVE  /\ FreeAfterCut(i, n) \in Seq(SlabPages) /\ IsInjective(FreeAfterCut(i, n))
         /\ ToSet(FreeAfterCut(i, n)) = (FreeHeads \ {p}) \cup RestOf(p, n)
<1>1. i \in DOMAIN freeRuns /\ p \in FreeHeads /\ freeRuns \in Seq(SlabPages) /\ IsInjective(freeRuns)
  BY FitFacts DEF SlabInv, SlabTypes
<1>2. CASE n < slab[p].run
  <2> DEFINE b == p + n r == [freeRuns EXCEPT ![i] = b]
  <2>1. b \in SlabPages /\ b \notin ToSet(freeRuns)
    BY <1>2, CutTable DEF Heads, FreeHeads
  <2>2. FreeAfterCut(i, n) = r /\ RestOf(p, n) = {b}
    BY <1>2 DEF FreeAfterCut, RestOf
  <2> HIDE DEF b
  <2>3. r \in Seq(SlabPages) /\ DOMAIN r = DOMAIN freeRuns
    BY <1>1, <2>1, ExceptSeq
  <2>4. r[i] = b /\ \A j \in DOMAIN freeRuns \ {i} : r[j] = freeRuns[j]
    BY <1>1, <2>1
  <2> HIDE DEF r
  <2>5. IsInjective(r) /\ ToSet(r) = (ToSet(freeRuns) \ {freeRuns[i]}) \cup {b}
    BY <1>1, <2>1, <2>3, <2>4, ListReplaced
  <2> QED BY <2>2, <2>3, <2>5 DEF FreeHeads
<1>3. CASE ~(n < slab[p].run)
  <2> DEFINE r == RemoveAt(freeRuns, i)
  <2>1. r \in Seq(SlabPages) /\ IsWithout(freeRuns, i, r)
    BY <1>1, RemovedPlace
  <2> HIDE DEF r
  <2>2. IsInjective(r) /\ ToSet(r) = FreeHeads \ {p}
    BY <1>1, <2>1, ListWithout DEF FreeHeads
  <2>3. FreeAfterCut(i, n) = r /\ RestOf(p, n) = {}
    BY <1>3 DEF FreeAfterCut, RestOf, r
  <2> QED BY <2>1, <2>2, <2>3
<1> QED BY <1>2, <1>3

\* The tiling after the cut, whether the page at p is now of a class or starts an allocation.
LEMMA CutTiles ==
  ASSUME SlabInv, NEW n \in Nat \ {0}, NEW i \in Fitting(n), NEW p, p = freeRuns[i],
         NEW t \in [SlabPages -> PageRecord], Extents(t)[p] = n,
         \A q \in SlabPages \ {p} : t[q] = CutRun(i, n)[q]
  PROVE  Tiled(Heads \cup RestOf(p, n), Extents(t))
<1> DEFINE E == Extents(slab) F == Extents(t) cut == CutRun(i, n)
<1>1. /\ p \in Heads /\ p \in SlabPages /\ slab[p].class = NoClass /\ slab[p].run \in Int /\ n <= slab[p].run
  BY FitFacts DEF Heads
<1>2. E \in [SlabPages -> Int] /\ F \in [SlabPages -> Int] /\ Tiled(Heads, E) /\ E[p] = slab[p].run
  BY <1>1, ExtentsType DEF SlabInv, SlabTypes, Extents
<1>3. Heads \in SUBSET SlabPages
  BY DEF SlabInv, SlabTypes, Heads, FreeHeads, LiveHeads, ToSet, Area
<1>4. /\ \A q \in Heads \ {p} : cut[q] = slab[q]
      /\ n < slab[p].run => p + n \in SlabPages \ Heads /\ cut[p + n] = Run(slab[p].run - n)
  BY CutTable
<1> HIDE DEF cut
<1>5. \A q \in Heads \ {p} : F[q] = E[q]
  BY <1>3, <1>4 DEF Extents, cut
<1> HIDE DEF E
<1>6. CASE n < slab[p].run
  <2>1. p + n \in SlabPages \ Heads /\ p + n # p /\ t[p + n] = Run(slab[p].run - n)
    BY <1>1, <1>4, <1>6 DEF cut
  <2>2. F[p + n] = E[p] - n /\ F[p] = n
    BY <1>2, <2>1 DEF Extents, Run
  <2> HIDE DEF F
  <2>3. Tiled(Heads \cup {p + n}, F)
    BY <1>1, <1>2, <1>3, <1>5, <1>6, <2>2, TiledCut
  <2> QED BY <1>6, <2>3 DEF RestOf, F
<1>7. CASE ~(n < slab[p].run)
  <2>1. RestOf(p, n) = {} /\ F[p] = E[p]
    BY <1>1, <1>2, <1>7 DEF RestOf
  <2> HIDE DEF F
  <2>2. Tiled(Heads, F)
    BY <1>2, <1>5, <2>1, TiledSame
  <2> QED BY <2>1, <2>2 DEF F
<1> QED BY <1>6, <1>7

-----------------------------------------------------------------------------
(* The steps *)

\* The heads are pages.
LEMMA HeadsPages == SlabInv => Heads \in SUBSET SlabPages
BY DEF SlabInv, SlabTypes, Heads, FreeHeads, LiveHeads, ToSet, Area

\* A page that belongs to a class is the page of some chunk, and so is not free.
LEMMA ClassPage ==
  ASSUME SlabInv, NEW q \in SlabPages, slab[q].class # NoClass
  PROVE  /\ slab[q].class \in Classes /\ PageExact(slab, live, q, slab[q].class)
         /\ q \in LiveHeads /\ q \notin FreeHeads
<1>1. slab[q].class \in Classes /\ slab[q].map \subseteq Int
  BY DEF SlabInv, SlabTypes, PageRecord
<1>2. PageExact(slab, live, q, slab[q].class)
  BY <1>1 DEF SlabInv, ChunksExact
<1>3. PICK i \in Int : [page |-> q, chunk |-> i, run |-> 0] \in live
  BY <1>1, <1>2 DEF PageExact
<1> QED BY <1>1, <1>2, <1>3 DEF SlabInv, HeadsKnown, LiveHeads

\* A run of pages is allocated, or refused.
LEMMA RunStep == ASSUME SlabInv, NEW n \in Nat \ {0}, AllocRun(n) PROVE SlabInv'
<1>1. ASSUME NEW i \in Fitting(n), slab' = CutRun(i, n), freeRuns' = FreeAfterCut(i, n),
             live' = live \cup {[page |-> freeRuns[i], chunk |-> 0, run |-> n]},
             refused' = NotRefused, UNCHANGED slot
      PROVE  SlabInv'
  <2> DEFINE p == freeRuns[i] a == [page |-> p, chunk |-> 0, run |-> n] rest == RestOf(p, n)
  <2>1. /\ p \in FreeHeads /\ p \in SlabPages /\ slab[p].class = NoClass /\ slab[p].run \in Int
        /\ n <= slab[p].run /\ Heads \in SUBSET SlabPages /\ p \in Heads /\ p \notin LiveHeads
    BY FitFacts, HeadsPages DEF SlabInv, HeadsKnown, Heads
  <2>2. /\ slab' \in [SlabPages -> PageRecord] /\ slab'[p] = Run(n)
        /\ \A q \in SlabPages : slab'[q].class = slab[q].class /\ (slab[q].class # NoClass => slab'[q] = slab[q])
        /\ \A q \in Heads \ {p} : slab'[q] = slab[q]
        /\ n < slab[p].run => p + n \in SlabPages \ Heads /\ slab'[p + n] = Run(slab[p].run - n)
    BY <1>1, CutTable
  <2>3. freeRuns' \in Seq(SlabPages) /\ IsInjective(freeRuns') /\ ToSet(freeRuns') = (FreeHeads \ {p}) \cup rest
    BY <1>1, CutFree
  <2>4. rest \subseteq SlabPages \ Heads /\ \A q \in rest : slab'[q].class = NoClass
    BY <2>2 DEF RestOf, Run
  <2>5. Extents(slab')[p] = n
    BY <2>1, <2>2 DEF Extents, Run
  <2>6. Tiled(Heads \cup rest, Extents(slab'))
    BY <1>1, <2>2, <2>5, CutTiles
  <2> HIDE DEF p, rest
  <2>7. FreeHeads' = (FreeHeads \ {p}) \cup rest
    BY <2>3 DEF FreeHeads
  <2>8. live' = live \cup {a}
    BY <1>1 DEF p
  <2>9. a.page = p /\ a.run = n /\ a.chunk = 0 /\ a \in Area
    BY <2>1 DEF Area
  <2> HIDE DEF a
  <2>10. LiveHeads' = LiveHeads \cup {p}
    BY <2>8, <2>9 DEF LiveHeads
  <2>11. Heads' = Heads \cup rest
    BY <2>1, <2>7, <2>10 DEF Heads
  <2>12. SlabTypes'
    BY <1>1, <2>2, <2>3, <2>8, <2>9 DEF SlabInv, SlabTypes
  <2>13. Tiled(Heads, Extents(slab))'
    BY <2>6, <2>11
  <2>14. HeadsKnown'
    <3>1. (FreeHeads \cap LiveHeads)' = {}
      BY <2>1, <2>4, <2>7, <2>10 DEF SlabInv, HeadsKnown, Heads
    <3>2. \A q \in FreeHeads' : slab'[q].class = NoClass
      BY <2>1, <2>2, <2>4, <2>7 DEF SlabInv, HeadsKnown, Heads
    <3>3. ASSUME NEW b \in live
          PROVE  IF slab'[b.page].class = NoClass THEN b.run = slab'[b.page].run /\ b.chunk = 0 ELSE b.run = 0
      <4>1. b.page \in Heads \ {p}
        BY <2>1 DEF Heads, LiveHeads
      <4> QED BY <2>2, <4>1 DEF SlabInv, HeadsKnown
    <3>4. IF slab'[a.page].class = NoClass THEN a.run = slab'[a.page].run /\ a.chunk = 0 ELSE a.run = 0
      BY <2>2, <2>9 DEF Run
    <3> QED BY <2>8, <3>1, <3>2, <3>3, <3>4 DEF HeadsKnown
  <2>15. ChunksExact'
    <3> SUFFICES ASSUME NEW q \in SlabPages, NEW c \in Classes, slab'[q].class = c
                 PROVE  PageExact(slab', live', q, c)
      BY DEF ChunksExact
    <3>1. slab'[q] = slab[q] /\ PageExact(slab, live, q, c)
      BY <2>2, ClassPage, SlabAssumption DEF NoClass
    <3>2. \A j : [page |-> q, chunk |-> j, run |-> 0] \in live' <=> [page |-> q, chunk |-> j, run |-> 0] \in live
      BY <2>8, <2>9
    <3> QED BY <3>1, <3>2 DEF PageExact
  <2>16. SlotsHaveRoom'
    <3>1. \A c \in Classes : {q \in SlabPages : slab'[q].class = c /\ slab'[q].map # ClassChunks(c)}
                            = {q \in SlabPages : slab[q].class = c /\ slab[q].map # ClassChunks(c)}
      BY <2>2, SlabAssumption DEF NoClass
    <3> QED BY <1>1, <3>1 DEF SlabInv, SlotsHaveRoom
  <2>17. RefusedIsFull'
    BY <1>1 DEF RefusedIsFull, NotRefused
  <2> QED BY <2>12, <2>13, <2>14, <2>15, <2>16, <2>17 DEF SlabInv
<1>2. CASE refused' = [class |-> NoClass, run |-> n] /\ UNCHANGED <<slab, freeRuns, slot, live>>
  BY <1>2 DEF SlabInv, SlabTypes, Heads, FreeHeads, LiveHeads, HeadsKnown, ChunksExact, SlotsHaveRoom, RefusedIsFull
<1> QED BY <1>1, <1>2 DEF AllocRun

\* What the pages of a class need to keep the parts of the invariant that are about them: one page
\* changes its class or its bitmap, and what callers have of the others is the same.
LEMMA ChunksKept ==
  ASSUME SlabInv, NEW p \in SlabPages, NEW t \in [SlabPages -> PageRecord], NEW lv,
         \A q \in SlabPages \ {p} : t[q].class = slab[q].class /\ (slab[q].class # NoClass => t[q] = slab[q]),
         \A q \in SlabPages \ {p} : \A j \in Int :
           [page |-> q, chunk |-> j, run |-> 0] \in lv <=> [page |-> q, chunk |-> j, run |-> 0] \in live,
         \A c \in Classes : t[p].class = c => PageExact(t, lv, p, c)
  PROVE  \A q \in SlabPages : \A c \in Classes : t[q].class = c => PageExact(t, lv, q, c)
<1> SUFFICES ASSUME NEW q \in SlabPages, NEW c \in Classes, t[q].class = c, q # p PROVE PageExact(t, lv, q, c)
  OBVIOUS
<1>1. t[q] = slab[q] /\ PageExact(slab, live, q, c)
  BY ClassPage, SlabAssumption DEF NoClass
<1> QED BY <1>1 DEF PageExact

\* The bitmaps of the classes.
LEMMA BitmapFacts ==
  ASSUME NEW c \in Classes
  PROVE  /\ Chunks[c] \in Nat /\ Reserved[c] \in Nat /\ Reserved[c] + 1 < Chunks[c]
         /\ BitmapOf(c) \subseteq ClassChunks(c) /\ ClassChunks(c) \subseteq Nat
         /\ FirstMap(c) \subseteq ClassChunks(c) /\ FirstMap(c) # ClassChunks(c)
         /\ FirstMap(c) = BitmapOf(c) \cup {Reserved[c]} /\ Reserved[c] \notin BitmapOf(c)
<1>1. Chunks[c] \in Nat /\ Reserved[c] \in Nat /\ Reserved[c] + 1 < Chunks[c]
  BY SlabAssumption
<1>2. Chunks[c] - 1 \in ClassChunks(c) /\ Chunks[c] - 1 \notin FirstMap(c)
  BY <1>1 DEF ClassChunks, FirstMap
<1>3. BitmapOf(c) \subseteq ClassChunks(c) /\ ClassChunks(c) \subseteq Nat /\ FirstMap(c) \subseteq ClassChunks(c)
  BY <1>1 DEF BitmapOf, ClassChunks, FirstMap
<1>4. FirstMap(c) = BitmapOf(c) \cup {Reserved[c]} /\ Reserved[c] \notin BitmapOf(c)
  BY <1>1 DEF BitmapOf, FirstMap
<1> QED BY <1>1, <1>2, <1>3, <1>4

\* A chunk is taken from the first page of the slot, which leaves the slot when it is full.
LEMMA ChunkStep == ASSUME SlabInv, NEW c \in Classes, AllocOld(c) PROVE SlabInv'
<1> DEFINE p == Head(slot[c])
<1>1. PICK i \in FirstClear(c, slab[p].map) :
        LET m == slab[p].map \cup {i} IN
        /\ slab' = [slab EXCEPT ![p] = ChunkPage(c, m)]
        /\ slot' = [slot EXCEPT ![c] = Unlinked(c, p, m)]
        /\ live' = live \cup {[page |-> p, chunk |-> i, run |-> 0]}
  BY DEF AllocOld
<1> DEFINE m == slab[p].map \cup {i} a == [page |-> p, chunk |-> i, run |-> 0]
<1>2. slot[c] # <<>> /\ refused' = NotRefused /\ freeRuns' = freeRuns
  BY DEF AllocOld
<1>3. /\ Tail(slot[c]) \in Seq(SlabPages) /\ IsInjective(Tail(slot[c])) /\ p \in SlabPages
      /\ p \in ToSet(slot[c]) /\ ToSet(Tail(slot[c])) = ToSet(slot[c]) \ {p}
  BY <1>2, ListTail DEF SlabInv, SlabTypes
<1> HIDE DEF p
<1>4. slab[p].class = c /\ slab[p].map # ClassChunks(c) /\ c # NoClass
  BY <1>3, SlabAssumption DEF SlabInv, SlotsHaveRoom, NoClass
<1>5. PageExact(slab, live, p, c) /\ p \in LiveHeads /\ p \notin FreeHeads
  BY <1>3, <1>4, ClassPage
<1>6. i \in ClassChunks(c) /\ i \notin slab[p].map /\ i \in Nat
  BY BitmapFacts DEF FirstClear
<1>7. a.page = p /\ a.chunk = i /\ a.run = 0 /\ a \in Area
  BY <1>3, <1>6 DEF Area
<1>8. m \subseteq ClassChunks(c) /\ m # BitmapOf(c) /\ BitmapOf(c) \subseteq m /\ i \notin BitmapOf(c) /\ m \in SUBSET Int
  BY <1>5, <1>6, BitmapFacts DEF PageExact
<1>9. /\ slab' \in [SlabPages -> PageRecord] /\ slab'[p].class = c /\ slab'[p].map = m
      /\ \A q \in SlabPages \ {p} : slab'[q] = slab[q]
  <2>1. ChunkPage(c, m) \in PageRecord /\ ChunkPage(c, m).class = c /\ ChunkPage(c, m).map = m
    BY <1>8 DEF ChunkPage, PageRecord
  <2> HIDE DEF m
  <2>2. slab' = [slab EXCEPT ![p] = ChunkPage(c, m)]
    BY <1>1 DEF m
  <2> QED BY <1>3, <2>1, <2>2 DEF SlabInv, SlabTypes
<1>10. slot' = [slot EXCEPT ![c] = Unlinked(c, p, m)]
  BY <1>1
<1>11. live' = live \cup {a}
  BY <1>1
<1>12. \A j \in Int : j \in m \ BitmapOf(c) <=> [page |-> p, chunk |-> j, run |-> 0] \in live'
  <2> SUFFICES ASSUME NEW j \in Int
               PROVE  j \in m \ BitmapOf(c) <=> [page |-> p, chunk |-> j, run |-> 0] \in live'
    OBVIOUS
  <2>1. [page |-> p, chunk |-> j, run |-> 0] \in live <=> j \in slab[p].map \ BitmapOf(c)
    BY <1>5 DEF PageExact
  <2>2. [page |-> p, chunk |-> j, run |-> 0] = a <=> j = i
    OBVIOUS
  <2> HIDE DEF a
  <2> QED BY <1>8, <1>11, <2>1, <2>2
<1> HIDE DEF m, a
<1>13. FreeHeads' = FreeHeads /\ LiveHeads' = LiveHeads /\ Heads' = Heads
  BY <1>2, <1>5, <1>7, <1>11 DEF FreeHeads, LiveHeads, Heads
<1>14. SlabTypes'
  <2>1. Unlinked(c, p, m) \in Seq(SlabPages) /\ IsInjective(Unlinked(c, p, m))
    BY <1>3 DEF Unlinked, SlabInv, SlabTypes
  <2> QED BY <1>2, <1>7, <1>9, <1>10, <1>11, <2>1 DEF SlabInv, SlabTypes
<1>15. Tiled(Heads, Extents(slab))'
  <2>1. Extents(slab') = Extents(slab)
    BY <1>3, <1>4, <1>9 DEF Extents
  <2> QED BY <1>13, <2>1 DEF SlabInv
<1>16. HeadsKnown'
  <2>1. ASSUME NEW b \in live
        PROVE  IF slab'[b.page].class = NoClass THEN b.run = slab'[b.page].run /\ b.chunk = 0 ELSE b.run = 0
    <3>1. b.page \in SlabPages
      BY DEF SlabInv, SlabTypes, Area
    <3> QED BY <1>4, <1>9, <3>1 DEF SlabInv, HeadsKnown
  <2>2. \A q \in FreeHeads : slab'[q].class = NoClass
    BY <1>5, <1>9, HeadsPages DEF SlabInv, HeadsKnown, Heads
  <2> QED BY <1>4, <1>7, <1>9, <1>11, <1>13, <2>1, <2>2 DEF SlabInv, HeadsKnown
<1>17. ChunksExact'
  <2>1. PageExact(slab', live', p, c)
    BY <1>8, <1>9, <1>12 DEF PageExact
  <2>2. \A q \in SlabPages \ {p} : \A j \in Int :
           [page |-> q, chunk |-> j, run |-> 0] \in live' <=> [page |-> q, chunk |-> j, run |-> 0] \in live
    BY <1>7, <1>11
  <2>3. \A q \in SlabPages : \A d \in Classes : slab'[q].class = d => PageExact(slab', live', q, d)
    BY ZenonT(40), <1>3, <1>9, <2>1, <2>2, ChunksKept
  <2> QED BY <2>3 DEF ChunksExact
<1>18. SlotsHaveRoom'
  <2> SUFFICES ASSUME NEW d \in Classes
               PROVE  ToSet(slot'[d]) = {q \in SlabPages : slab'[q].class = d /\ slab'[q].map # ClassChunks(d)}
    BY DEF SlotsHaveRoom
  <2>1. ToSet(slot[d]) = {q \in SlabPages : slab[q].class = d /\ slab[q].map # ClassChunks(d)}
    BY DEF SlabInv, SlotsHaveRoom
  <2>2. CASE d # c
    BY <1>4, <1>9, <1>10, <2>1, <2>2 DEF SlabInv, SlabTypes
  <2>3. CASE d = c
    <3>1. slot'[c] = Unlinked(c, p, m)
      BY <1>10 DEF SlabInv, SlabTypes
    <3> QED BY <1>3, <1>4, <1>9, <2>1, <2>3, <3>1 DEF Unlinked
  <2> QED BY <2>2, <2>3
<1>19. RefusedIsFull'
  BY <1>2 DEF RefusedIsFull, NotRefused
<1> QED BY <1>14, <1>15, <1>16, <1>17, <1>18, <1>19 DEF SlabInv

\* A chunk is taken from a new page.
LEMMA NewPageStep ==
  ASSUME SlabInv, NEW c \in Classes, slot[c] = <<>>, NEW i \in Fitting(1),
         slab' = [CutRun(i, 1) EXCEPT ![freeRuns[i]] = ChunkPage(c, FirstMap(c))],
         freeRuns' = FreeAfterCut(i, 1), slot' = [slot EXCEPT ![c] = <<freeRuns[i]>>],
         live' = live \cup {[page |-> freeRuns[i], chunk |-> Reserved[c], run |-> 0]},
         refused' = NotRefused
  PROVE  SlabInv'
<1> DEFINE p == freeRuns[i] a == [page |-> p, chunk |-> Reserved[c], run |-> 0] rest == RestOf(p, 1)
           t == CutRun(i, 1)
<1>1. /\ p \in FreeHeads /\ p \in SlabPages /\ slab[p].class = NoClass /\ slab[p].run \in Int
      /\ 1 <= slab[p].run /\ Heads \in SUBSET SlabPages /\ p \in Heads /\ p \notin LiveHeads
  BY FitFacts, HeadsPages DEF SlabInv, HeadsKnown, Heads
<1>2. /\ t \in [SlabPages -> PageRecord]
      /\ \A q \in SlabPages : t[q].class = slab[q].class /\ (slab[q].class # NoClass => t[q] = slab[q])
      /\ \A q \in Heads \ {p} : t[q] = slab[q]
      /\ 1 < slab[p].run => p + 1 \in SlabPages \ Heads /\ t[p + 1] = Run(slab[p].run - 1)
  BY CutTable
<1>3. freeRuns' \in Seq(SlabPages) /\ IsInjective(freeRuns') /\ ToSet(freeRuns') = (FreeHeads \ {p}) \cup rest
  BY CutFree
<1>4. rest \subseteq SlabPages \ Heads /\ \A q \in rest : t[q].class = NoClass
  BY <1>2 DEF RestOf, Run
<1> HIDE DEF t
<1>5. c # NoClass
  BY SlabAssumption DEF NoClass
<1>6. /\ slab' \in [SlabPages -> PageRecord] /\ slab'[p].class = c /\ slab'[p].map = FirstMap(c)
      /\ \A q \in SlabPages \ {p} : slab'[q] = t[q]
  <2>1. ChunkPage(c, FirstMap(c)) \in PageRecord
    BY BitmapFacts DEF ChunkPage, PageRecord
  <2>2. slab' = [t EXCEPT ![p] = ChunkPage(c, FirstMap(c))]
    BY DEF t
  <2>3. ChunkPage(c, FirstMap(c)).class = c /\ ChunkPage(c, FirstMap(c)).map = FirstMap(c)
    BY DEF ChunkPage
  <2>4. p \in SlabPages /\ t \in [SlabPages -> PageRecord]
    BY <1>1, <1>2
  <2> DEFINE f == ChunkPage(c, FirstMap(c))
  <2> HIDE DEF p, f
  <2>5. slab' \in [SlabPages -> PageRecord] /\ slab'[p] = f /\ \A q \in SlabPages \ {p} : slab'[q] = t[q]
    BY <2>1, <2>2, <2>4 DEF f
  <2> QED BY <2>3, <2>5 DEF f
<1>7. Extents(slab')[p] = 1
  BY <1>1, <1>5, <1>6 DEF Extents
<1>8. Tiled(Heads \cup rest, Extents(slab'))
  BY <1>6, <1>7, CutTiles DEF t
<1> HIDE DEF rest
<1>9. FreeHeads' = (FreeHeads \ {p}) \cup rest
  BY <1>3 DEF FreeHeads
<1>10. live' = live \cup {a} /\ slot' = [slot EXCEPT ![c] = <<p>>]
  OBVIOUS
<1> HIDE DEF p
<1>11. a.page = p /\ a.run = 0 /\ a \in Area
  BY <1>1, BitmapFacts DEF Area
<1>12. \A j \in Int : j \in FirstMap(c) \ BitmapOf(c) <=> [page |-> p, chunk |-> j, run |-> 0] \in live'
  <2> SUFFICES ASSUME NEW j \in Int
               PROVE  j = Reserved[c] <=> [page |-> p, chunk |-> j, run |-> 0] \in live'
    BY BitmapFacts
  <2>1. [page |-> p, chunk |-> j, run |-> 0] \notin live
    BY <1>1 DEF LiveHeads
  <2>2. [page |-> p, chunk |-> j, run |-> 0] = a <=> j = Reserved[c]
    OBVIOUS
  <2> HIDE DEF a
  <2> QED BY <1>10, <2>1, <2>2
<1> HIDE DEF a
<1>13. LiveHeads' = LiveHeads \cup {p}
  BY <1>10, <1>11 DEF LiveHeads
<1>14. Heads' = Heads \cup rest
  BY <1>1, <1>9, <1>13 DEF Heads
<1>15. SlabTypes'
  <2>1. <<p>> \in Seq(SlabPages) /\ IsInjective(<<p>>)
    BY <1>1 DEF IsInjective
  <2> QED BY <1>3, <1>6, <1>10, <1>11, <2>1 DEF SlabInv, SlabTypes
<1>16. Tiled(Heads, Extents(slab))'
  BY <1>8, <1>14
<1>17. HeadsKnown'
  <2>1. (FreeHeads \cap LiveHeads)' = {}
    BY <1>1, <1>4, <1>9, <1>13 DEF SlabInv, HeadsKnown, Heads
  <2>2. \A q \in FreeHeads' : slab'[q].class = NoClass
    BY <1>1, <1>2, <1>4, <1>6, <1>9 DEF SlabInv, HeadsKnown, Heads
  <2>3. ASSUME NEW b \in live
        PROVE  IF slab'[b.page].class = NoClass THEN b.run = slab'[b.page].run /\ b.chunk = 0 ELSE b.run = 0
    <3>1. b.page \in Heads \ {p}
      BY <1>1 DEF Heads, LiveHeads
    <3> QED BY <1>1, <1>2, <1>6, <3>1 DEF SlabInv, HeadsKnown
  <2>4. slab'[a.page].class # NoClass /\ a.run = 0
    BY <1>5, <1>6, <1>11
  <2> QED BY <1>10, <2>1, <2>2, <2>3, <2>4 DEF HeadsKnown
<1>18. ChunksExact'
  <2>1. PageExact(slab', live', p, c)
    BY <1>6, <1>12, BitmapFacts DEF PageExact
  <2>2. \A q \in SlabPages \ {p} : \A j \in Int :
           [page |-> q, chunk |-> j, run |-> 0] \in live' <=> [page |-> q, chunk |-> j, run |-> 0] \in live
    BY <1>10, <1>11
  <2>3. \A q \in SlabPages \ {p} :
          slab'[q].class = slab[q].class /\ (slab[q].class # NoClass => slab'[q] = slab[q])
    BY <1>2, <1>6
  <2>4. \A d \in Classes : slab'[p].class = d => PageExact(slab', live', p, d)
    BY <1>6, <2>1
  <2>5. p \in SlabPages /\ slab' \in [SlabPages -> PageRecord]
    BY <1>1, <1>6
  <2>6. \A q \in SlabPages : \A d \in Classes : slab'[q].class = d => PageExact(slab', live', q, d)
    BY <2>2, <2>3, <2>4, <2>5, ChunksKept
  <2> QED BY <2>6 DEF ChunksExact
<1>19. SlotsHaveRoom'
  <2> SUFFICES ASSUME NEW d \in Classes
               PROVE  ToSet(slot'[d]) = {q \in SlabPages : slab'[q].class = d /\ slab'[q].map # ClassChunks(d)}
    BY DEF SlotsHaveRoom
  <2>1. d # NoClass /\ ToSet(slot[d]) = {q \in SlabPages : slab[q].class = d /\ slab[q].map # ClassChunks(d)}
    BY SlabAssumption DEF SlabInv, SlotsHaveRoom, NoClass
  <2>2. CASE d # c
    BY <1>1, <1>2, <1>6, <1>10, <2>1, <2>2 DEF SlabInv, SlabTypes
  <2>3. CASE d = c
    <3>1. slot'[c] = <<p>> /\ ToSet(<<p>>) = {p} /\ ToSet(slot[c]) = {}
      BY <1>10 DEF SlabInv, SlabTypes, ToSet
    <3> QED BY <1>1, <1>2, <1>6, <2>1, <2>3, <3>1, BitmapFacts
  <2> QED BY <2>2, <2>3
<1>20. RefusedIsFull'
  BY DEF RefusedIsFull, NotRefused
<1> QED BY <1>15, <1>16, <1>17, <1>18, <1>19, <1>20 DEF SlabInv

\* No page is free when a chunk is refused, and all of the class are full.
LEMMA RefusedStep ==
  ASSUME SlabInv, NEW c \in Classes, slot[c] = <<>>, Fitting(1) = {},
         refused' = [class |-> c, run |-> 0], UNCHANGED <<slab, freeRuns, slot, live>>
  PROVE  SlabInv'
<1>1. freeRuns = <<>>
  <2> SUFFICES ASSUME freeRuns # <<>> PROVE FALSE
    OBVIOUS
  <2>1. 1 \in DOMAIN freeRuns
    BY InDomain, EmptySeq DEF SlabInv, SlabTypes
  <2>2. freeRuns[1] \in FreeHeads /\ freeRuns[1] \in SlabPages
    BY <2>1, InDomain DEF FreeHeads, SlabInv, SlabTypes
  <2>3. slab[freeRuns[1]].run >= 1
    BY <2>2 DEF SlabInv, HeadsKnown, Tiled, Extents, Heads
  <2>4. 1 \in Fitting(1)
    BY <2>1, <2>3 DEF Fitting
  <2> QED BY <2>4
<1>2. FreePageSet = {}
  BY <1>1 DEF FreePageSet
<1>3. ASSUME NEW p \in SlabPages, slab[p].class = c
      PROVE  {a.chunk : a \in {b \in live : b.page = p}} = ClassChunks(c) \ BitmapOf(c)
  <2>1. c # NoClass
    BY SlabAssumption DEF NoClass
  <2>2. slab[p].map = ClassChunks(c)
    BY <1>3 DEF SlabInv, SlotsHaveRoom, ToSet
  <2>3. PageExact(slab, live, p, c)
    BY <1>3 DEF SlabInv, ChunksExact
  <2>4. \A a \in live : a.page = p => a.run = 0 /\ a.chunk \in Int /\ a = [page |-> p, chunk |-> a.chunk, run |-> 0]
    BY <1>3, <2>1 DEF SlabInv, SlabTypes, HeadsKnown, Area
  <2>5. ASSUME NEW x PROVE x \in {a.chunk : a \in {b \in live : b.page = p}} <=> x \in ClassChunks(c) \ BitmapOf(c)
    <3>1. ASSUME NEW a \in live, a.page = p, x = a.chunk PROVE x \in ClassChunks(c) \ BitmapOf(c)
      BY <2>2, <2>3, <2>4, <3>1 DEF PageExact
    <3>2. ASSUME x \in ClassChunks(c) \ BitmapOf(c) PROVE \E a \in live : a.page = p /\ x = a.chunk
      <4>1. x \in Int
        BY <3>2, BitmapFacts
      <4>2. [page |-> p, chunk |-> x, run |-> 0] \in live
        BY <2>2, <2>3, <3>2, <4>1 DEF PageExact
      <4> QED BY <4>2
    <3> QED BY <3>1, <3>2
  <2> QED BY <2>5
<1>4. RefusedIsFull'
  BY <1>2, <1>3 DEF RefusedIsFull, FreePageSet
<1> QED BY <1>4 DEF SlabInv, SlabTypes, Heads, FreeHeads, LiveHeads, HeadsKnown, ChunksExact, SlotsHaveRoom

\* The pages of an extent become free.
LEMMA FreeTable ==
  ASSUME SlabInv, NEW p \in LiveHeads, NEW n, n = Extents(slab)[p], FreePages(p, n)
  PROVE  /\ slab' \in [SlabPages -> PageRecord] /\ slab'[p] = Run(n) /\ n \in Nat \ {0} /\ p \in SlabPages
         /\ \A q \in SlabPages \ {p} : slab'[q].class = slab[q].class /\ (slab[q].class # NoClass => slab'[q] = slab[q])
         /\ \A q \in Heads \ {p} : slab'[q] = slab[q]
         /\ freeRuns' \in Seq(SlabPages) /\ IsInjective(freeRuns') /\ FreeHeads' = FreeHeads \cup {p}
         /\ Tiled(Heads, Extents(slab'))
<1>1. p \in SlabPages /\ p \in Heads /\ p \notin FreeHeads /\ Heads \in SUBSET SlabPages
  BY HeadsPages DEF SlabInv, HeadsKnown, Heads
<1>2. Extents(slab) \in [SlabPages -> Int] /\ Tiled(Heads, Extents(slab)) /\ slab \in [SlabPages -> PageRecord]
  BY ExtentsType DEF SlabInv, SlabTypes
<1>3. n \in Nat \ {0} /\ p \in Int
  BY SMTT(30), <1>1, <1>2 DEF Tiled, SlabPages
<1>4. slab' = [q \in SlabPages |-> IF q = p THEN Run(n)
                                  ELSE IF q \in (p + 1)..(p + n - 1) THEN PageFree ELSE slab[q]]
  BY DEF FreePages
<1>5. Run(n) \in PageRecord /\ PageFree \in PageRecord /\ Run(n).class = NoClass /\ PageFree.class = NoClass
      /\ Run(n).run = n
  BY <1>3 DEF Run, PageFree, PageRecord
<1>6. slab' \in [SlabPages -> PageRecord] /\ slab'[p] = Run(n)
  BY <1>1, <1>2, <1>4, <1>5
<1>7. ASSUME NEW q \in SlabPages \ {p}
      PROVE  slab'[q] = slab[q] \/ (slab'[q] = PageFree /\ q \notin Heads /\ slab[q].class = NoClass)
  <2>1. CASE q \in (p + 1)..(p + n - 1)
    <3>1. p < q /\ q < p + Extents(slab)[p]
      BY <1>3, <2>1
    <3>2. slab'[q] = PageFree
      BY <1>4, <2>1
    <3> QED BY <1>1, <3>1, <3>2, Inside
  <2>2. CASE q \notin (p + 1)..(p + n - 1)
    BY <1>4, <2>2
  <2> QED BY <2>1, <2>2
<1>8. \A q \in Heads \ {p} : slab'[q] = slab[q]
  BY <1>1, <1>7
<1>9. \A q \in SlabPages \ {p} : slab'[q].class = slab[q].class /\ (slab[q].class # NoClass => slab'[q] = slab[q])
  BY <1>5, <1>7
<1>10. \A q \in Heads : Extents(slab')[q] = Extents(slab)[q]
  BY <1>1, <1>5, <1>6, <1>8 DEF Extents
<1>11. Tiled(Heads, Extents(slab'))
  BY <1>2, <1>10, TiledSame
<1>12. freeRuns' \in Seq(SlabPages) /\ IsInjective(freeRuns') /\ FreeHeads' = FreeHeads \cup {p}
  <2>1. freeRuns' = <<p>> \o freeRuns /\ freeRuns \in Seq(SlabPages) /\ IsInjective(freeRuns) /\ p \notin ToSet(freeRuns)
    BY <1>1 DEF FreePages, SlabInv, SlabTypes, FreeHeads
  <2> QED BY <1>1, <2>1, ListHead DEF FreeHeads
<1> QED BY <1>1, <1>3, <1>6, <1>8, <1>9, <1>11, <1>12

\* What starts at a page that goes back to the free list was with one caller.
LEMMA FreedInv ==
  ASSUME SlabInv, NEW a \in live, NEW n, n = Extents(slab)[a.page], FreePages(a.page, n),
         \A b \in live : b.page = a.page => b = a, live' = live \ {a}, refused' = NotRefused,
         slot' \in [Classes -> Seq(SlabPages)], \A c \in Classes : IsInjective(slot'[c]),
         \A c \in Classes : ToSet(slot'[c]) = ToSet(slot[c]) \ {a.page}
  PROVE  SlabInv'
<1> DEFINE p == a.page
<1>1. p \in LiveHeads
  BY DEF LiveHeads
<1>2. /\ slab' \in [SlabPages -> PageRecord] /\ slab'[p] = Run(n) /\ n \in Nat \ {0} /\ p \in SlabPages
      /\ \A q \in SlabPages \ {p} : slab'[q].class = slab[q].class /\ (slab[q].class # NoClass => slab'[q] = slab[q])
      /\ \A q \in Heads \ {p} : slab'[q] = slab[q]
      /\ freeRuns' \in Seq(SlabPages) /\ IsInjective(freeRuns') /\ FreeHeads' = FreeHeads \cup {p}
      /\ Tiled(Heads, Extents(slab'))
  BY <1>1, FreeTable
<1>3. LiveHeads' = LiveHeads \ {p}
  BY DEF LiveHeads
<1>4. Heads' = Heads
  BY <1>1, <1>2, <1>3 DEF Heads
<1>5. p \notin FreeHeads /\ Heads \in SUBSET SlabPages
  BY <1>1, HeadsPages DEF SlabInv, HeadsKnown
<1>6. slab'[p].class = NoClass
  BY <1>2 DEF Run
<1> HIDE DEF p
<1>7. SlabTypes'
  BY <1>2 DEF SlabInv, SlabTypes
<1>8. HeadsKnown'
  <2>1. (FreeHeads \cap LiveHeads)' = {}
    BY <1>2, <1>3 DEF SlabInv, HeadsKnown
  <2>2. \A q \in FreeHeads' : slab'[q].class = NoClass
    BY <1>2, <1>5, <1>6 DEF SlabInv, HeadsKnown, Heads
  <2>3. ASSUME NEW b \in live, b # a
        PROVE  IF slab'[b.page].class = NoClass THEN b.run = slab'[b.page].run /\ b.chunk = 0 ELSE b.run = 0
    <3>1. b.page \in Heads \ {p}
      BY <2>3 DEF Heads, LiveHeads, p
    <3> QED BY <1>2, <3>1 DEF SlabInv, HeadsKnown
  <2> QED BY <2>1, <2>2, <2>3 DEF HeadsKnown
<1>9. ChunksExact'
  <2>1. \A q \in SlabPages \ {p} : \A j \in Int :
           [page |-> q, chunk |-> j, run |-> 0] \in live' <=> [page |-> q, chunk |-> j, run |-> 0] \in live
    BY DEF p
  <2>2. \A d \in Classes : slab'[p].class = d => PageExact(slab', live', p, d)
    BY <1>6, SlabAssumption DEF NoClass
  <2>3. \A q \in SlabPages : \A d \in Classes : slab'[q].class = d => PageExact(slab', live', q, d)
    BY <1>2, <2>1, <2>2, ChunksKept
  <2> QED BY <2>3 DEF ChunksExact
<1>10. SlotsHaveRoom'
  <2> SUFFICES ASSUME NEW d \in Classes
               PROVE  ToSet(slot'[d]) = {q \in SlabPages : slab'[q].class = d /\ slab'[q].map # ClassChunks(d)}
    BY DEF SlotsHaveRoom
  <2>1. d # NoClass /\ ToSet(slot[d]) = {q \in SlabPages : slab[q].class = d /\ slab[q].map # ClassChunks(d)}
    BY SlabAssumption DEF SlabInv, SlotsHaveRoom, NoClass
  <2>2. ToSet(slot'[d]) = ToSet(slot[d]) \ {p}
    BY DEF p
  <2> QED BY <1>2, <1>6, <2>1, <2>2
<1>11. RefusedIsFull'
  BY DEF RefusedIsFull, NotRefused
<1> QED BY <1>2, <1>4, <1>7, <1>8, <1>9, <1>10, <1>11 DEF SlabInv

\* A large allocation is released.
LEMMA ReleaseRunStep ==
  ASSUME SlabInv, NEW a \in live, ReleaseRun(a), live' = live \ {a}, refused' = NotRefused
  PROVE  SlabInv'
<1>1. a.page \in SlabPages /\ slab[a.page].class = NoClass
  BY DEF SlabInv, SlabTypes, Area, ReleaseRun
<1>2. Extents(slab)[a.page] = slab[a.page].run
  BY <1>1 DEF Extents
<1>3. FreePages(a.page, Extents(slab)[a.page]) /\ slot' = slot
  BY <1>2 DEF ReleaseRun
<1>4. ASSUME NEW b \in live, b.page = a.page PROVE b = a
  <2>1. b.run = slab[a.page].run /\ b.chunk = 0 /\ a.run = slab[a.page].run /\ a.chunk = 0
    BY <1>1, <1>4 DEF SlabInv, HeadsKnown
  <2>2. a \in Area /\ b \in Area
    BY DEF SlabInv, SlabTypes
  <2>3. \A x, y \in Area : x.page = y.page /\ x.chunk = y.chunk /\ x.run = y.run => x = y
    BY DEF Area
  <2> QED BY <1>4, <2>1, <2>2, <2>3
<1>5. \A c \in Classes : ToSet(slot'[c]) = ToSet(slot[c]) \ {a.page}
  <2> SUFFICES ASSUME NEW c \in Classes PROVE a.page \notin ToSet(slot[c])
    BY <1>3
  <2> QED BY <1>1, SlabAssumption DEF SlabInv, SlotsHaveRoom, NoClass
<1>6. slot' \in [Classes -> Seq(SlabPages)] /\ \A c \in Classes : IsInjective(slot'[c])
  BY <1>3 DEF SlabInv, SlabTypes
<1> QED BY <1>3, <1>4, <1>5, <1>6, FreedInv

\* The slot of a page that has room again.
LEMMA RelinkFacts ==
  ASSUME SlabInv, NEW p \in SlabPages, NEW c \in Classes, slab[p].class = c
  PROVE  /\ Relinked(c, p) \in Seq(SlabPages) /\ IsInjective(Relinked(c, p))
         /\ ToSet(Relinked(c, p)) = ToSet(slot[c]) \cup {p}
<1>1. slot[c] \in Seq(SlabPages) /\ IsInjective(slot[c]) /\ (p \in ToSet(slot[c]) <=> slab[p].map # ClassChunks(c))
  BY DEF SlabInv, SlabTypes, SlotsHaveRoom
<1>2. CASE slab[p].map = ClassChunks(c)
  BY <1>1, <1>2, ListHead DEF Relinked
<1>3. CASE slab[p].map # ClassChunks(c)
  BY <1>1, <1>3 DEF Relinked
<1> QED BY <1>2, <1>3

\* A chunk is released, and with the last one its page.
LEMMA ReleaseChunkStep ==
  ASSUME SlabInv, NEW a \in live, ReleaseChunk(a), live' = live \ {a}, refused' = NotRefused
  PROVE  SlabInv'
<1> DEFINE p == a.page c == slab[p].class m == slab[p].map \ {a.chunk} s == Relinked(c, p)
<1>1. p \in SlabPages /\ p \in LiveHeads /\ a \in Area /\ c # NoClass
  BY DEF SlabInv, SlabTypes, Area, LiveHeads, ReleaseChunk
<1>2. c \in Classes /\ PageExact(slab, live, p, c) /\ p \notin FreeHeads
  BY <1>1, ClassPage
<1>3. \A b \in live : b.page = p =>
        b.run = 0 /\ b.chunk \in Int /\ b = [page |-> p, chunk |-> b.chunk, run |-> 0]
  BY <1>1 DEF SlabInv, SlabTypes, HeadsKnown, Area
<1>4. a.chunk \in slab[p].map \ BitmapOf(c)
  BY <1>2, <1>3 DEF PageExact
<1>5. s \in Seq(SlabPages) /\ IsInjective(s) /\ ToSet(s) = ToSet(slot[c]) \cup {p}
  BY <1>1, <1>2, RelinkFacts
<1>6. \A x \in slab[p].map : x \in Int
  BY <1>1 DEF SlabInv, SlabTypes, PageRecord
<1>7. \/ Empty(c, m) /\ FreePages(p, 1) /\ slot' = [slot EXCEPT ![c] = WithoutPage(s, p)]
      \/ /\ ~Empty(c, m) /\ freeRuns' = freeRuns
         /\ slab' = [slab EXCEPT ![p] = ChunkPage(c, m)] /\ slot' = [slot EXCEPT ![c] = s]
  BY DEF ReleaseChunk
<1>8. slot \in [Classes -> Seq(SlabPages)] /\ \A d \in Classes : IsInjective(slot[d])
  BY DEF SlabInv, SlabTypes
<1> HIDE DEF s
<1>9. CASE Empty(c, m) /\ FreePages(p, 1) /\ slot' = [slot EXCEPT ![c] = WithoutPage(s, p)]
  <2>1. ASSUME NEW b \in live, b.page = p PROVE b = a
    <3>1. b.chunk \in slab[p].map \ BitmapOf(c)
      BY <1>2, <1>3, <2>1 DEF PageExact
    <3>2. b.chunk = a.chunk
      BY <1>9, <3>1 DEF Empty
    <3> QED BY <1>3, <2>1, <3>2
  <2>2. Extents(slab)[p] = 1
    BY <1>1 DEF Extents
  <2>3. WithoutPage(s, p) \in Seq(SlabPages) /\ IsInjective(WithoutPage(s, p))
        /\ ToSet(WithoutPage(s, p)) = ToSet(slot[c]) \ {p}
    <3>1. p \in ToSet(s) /\ \E i \in DOMAIN s : s[i] = p
      BY <1>5 DEF ToSet
    <3> DEFINE x == p r == RemoveAt(s, CHOOSE i \in DOMAIN s : s[i] = x)
    <3>2. WithoutPage(s, p) = r
      BY <3>1 DEF WithoutPage
    <3>3. x \in ToSet(s) /\ s \in Seq(SlabPages) /\ IsInjective(s)
      BY <1>5, <3>1
    <3> HIDE DEF x
    <3>4. r \in Seq(SlabPages) /\ IsInjective(r) /\ ToSet(r) = ToSet(s) \ {x}
      BY <3>3, ListPlace
    <3> HIDE DEF r
    <3>5. ToSet(r) = ToSet(slot[c]) \ {p}
      BY <1>5, <3>4 DEF x
    <3> QED BY <3>2, <3>4, <3>5
  <2>4. slot' \in [Classes -> Seq(SlabPages)] /\ \A d \in Classes : IsInjective(slot'[d])
    BY <1>2, <1>8, <1>9, <2>3
  <2>5. \A d \in Classes : ToSet(slot'[d]) = ToSet(slot[d]) \ {p}
    <3>1. \A d \in Classes : d # c => p \notin ToSet(slot[d])
      BY DEF SlabInv, SlotsHaveRoom
    <3> QED BY <1>2, <1>8, <1>9, <2>3, <3>1
  <2> QED BY <1>9, <2>1, <2>2, <2>4, <2>5, FreedInv
<1>10. CASE /\ ~Empty(c, m) /\ freeRuns' = freeRuns
            /\ slab' = [slab EXCEPT ![p] = ChunkPage(c, m)] /\ slot' = [slot EXCEPT ![c] = s]
  <2>1. m \subseteq ClassChunks(c) /\ m # BitmapOf(c) /\ BitmapOf(c) \subseteq m /\ m \in SUBSET Int /\ m # ClassChunks(c)
    BY <1>2, <1>4, <1>6, <1>10 DEF PageExact, Empty
  <2>2. \A j \in Int : j \in m \ BitmapOf(c) <=> [page |-> p, chunk |-> j, run |-> 0] \in live'
    <3> SUFFICES ASSUME NEW j \in Int
                 PROVE  j \in m \ BitmapOf(c) <=> [page |-> p, chunk |-> j, run |-> 0] \in live'
      OBVIOUS
    <3>1. [page |-> p, chunk |-> j, run |-> 0] \in live <=> j \in slab[p].map \ BitmapOf(c)
      BY <1>2 DEF PageExact
    <3>2. a = [page |-> p, chunk |-> a.chunk, run |-> 0]
      BY <1>3
    <3>3. [page |-> p, chunk |-> j, run |-> 0] = a <=> j = a.chunk
      BY <3>2
    <3> QED BY <3>1, <3>3
  <2> DEFINE k == c
  <2> HIDE DEF m, k
  <2>3. k = c
    BY DEF k
  <2>4. /\ slab' \in [SlabPages -> PageRecord] /\ slab'[p].class = k /\ slab'[p].map = m
        /\ \A q \in SlabPages \ {p} : slab'[q] = slab[q]
    <3>1. ChunkPage(k, m) \in PageRecord /\ ChunkPage(k, m).class = k /\ ChunkPage(k, m).map = m
      BY <1>2, <2>1, <2>3 DEF ChunkPage, PageRecord
    <3>2. slab' = [slab EXCEPT ![p] = ChunkPage(k, m)]
      BY <1>10, <2>3
    <3> HIDE DEF p
    <3> QED BY <1>1, <3>1, <3>2 DEF SlabInv, SlabTypes
  <2>5. p \in LiveHeads'
    <3>1. PICK j \in Int : j \in m \ BitmapOf(c)
      BY <2>1
    <3>2. [page |-> p, chunk |-> j, run |-> 0] \in live'
      BY <2>2, <3>1
    <3> QED BY <3>2 DEF LiveHeads
  <2>6. FreeHeads' = FreeHeads /\ LiveHeads' = LiveHeads /\ Heads' = Heads
    BY <1>1, <1>10, <2>5 DEF FreeHeads, LiveHeads, Heads
  <2>7. SlabTypes'
    BY <1>2, <1>5, <1>8, <1>10, <2>4 DEF SlabInv, SlabTypes
  <2>8. Tiled(Heads, Extents(slab))'
    <3>1. Extents(slab') = Extents(slab)
      BY <1>1, <2>3, <2>4 DEF Extents
    <3> QED BY <2>6, <3>1 DEF SlabInv
  <2>9. HeadsKnown'
    <3>1. ASSUME NEW b \in live
          PROVE  IF slab'[b.page].class = NoClass THEN b.run = slab'[b.page].run /\ b.chunk = 0 ELSE b.run = 0
      <4>1. b.page \in SlabPages
        BY DEF SlabInv, SlabTypes, Area
      <4> QED BY <1>1, <2>3, <2>4, <4>1 DEF SlabInv, HeadsKnown
    <3>2. \A q \in FreeHeads : slab'[q].class = NoClass
      BY <1>2, <2>4, HeadsPages DEF SlabInv, HeadsKnown, Heads
    <3> QED BY <2>6, <3>1, <3>2 DEF SlabInv, HeadsKnown
  <2>10. ChunksExact'
    <3>1. PageExact(slab', live', p, k)
      BY <2>1, <2>2, <2>3, <2>4 DEF PageExact
    <3>2. \A q \in SlabPages \ {p} : \A j \in Int :
             [page |-> q, chunk |-> j, run |-> 0] \in live' <=> [page |-> q, chunk |-> j, run |-> 0] \in live
      OBVIOUS
    <3>3. \A d \in Classes : slab'[p].class = d => PageExact(slab', live', p, d)
      BY <2>4, <3>1
    <3>4. \A q \in SlabPages : \A d \in Classes : slab'[q].class = d => PageExact(slab', live', q, d)
      BY <1>1, <2>4, <3>2, <3>3, ChunksKept
    <3> QED BY <3>4 DEF ChunksExact
  <2>11. SlotsHaveRoom'
    <3> SUFFICES ASSUME NEW d \in Classes
                 PROVE  ToSet(slot'[d]) = {q \in SlabPages : slab'[q].class = d /\ slab'[q].map # ClassChunks(d)}
      BY DEF SlotsHaveRoom
    <3>1. ToSet(slot[d]) = {q \in SlabPages : slab[q].class = d /\ slab[q].map # ClassChunks(d)}
      BY DEF SlabInv, SlotsHaveRoom
    <3>2. slot'[d] = IF d = k THEN s ELSE slot[d]
      BY <1>2, <1>8, <1>10, <2>3
    <3>3. CASE d = k
      BY <1>1, <1>5, <2>1, <2>3, <2>4, <3>1, <3>2, <3>3
    <3>4. CASE d # k
      BY <2>3, <2>4, <3>1, <3>2, <3>4
    <3> QED BY <3>3, <3>4
  <2>12. RefusedIsFull'
    BY DEF RefusedIsFull, NotRefused
  <2> QED BY <2>7, <2>8, <2>9, <2>10, <2>11, <2>12 DEF SlabInv
<1> QED BY <1>7, <1>9, <1>10

-----------------------------------------------------------------------------
(* The theorem *)

\* The zone starts as one free run.
LEMMA SlabStart == SlabInit => SlabInv
<1> SUFFICES ASSUME SlabInit PROVE SlabInv
  OBVIOUS
<1>1. PageCount \in Nat \ {0} /\ 0 \in SlabPages
  BY SlabAssumption DEF SlabPages
<1>2. /\ slab = [p \in SlabPages |-> IF p = 0 THEN Run(PageCount) ELSE PageFree]
      /\ freeRuns = <<0>> /\ slot = [c \in Classes |-> <<>>] /\ live = {} /\ refused = NotRefused
  BY DEF SlabInit
<1>3. FreeHeads = {0} /\ LiveHeads = {} /\ Heads = {0}
  BY <1>2 DEF FreeHeads, LiveHeads, Heads, ToSet
<1>4. Run(PageCount) \in PageRecord /\ PageFree \in PageRecord /\ Run(PageCount).class = NoClass
      /\ PageFree.class = NoClass /\ Run(PageCount).run = PageCount
  BY <1>1 DEF Run, PageFree, PageRecord
<1>5. slab \in [SlabPages -> PageRecord] /\ slab[0].run = PageCount /\ \A p \in SlabPages : slab[p].class = NoClass
  BY <1>1, <1>2, <1>4
<1>6. SlabTypes
  <2>1. <<0>> \in Seq(SlabPages) /\ IsInjective(<<0>>)
    BY <1>1 DEF IsInjective
  <2>2. slot \in [Classes -> Seq(SlabPages)] /\ \A c \in Classes : IsInjective(slot[c])
    BY <1>2, EmptySeq DEF IsInjective
  <2> QED BY <1>2, <1>5, <2>1, <2>2 DEF SlabTypes
<1>7. Tiled(Heads, Extents(slab))
  <2>1. Extents(slab)[0] = PageCount
    BY <1>1, <1>5 DEF Extents
  <2> QED BY <1>1, <1>3, <2>1 DEF Tiled, SlabPages
<1>8. HeadsKnown
  BY <1>1, <1>2, <1>3, <1>5 DEF HeadsKnown
<1>9. ChunksExact
  BY <1>5, SlabAssumption DEF ChunksExact, NoClass
<1>10. SlotsHaveRoom
  <2>1. ToSet(<<>>) = {}
    BY DEF ToSet
  <2> QED BY <1>2, <1>5, <2>1, SlabAssumption DEF SlotsHaveRoom, NoClass
<1>11. RefusedIsFull
  BY <1>2 DEF RefusedIsFull, NotRefused
<1> QED BY <1>6, <1>7, <1>8, <1>9, <1>10, <1>11 DEF SlabInv

\* Every call of the allocator keeps the invariant.
LEMMA SlabStep == SlabInv /\ [SlabNext]_slabVars => SlabInv'
<1> SUFFICES ASSUME SlabInv, [SlabNext]_slabVars PROVE SlabInv'
  OBVIOUS
<1>1. ASSUME NEW n \in 1..MaxRun, AllocRun(n) PROVE SlabInv'
  <2>1. n \in Nat \ {0}
    BY SlabAssumption
  <2> QED BY <1>1, <2>1, RunStep
<1>2. ASSUME NEW c \in Classes, AllocOld(c) PROVE SlabInv'
  BY <1>2, ChunkStep
<1>3. ASSUME NEW c \in Classes, AllocNew(c) PROVE SlabInv'
  <2>1. CASE Fitting(1) = {} /\ refused' = [class |-> c, run |-> 0] /\ UNCHANGED <<slab, freeRuns, slot, live>>
    BY <1>3, <2>1, RefusedStep DEF AllocNew
  <2>2. CASE \E i \in Fitting(1) :
               /\ slab' = [CutRun(i, 1) EXCEPT ![freeRuns[i]] = ChunkPage(c, FirstMap(c))]
               /\ freeRuns' = FreeAfterCut(i, 1) /\ slot' = [slot EXCEPT ![c] = <<freeRuns[i]>>]
               /\ live' = live \cup {[page |-> freeRuns[i], chunk |-> Reserved[c], run |-> 0]}
               /\ refused' = NotRefused
    BY <1>3, <2>2, NewPageStep DEF AllocNew
  <2> QED BY <1>3, <2>1, <2>2 DEF AllocNew
<1>4. ASSUME NEW a \in live, Release(a) PROVE SlabInv'
  BY <1>4, ReleaseRunStep, ReleaseChunkStep DEF Release
<1>5. CASE UNCHANGED slabVars
  <2>1. UNCHANGED <<slab, freeRuns, slot, live, refused>>
    BY <1>5 DEF slabVars
  <2>2. Heads' = Heads /\ FreeHeads' = FreeHeads /\ LiveHeads' = LiveHeads /\ Extents(slab') = Extents(slab)
    BY <2>1 DEF Heads, FreeHeads, LiveHeads
  <2>3. SlabTypes' /\ HeadsKnown'
    BY <2>1, <2>2 DEF SlabInv, SlabTypes, HeadsKnown
  <2>4. SlotsHaveRoom'
    BY <2>1 DEF SlabInv, SlotsHaveRoom
  <2>5. FreePageSet' = FreePageSet
    BY <2>1 DEF FreePageSet
  <2>6. RefusedIsFull'
    BY <2>1, <2>5 DEF SlabInv, RefusedIsFull
  <2>7. ChunksExact'
    BY <2>1 DEF SlabInv, ChunksExact
  <2>8. Tiled(Heads, Extents(slab))'
    BY <2>2 DEF SlabInv
  <2> QED BY <2>3, <2>7, <2>8, <2>4, <2>6 DEF SlabInv
<1> QED BY <1>1, <1>2, <1>3, <1>4, <1>5 DEF SlabNext

\* The heads and their extents are numbers.
LEMMA HeadNumbers ==
  ASSUME SlabInv, NEW p \in Heads
  PROVE  p \in Nat /\ p \in SlabPages /\ Extents(slab)[p] \in Int
<1>1. p \in SlabPages
  BY HeadsPages
<1>2. Extents(slab) \in [SlabPages -> Int]
  BY ExtentsType DEF SlabInv, SlabTypes
<1> QED BY <1>1, <1>2 DEF SlabPages

\* Extents that are apart have no page in common.
LEMMA ExtentsApart ==
  ASSUME SlabInv, NEW p \in Heads, NEW q \in Heads, p # q
  PROVE  PagesFrom(p, Extents(slab)[p]) \cap PagesFrom(q, Extents(slab)[q]) = {}
<1>1. p \in Int /\ q \in Int /\ Extents(slab)[p] \in Int /\ Extents(slab)[q] \in Int
  BY HeadNumbers
<1>2. p + Extents(slab)[p] <= q \/ q + Extents(slab)[q] <= p
  BY DEF SlabInv, Tiled
<1> QED BY <1>1, <1>2 DEF PagesFrom

\* The inductive invariant implies the property of the run.
LEMMA SlabInvImplies == SlabInv => MemoryExact
<1> SUFFICES ASSUME SlabInv PROVE MemoryExact
  OBVIOUS
<1>1. \A a \in live : a \in Area /\ a.page \in Heads /\ a.page \in SlabPages /\ a.page \notin FreeHeads
                      /\ ExtentOf(a) = PagesFrom(a.page, Extents(slab)[a.page])
  <2> SUFFICES ASSUME NEW a \in live
               PROVE  a \in Area /\ a.page \in Heads /\ a.page \in SlabPages /\ a.page \notin FreeHeads
                      /\ ExtentOf(a) = PagesFrom(a.page, Extents(slab)[a.page])
    OBVIOUS
  <2>1. a \in Area /\ a.page \in Heads /\ a.page \in SlabPages /\ a.page \notin FreeHeads
    BY DEF SlabInv, SlabTypes, Area, HeadsKnown, Heads, LiveHeads
  <2>2. Extents(slab)[a.page] = IF a.run = 0 THEN 1 ELSE a.run
    BY <2>1 DEF SlabInv, HeadsKnown, Extents, Tiled
  <2> QED BY <2>1, <2>2 DEF ExtentOf
<1>2. \A i \in DOMAIN freeRuns : /\ freeRuns[i] \in FreeHeads /\ freeRuns[i] \in Heads
                                 /\ slab[freeRuns[i]].run = Extents(slab)[freeRuns[i]]
  BY HeadsPages DEF SlabInv, HeadsKnown, Heads, FreeHeads, ToSet, Extents
<1>3. NoSharedMemory
  <2>1. ASSUME NEW a \in live, NEW b \in live, a # b
        PROVE  IF a.run = 0 /\ b.run = 0 THEN a.page # b.page \/ a.chunk # b.chunk
               ELSE ExtentOf(a) \cap ExtentOf(b) = {}
    <3>1. \A x, y \in Area : x.page = y.page /\ x.chunk = y.chunk /\ x.run = y.run => x = y
      BY DEF Area
    <3>2. CASE a.page = b.page
      BY <1>1, <2>1, <3>1, <3>2 DEF SlabInv, HeadsKnown
    <3>3. CASE a.page # b.page
      BY <1>1, <3>3, ExtentsApart
    <3> QED BY <3>2, <3>3
  <2>2. ASSUME NEW a \in live, a.run = 0
        PROVE  slab[a.page].class # NoClass /\ a.chunk >= Reserved[slab[a.page].class]
    <3> DEFINE c == slab[a.page].class
    <3>1. c # NoClass
      <4>1. Extents(slab)[a.page] >= 1
        BY <1>1 DEF SlabInv, Tiled
      <4>2. Extents(slab)[a.page] = IF c = NoClass THEN slab[a.page].run ELSE 1
        BY <1>1 DEF Extents
      <4>3. c = NoClass => slab[a.page].run = 0
        BY <2>2 DEF SlabInv, HeadsKnown
      <4> HIDE DEF c
      <4> QED BY <4>1, <4>2, <4>3
    <3>2. c \in Classes /\ PageExact(slab, live, a.page, c)
      BY <1>1, <3>1, ClassPage
    <3>3. a = [page |-> a.page, chunk |-> a.chunk, run |-> 0] /\ a.chunk \in Nat
      BY <1>1, <2>2 DEF Area
    <3>4. a.chunk \notin BitmapOf(c)
      BY <3>2, <3>3 DEF PageExact
    <3> HIDE DEF c
    <3>5. a.chunk >= Reserved[c]
      BY <3>2, <3>3, <3>4, BitmapFacts DEF BitmapOf
    <3> QED BY <3>1, <3>5 DEF c
  <2> QED BY <2>1, <2>2 DEF NoSharedMemory
<1>4. PagesConserved
  <2>1. \A q \in SlabPages : \E p \in Heads : q \in PagesFrom(p, Extents(slab)[p])
    <3> SUFFICES ASSUME NEW q \in SlabPages PROVE \E p \in Heads : q \in PagesFrom(p, Extents(slab)[p])
      OBVIOUS
    <3>1. PICK p \in Heads : p <= q /\ q < p + Extents(slab)[p]
      BY DEF SlabInv, Tiled
    <3>2. p \in Int /\ q \in Int /\ Extents(slab)[p] \in Int
      BY HeadNumbers DEF SlabPages
    <3>3. q \in PagesFrom(p, Extents(slab)[p])
      BY <3>1, <3>2 DEF PagesFrom
    <3> QED BY <3>3
  <2>2. \A p \in Heads : PagesFrom(p, Extents(slab)[p]) \subseteq SlabPages
    <3> SUFFICES ASSUME NEW p \in Heads PROVE PagesFrom(p, Extents(slab)[p]) \subseteq SlabPages
      OBVIOUS
    <3>1. p \in Nat /\ Extents(slab)[p] \in Int /\ p + Extents(slab)[p] <= PageCount /\ PageCount \in Nat
      BY HeadNumbers, SlabAssumption DEF SlabInv, Tiled
    <3> QED BY <3>1 DEF PagesFrom, SlabPages
  <2>3. ASSUME NEW q PROVE q \in LivePages <=> \E p \in LiveHeads : q \in PagesFrom(p, Extents(slab)[p])
    BY <1>1 DEF LivePages, LiveHeads
  <2>4. ASSUME NEW q PROVE q \in FreePageSet <=> \E p \in FreeHeads : q \in PagesFrom(p, Extents(slab)[p])
    BY <1>2 DEF FreePageSet, FreeHeads, ToSet
  <2>5. ASSUME NEW q PROVE q \in LivePages \cup FreePageSet <=> q \in SlabPages
    BY <2>1, <2>2, <2>3, <2>4 DEF Heads
  <2>6. ASSUME NEW q \in LivePages, q \in FreePageSet PROVE FALSE
    <3>1. PICK p \in LiveHeads : q \in PagesFrom(p, Extents(slab)[p])
      BY <2>3
    <3>2. PICK r \in FreeHeads : q \in PagesFrom(r, Extents(slab)[r])
      BY <2>4, <2>6
    <3>3. p # r /\ p \in Heads /\ r \in Heads
      BY DEF SlabInv, HeadsKnown, Heads
    <3> QED BY <3>1, <3>2, <3>3, ExtentsApart
  <2>7. \A i, j \in DOMAIN freeRuns : i # j =>
          PagesFrom(freeRuns[i], slab[freeRuns[i]].run) \cap PagesFrom(freeRuns[j], slab[freeRuns[j]].run) = {}
    <3> SUFFICES ASSUME NEW i \in DOMAIN freeRuns, NEW j \in DOMAIN freeRuns, i # j
                 PROVE  PagesFrom(freeRuns[i], slab[freeRuns[i]].run) \cap PagesFrom(freeRuns[j], slab[freeRuns[j]].run) = {}
      OBVIOUS
    <3>1. freeRuns[i] # freeRuns[j]
      BY DEF SlabInv, SlabTypes, IsInjective
    <3> QED BY <1>2, <3>1, ExtentsApart
  <2> QED BY <2>5, <2>6, <2>7 DEF PagesConserved
<1> QED BY <1>3, <1>4 DEF SlabInv, MemoryExact

\* After any sequence of allocations and releases: callers do not share memory, no page is lost or
\* linked twice, the pages of a slot are those that have room, and a chunk is refused only if every
\* chunk of its class is taken and no page is free (ngx_slab_alloc_locked, ngx_slab_free_locked).
THEOREM MemoryKept == SlabSpec => []MemoryExact
<1>1. SlabSpec => []SlabInv
  BY SlabStart, SlabStep, PTL DEF SlabSpec
<1> QED BY <1>1, SlabInvImplies, PTL

-----------------------------------------------------------------------------
(* The cycle: the inductive invariant *)

CycleOf(conf) ==
  [conf : {conf}, files : [DOMAIN conf.files -> 0..MaxFd], zones : [DOMAIN conf.zones -> 0..MaxAddr],
   socks : [DOMAIN conf.socks -> 0..MaxFd], open : SUBSET DOMAIN conf.socks]

IsCycle(c) == c.conf \in Confs /\ c \in CycleOf(c.conf)

Building == {"pid", "files", "zones", "inherit", "sockets", "commit", "failed"}

CycleTypes ==
  /\ IsCycle(running) /\ IsCycle(cycle)
  /\ stage \in Building \cup {"idle"} /\ at \in Nat \ {0}
  /\ DOMAIN fds = 1..MaxFd /\ mem \in [1..MaxAddr -> Nat]
  /\ pass \in [left : Nat, failed : BOOLEAN]

\* the descriptors that the running cycle holds
Held == Elements(running.files) \cup Elements(running.socks)

\* and those that the new one opened so far
NewFds == {fd \in Elements(cycle.files) \cup {cycle.socks[n] : n \in cycle.open} : fd # 0}

HeldOpen ==
  /\ \A i \in DOMAIN running.files : running.files[i] \in 1..MaxFd /\ fds[running.files[i]] = LogFile(running.conf.files[i])
  /\ \A i \in DOMAIN running.socks : running.socks[i] \in 1..MaxFd /\ fds[running.socks[i]] = Socket(running.conf.socks[i])

NewOpen ==
  /\ \A i \in DOMAIN cycle.files : cycle.files[i] # 0 => fds[cycle.files[i]] = LogFile(cycle.conf.files[i])
  /\ \A n \in cycle.open : cycle.socks[n] # 0 => fds[cycle.socks[n]] = Socket(cycle.conf.socks[n])
  /\ NewFds \cap Held = {}

FdsOwned == 
  \A fd \in 1..MaxFd : fds[fd] # Closed => fd \in Held \/ (stage # "idle" /\ fd \in NewFds)

\* how far the new cycle is
Progress ==
  /\ stage \in {"pid"} => \A i \in DOMAIN cycle.files : cycle.files[i] = 0
  /\ stage = "files" => \A i \in DOMAIN cycle.files : cycle.files[i] = 0 <=> i >= at
  /\ stage \in {"zones", "inherit", "sockets", "commit"} => \A i \in DOMAIN cycle.files : cycle.files[i] # 0
  /\ stage \in {"pid", "files", "zones", "inherit"} =>
       cycle.open = {} /\ \A n \in DOMAIN cycle.socks : cycle.socks[n] = 0
  /\ stage \in {"sockets", "commit"} =>
       \A n \in DOMAIN cycle.socks : IF Inherited(n) = {} THEN n \in cycle.open
                                     ELSE n \notin cycle.open /\ \E i \in Inherited(n) : cycle.socks[n] = running.socks[i]
  /\ stage = "sockets" /\ ~pass.failed => \A n \in DOMAIN cycle.socks : n < at => cycle.socks[n] # 0
  /\ stage = "commit" => \A n \in DOMAIN cycle.socks : cycle.socks[n] # 0

\* the zones of the new cycle that are there
Ready ==
  IF stage = "zones" THEN {k \in DOMAIN cycle.zones : k < at}
  ELSE IF stage \in {"inherit", "sockets", "commit"} THEN DOMAIN cycle.zones ELSE {}

Replaces(k, i) == /\ cycle.conf.zones[k].name = running.conf.zones[i].name
                  /\ cycle.conf.zones[k].size # running.conf.zones[i].size

\* the zones of the running cycle that are not given up
Intact ==
  IF stage \in {"idle", "pid", "files"} THEN DOMAIN running.zones
  ELSE IF stage = "failed" THEN {i \in DOMAIN running.zones : ~\E k \in DOMAIN cycle.zones : Replaces(k, i)}
  ELSE {i \in DOMAIN running.zones : ~\E k \in Ready : Replaces(k, i)}

ZonesMapped ==
  /\ \A i \in Intact : running.zones[i] \in 1..MaxAddr /\ mem[running.zones[i]] = running.conf.zones[i].size
  /\ \A i, j \in Intact : running.zones[i] = running.zones[j] => i = j
  /\ \A k \in Ready : cycle.zones[k] \in 1..MaxAddr /\ mem[cycle.zones[k]] = cycle.conf.zones[k].size
  /\ \A k, l \in Ready : cycle.zones[k] = cycle.zones[l] => k = l
  /\ \A k \in Ready, i \in Intact : cycle.zones[k] = running.zones[i] => cycle.conf.zones[k].name = running.conf.zones[i].name

PidsExact ==
  /\ stage \in {"idle", "pid"} => pids = {running.conf.pid}
  /\ stage \in {"files", "zones", "inherit", "sockets", "commit"} => pids = {cycle.conf.pid}
  /\ stage = "failed" /\ running.conf.pid = cycle.conf.pid => pids = {running.conf.pid}

\* the master lives
CycleLives ==
  /\ CycleTypes /\ HeldOpen /\ FdsOwned
  /\ stage # "idle" => NewOpen /\ Progress
  /\ ~Resized => ZonesMapped
  /\ ~Moved => PidsExact

CycleInv == stage \in {"exited", "crashed"} \/ CycleLives

-----------------------------------------------------------------------------
(* Lists *)

\* The lists of a configuration.
LEMMA ConfLists ==
  ASSUME NEW conf \in Confs
  PROVE  /\ DOMAIN conf.files = 1..Len(conf.files) /\ Len(conf.files) \in Nat
         /\ DOMAIN conf.zones = 1..Len(conf.zones) /\ Len(conf.zones) \in Nat
         /\ DOMAIN conf.socks = 1..Len(conf.socks) /\ Len(conf.socks) \in Nat
<1>1. ASSUME NEW s, IsList(s) PROVE DOMAIN s = 1..Len(s) /\ Len(s) \in Nat
  BY <1>1, LenProperties DEF IsList
<1> QED BY <1>1, CycleAssumption

\* The lists of a cycle are as long as those of its configuration.
LEMMA CycleLists ==
  ASSUME NEW c, IsCycle(c)
  PROVE  /\ DOMAIN c.files = 1..Len(c.files) /\ Len(c.files) \in Nat /\ DOMAIN c.files = DOMAIN c.conf.files
         /\ DOMAIN c.zones = 1..Len(c.zones) /\ Len(c.zones) \in Nat /\ DOMAIN c.zones = DOMAIN c.conf.zones
         /\ DOMAIN c.socks = 1..Len(c.socks) /\ Len(c.socks) \in Nat /\ DOMAIN c.socks = DOMAIN c.conf.socks
         /\ Len(c.files) = Len(c.conf.files) /\ Len(c.socks) = Len(c.conf.socks)
         /\ \A i \in DOMAIN c.files : c.files[i] \in 0..MaxFd
         /\ \A i \in DOMAIN c.zones : c.zones[i] \in 0..MaxAddr
         /\ \A i \in DOMAIN c.socks : c.socks[i] \in 0..MaxFd
         /\ c.open \subseteq DOMAIN c.socks /\ c.conf \in Confs
<1>1. ASSUME NEW n \in Nat, NEW S, NEW f \in [1..n -> S] PROVE Len(f) = n
  <2>1. f \in Seq(S)
    BY <1>1, SeqDef
  <2> QED BY <2>1, LenProperties
<1>2. /\ c.conf \in Confs /\ c.files \in [DOMAIN c.conf.files -> 0..MaxFd]
      /\ c.zones \in [DOMAIN c.conf.zones -> 0..MaxAddr]
      /\ c.socks \in [DOMAIN c.conf.socks -> 0..MaxFd] /\ c.open \subseteq DOMAIN c.conf.socks
  BY DEF IsCycle, CycleOf
<1>3. /\ DOMAIN c.conf.files = 1..Len(c.conf.files) /\ Len(c.conf.files) \in Nat
      /\ DOMAIN c.conf.zones = 1..Len(c.conf.zones) /\ Len(c.conf.zones) \in Nat
      /\ DOMAIN c.conf.socks = 1..Len(c.conf.socks) /\ Len(c.conf.socks) \in Nat
  BY <1>2, ConfLists
<1>4. Len(c.files) = Len(c.conf.files) /\ Len(c.zones) = Len(c.conf.zones) /\ Len(c.socks) = Len(c.conf.socks)
  BY <1>1, <1>2, <1>3
<1> QED BY <1>2, <1>3, <1>4

\* A new cycle has no descriptor yet.
LEMMA FreshCycle ==
  ASSUME NEW conf \in Confs
  PROVE  LET c == Fresh(conf) IN
         /\ IsCycle(c) /\ c.conf = conf /\ c.open = {}
         /\ \A i \in DOMAIN c.files : c.files[i] = 0
         /\ \A i \in DOMAIN c.socks : c.socks[i] = 0
<1>1. 0 \in 0..MaxFd /\ 0 \in 0..MaxAddr
  BY CycleAssumption
<1> QED BY <1>1 DEF Fresh, NoneYet, IsCycle, CycleOf

\* One element of the lists of a cycle gets a number.
LEMMA CycleUpdated ==
  ASSUME NEW c, IsCycle(c)
  PROVE  /\ \A i \in DOMAIN c.files : \A v \in 0..MaxFd :
              LET d == [c EXCEPT !.files[i] = v] IN
              IsCycle(d) /\ d.conf = c.conf /\ d.zones = c.zones /\ d.socks = c.socks /\ d.open = c.open
              /\ d.files = [c.files EXCEPT ![i] = v]
         /\ \A i \in DOMAIN c.zones : \A v \in 0..MaxAddr :
              LET d == [c EXCEPT !.zones[i] = v] IN
              IsCycle(d) /\ d.conf = c.conf /\ d.files = c.files /\ d.socks = c.socks /\ d.open = c.open
              /\ d.zones = [c.zones EXCEPT ![i] = v]
         /\ \A i \in DOMAIN c.socks : \A v \in 0..MaxFd :
              LET d == [c EXCEPT !.socks[i] = v] IN
              IsCycle(d) /\ d.conf = c.conf /\ d.files = c.files /\ d.zones = c.zones /\ d.open = c.open
              /\ d.socks = [c.socks EXCEPT ![i] = v]
BY DEF IsCycle, CycleOf

-----------------------------------------------------------------------------
(* What a step leaves alone *)

\* The descriptors stay as they are.
LEMMA FdsFrame ==
  ASSUME CycleLives, stage # "idle", stage' # "idle", UNCHANGED <<running, fds>>,
         cycle'.conf = cycle.conf, cycle'.files = cycle.files, cycle'.socks = cycle.socks, cycle'.open = cycle.open
  PROVE  HeldOpen' /\ FdsOwned' /\ NewOpen'
<1>1. Held' = Held /\ NewFds' = NewFds
  BY DEF Held, NewFds
<1> QED BY <1>1 DEF CycleLives, HeldOpen, FdsOwned, NewOpen

\* The zones stay as they are.
LEMMA ZonesFrame ==
  ASSUME ZonesMapped, UNCHANGED mem, running'.zones = running.zones, running'.conf = running.conf,
         cycle'.zones = cycle.zones, cycle'.conf = cycle.conf, Ready' \subseteq Ready, Intact' \subseteq Intact
  PROVE  ZonesMapped'
BY DEF ZonesMapped

\* A cycle that fails keeps what no configuration resized.
LEMMA IntactShrinks ==
  ASSUME running'.zones = running.zones, running'.conf = running.conf,
         cycle'.zones = cycle.zones, cycle'.conf = cycle.conf,
         stage' = "failed" \/ (stage' = stage /\ stage # "zones")
  PROVE  Intact' \subseteq Intact /\ Ready' \subseteq Ready
<1>1. Ready \subseteq DOMAIN cycle.zones
  BY DEF Ready
<1> QED BY <1>1 DEF Intact, Ready, Replaces

\* The steps that only fail.
LEMMA FailsStep ==
  ASSUME CycleLives, stage # "idle", Fails, UNCHANGED <<running, cycle, fds, mem, undone>>,
         pass' \in [left : Nat, failed : BOOLEAN],
         running.conf.pid = cycle.conf.pid /\ ~Moved => pids' = {running.conf.pid}
  PROVE  CycleLives'
<1>1. stage' = "failed" /\ at' = 1
  BY DEF Fails, Goes
<1>2. CycleTypes'
  BY <1>1 DEF CycleLives, CycleTypes, Building
<1>3. HeldOpen' /\ FdsOwned' /\ NewOpen'
  BY <1>1, FdsFrame
<1>4. Progress'
  BY <1>1 DEF Progress
<1>5. ~Resized' => ZonesMapped'
  BY <1>1, IntactShrinks, ZonesFrame DEF Resized, CycleLives
<1>6. ~Moved' => PidsExact'
  BY <1>1 DEF Moved, PidsExact
<1> QED BY <1>2, <1>3, <1>4, <1>5, <1>6 DEF CycleLives

-----------------------------------------------------------------------------
(* The steps *)

\* ngx_init_cycle begins.
LEMMA ReloadStep ==
  ASSUME CycleLives, NEW conf \in Confs, Reload(conf)
  PROVE  CycleLives'
<1>1. stage = "idle" /\ stage' = "pid" /\ at' = 1 /\ cycle' = Fresh(conf)
      /\ UNCHANGED <<running, pass, fds, mem, pids, undone>>
  BY DEF Reload, Goes
<1>2. /\ IsCycle(cycle') /\ cycle'.open = {}
      /\ \A i \in DOMAIN cycle'.files : cycle'.files[i] = 0
      /\ \A i \in DOMAIN cycle'.socks : cycle'.socks[i] = 0
  BY <1>1, FreshCycle
<1>3. CycleTypes'
  BY <1>1, <1>2 DEF CycleLives, CycleTypes, Building
<1>4. Held' = Held /\ NewFds' = {}
  BY <1>1, <1>2 DEF Held, NewFds, Elements
<1>5. HeldOpen' /\ FdsOwned' /\ NewOpen'
  BY <1>1, <1>2, <1>4 DEF CycleLives, HeldOpen, FdsOwned, NewOpen
<1>6. Progress'
  BY <1>1, <1>2 DEF Progress
<1>7. ~Resized' => ZonesMapped'
  BY <1>1 DEF Resized, CycleLives, ZonesMapped, Ready, Intact
<1>8. ~Moved' => PidsExact'
  BY <1>1 DEF Moved, PidsExact, CycleLives
<1> QED BY <1>3, <1>5, <1>6, <1>7, <1>8 DEF CycleLives

\* ngx_create_pidfile, the lock file and the paths
LEMMA PidFileStep == ASSUME CycleLives, PidFile PROVE CycleLives'
<1>1. stage = "pid" /\ UNCHANGED <<running, cycle, pass, fds, mem, reloads, undone>>
  BY DEF PidFile
<1>2. pass \in [left : Nat, failed : BOOLEAN] /\ IsCycle(cycle)
  BY DEF CycleLives, CycleTypes
<1>3. /\ running.conf.pid = cycle.conf.pid /\ ~Moved => pids' = {running.conf.pid}
      /\ ~Moved => (stage' = "files" => pids' = {cycle.conf.pid})
  BY <1>1 DEF PidFile, Goes, Fails, CycleLives, PidsExact
<1>4. CASE Fails
  BY <1>1, <1>2, <1>3, <1>4, FailsStep
<1>5. CASE stage' = "files" /\ at' = 1
  <2>1. CycleTypes'
    BY <1>1, <1>5 DEF CycleLives, CycleTypes, Building
  <2>2. HeldOpen' /\ FdsOwned' /\ NewOpen'
    BY <1>1, <1>5, FdsFrame
  <2>3. Progress'
    <3>1. \A i \in DOMAIN cycle.files : i >= 1
      BY <1>2, CycleLists
    <3> QED BY <1>1, <1>5, <3>1 DEF Progress, CycleLives
  <2>4. ~Resized' => ZonesMapped'
    BY <1>1, <1>5 DEF Resized, CycleLives, ZonesMapped, Ready, Intact
  <2>5. ~Moved' => PidsExact'
    BY <1>1, <1>3, <1>5 DEF Moved, PidsExact
  <2> QED BY <2>1, <2>2, <2>3, <2>4, <2>5 DEF CycleLives
<1> QED BY <1>4, <1>5 DEF PidFile, Goes, Fails

\* A log file is opened: the new descriptor is nobody's.
LEMMA OpenFileStep == ASSUME CycleLives, OpenFile PROVE CycleLives'
<1>1. stage = "files" /\ UNCHANGED <<running, pass, mem, pids, reloads, undone>>
  BY DEF OpenFile
<1>2. /\ IsCycle(cycle) /\ IsCycle(running) /\ at \in Nat \ {0} /\ pass \in [left : Nat, failed : BOOLEAN]
      /\ NewOpen /\ Progress /\ DOMAIN fds = 1..MaxFd
  BY <1>1 DEF CycleLives, CycleTypes
<1>3. CASE Fails /\ UNCHANGED <<cycle, fds>>
  <2>1. running.conf.pid = cycle.conf.pid /\ ~Moved => pids' = {running.conf.pid}
    BY <1>1 DEF CycleLives, PidsExact
  <2> QED BY <1>1, <1>2, <1>3, <2>1, FailsStep
<1>4. CASE at > Len(cycle.files) /\ Goes("zones") /\ UNCHANGED <<cycle, fds>>
  <2>1. stage' = "zones" /\ at' = 1
    BY <1>4 DEF Goes
  <2>2. CycleTypes'
    BY <1>1, <1>4, <2>1 DEF CycleLives, CycleTypes, Building
  <2>3. HeldOpen' /\ FdsOwned' /\ NewOpen'
    BY <1>1, <1>4, <2>1, FdsFrame
  <2>4. \A i \in DOMAIN cycle.files : cycle.files[i] # 0
    <3>1. \A i \in DOMAIN cycle.files : ~(i >= at)
      BY <1>2, <1>4, CycleLists
    <3> QED BY <1>1, <1>2, <3>1 DEF Progress
  <2>5. Progress'
    BY <1>1, <1>2, <1>4, <2>1, <2>4 DEF Progress
  <2>6. Ready' = {} /\ Intact' = Intact
    <3>1. \A i \in DOMAIN cycle.zones : ~(i < 1)
      BY <1>2, CycleLists
    <3> QED BY <1>1, <1>4, <2>1, <3>1 DEF Ready, Intact
  <2>7. ~Resized' => ZonesMapped'
    BY <1>1, <1>4, <2>6, ZonesFrame DEF Resized, CycleLives
  <2>8. ~Moved' => PidsExact'
    BY <1>1, <1>4, <2>1 DEF Moved, PidsExact, CycleLives
  <2> QED BY <2>2, <2>3, <2>5, <2>7, <2>8 DEF CycleLives
<1>5. CASE at <= Len(cycle.files) /\ \E fd \in LowestFree(fds, Closed) :
                /\ fds' = [fds EXCEPT ![fd] = LogFile(cycle.conf.files[at])]
                /\ cycle' = [cycle EXCEPT !.files[at] = fd]
                /\ GoesOn
  <2>1. PICK fd \in LowestFree(fds, Closed) :
          /\ fds' = [fds EXCEPT ![fd] = LogFile(cycle.conf.files[at])]
          /\ cycle' = [cycle EXCEPT !.files[at] = fd]
          /\ at' = at + 1 /\ stage' = "files"
    BY <1>1, <1>5 DEF GoesOn
  <2>2. fd \in 1..MaxFd /\ fds[fd] = Closed /\ fd # 0 /\ fd \in 0..MaxFd
    BY <1>2, <2>1, CycleAssumption DEF LowestFree
  <2>3. at \in DOMAIN cycle.files /\ cycle.files[at] = 0
    <3>1. at \in DOMAIN cycle.files
      BY <1>2, <1>5, CycleLists
    <3> QED BY <1>1, <1>2, <3>1 DEF Progress
  <2>4. /\ IsCycle(cycle') /\ cycle'.conf = cycle.conf /\ cycle'.zones = cycle.zones
        /\ cycle'.socks = cycle.socks /\ cycle'.open = cycle.open /\ cycle'.files = [cycle.files EXCEPT ![at] = fd]
    BY <1>2, <2>1, <2>2, <2>3, CycleUpdated
  <2>5. CycleTypes'
    BY <1>1, <1>2, <2>1, <2>4 DEF CycleLives, CycleTypes, Building
  <2>6. /\ \A x \in 1..MaxFd : fds'[x] = IF x = fd THEN LogFile(cycle.conf.files[at]) ELSE fds[x]
        /\ LogFile(cycle.conf.files[at]) # Closed
    BY <1>2, <2>1 DEF LogFile, Closed
  <2>7. fd \notin Held /\ fd \notin NewFds
    <3>1. Closed # LogFile(1) /\ \A x : Closed # LogFile(x) /\ Closed # Socket(x)
      BY DEF LogFile, Closed, Socket
    <3>2. fd \notin Held
      BY <2>2, <3>1 DEF CycleLives, HeldOpen, Held, Elements
    <3>3. fd \notin NewFds
      BY <1>2, <2>2, <3>1 DEF NewOpen, NewFds, Elements
    <3> QED BY <3>2, <3>3
  <2>8. /\ DOMAIN cycle'.files = DOMAIN cycle.files
        /\ \A i \in DOMAIN cycle.files : cycle'.files[i] = IF i = at THEN fd ELSE cycle.files[i]
    BY <2>4
  <2>9. Held' = Held /\ NewFds' = NewFds \cup {fd}
    <3>1. Held' = Held
      BY <1>1 DEF Held
    <3>2. Elements(cycle'.files) \cup {0} = Elements(cycle.files) \cup {fd, 0}
      BY <2>3, <2>8 DEF Elements
    <3>3. NewFds' = {x \in Elements(cycle'.files) \cup {cycle.socks[n] : n \in cycle.open} : x # 0}
      BY <2>4 DEF NewFds
    <3> QED BY <2>2, <3>1, <3>2, <3>3 DEF NewFds
  <2>10. HeldOpen'
    BY <1>1, <2>6, <2>7 DEF CycleLives, HeldOpen, Held, Elements
  <2>11. FdsOwned'
    BY <1>1, <2>1, <2>6, <2>9 DEF CycleLives, FdsOwned
  <2>12. NewOpen'
    <3>1. \A i \in DOMAIN cycle.files : cycle.files[i] # 0 => cycle.files[i] \in 1..MaxFd /\ cycle.files[i] # fd
      BY <1>2, <2>7, CycleLists, CycleAssumption DEF NewFds, Elements
    <3>2. \A n \in cycle.open : cycle.socks[n] # 0 => cycle.socks[n] \in 1..MaxFd /\ cycle.socks[n] # fd
      BY <1>2, <2>7, CycleLists, CycleAssumption DEF NewFds
    <3>3. NewFds' \cap Held' = {}
      BY <1>2, <2>7, <2>9 DEF NewOpen
    <3> QED BY <1>2, <2>2, <2>4, <2>6, <2>8, <3>1, <3>2, <3>3 DEF NewOpen
  <2>13. Progress'
    <3>1. ASSUME NEW i \in DOMAIN cycle.files PROVE cycle'.files[i] = 0 <=> i >= at + 1
      <4>1. /\ cycle.files[i] = 0 <=> i >= at
            /\ cycle'.files[i] = IF i = at THEN fd ELSE cycle.files[i]
        BY <1>1, <1>2, <2>8 DEF Progress
      <4>2. i \in Int /\ at \in Int
        <5>1. IsCycle(cycle) /\ at \in Nat
          BY DEF CycleLives, CycleTypes
        <5>2. DOMAIN cycle.files = 1..Len(cycle.files)
          BY <5>1, CycleLists
        <5> QED BY <5>1, <5>2
      <4> QED BY <2>2, <4>1, <4>2
    <3> QED BY <1>1, <1>2, <2>1, <2>4, <2>8, <3>1 DEF Progress
  <2>14. Ready' = Ready /\ Intact' = Intact
    BY <1>1, <2>1 DEF Ready, Intact
  <2>15. ~Resized' => ZonesMapped'
    BY <1>1, <2>4, <2>14, ZonesFrame DEF Resized, CycleLives
  <2>16. ~Moved' => PidsExact'
    BY <1>1, <2>1, <2>4 DEF Moved, PidsExact, CycleLives
  <2> QED BY <2>5, <2>10, <2>11, <2>12, <2>13, <2>15, <2>16 DEF CycleLives
<1> QED BY <1>3, <1>4, <1>5 DEF OpenFile

\* The names of zones are different.
LEMMA ZoneNames ==
  ASSUME CycleLives
  PROVE  /\ \A i, j \in DOMAIN running.zones : running.conf.zones[i].name = running.conf.zones[j].name => i = j
         /\ \A k, l \in DOMAIN cycle.zones : cycle.conf.zones[k].name = cycle.conf.zones[l].name => k = l
         /\ \A i \in DOMAIN running.zones : running.conf.zones[i].size \in Nat \ {0}
         /\ \A k \in DOMAIN cycle.zones : cycle.conf.zones[k].size \in Nat \ {0}
<1>1. ASSUME NEW c, IsCycle(c)
      PROVE  /\ \A i, j \in DOMAIN c.zones : c.conf.zones[i].name = c.conf.zones[j].name => i = j
             /\ \A i \in DOMAIN c.zones : c.conf.zones[i].size \in Nat \ {0}
  <2>1. c.conf \in Confs /\ DOMAIN c.zones = DOMAIN c.conf.zones
    BY <1>1, CycleLists DEF IsCycle
  <2> QED BY <2>1, CycleAssumption
<1>2. IsCycle(running) /\ IsCycle(cycle)
  BY DEF CycleLives, CycleTypes
<1> QED BY <1>1, <1>2

\* ngx_init_cycle takes over a zone of the running cycle with its name and size.
LEMMA TakeOverStep ==
  ASSUME CycleLives, stage = "zones", at <= Len(cycle.zones),
         NEW i \in SameSize(OldZone(cycle.conf.zones[at].name), cycle.conf.zones[at].size),
         cycle' = [cycle EXCEPT !.zones[at] = running.zones[i]], GoesOn \/ Fails,
         UNCHANGED <<mem, running, pass, fds, pids, reloads, undone>>
  PROVE  CycleLives'
<1>1. /\ IsCycle(cycle) /\ IsCycle(running) /\ at \in Nat \ {0} /\ pass \in [left : Nat, failed : BOOLEAN]
      /\ NewOpen /\ Progress
  BY DEF CycleLives, CycleTypes
<1>2. at \in DOMAIN cycle.zones
  BY <1>1, CycleLists
<1>3. /\ i \in DOMAIN running.zones /\ running.conf.zones[i].name = cycle.conf.zones[at].name
      /\ running.conf.zones[i].size = cycle.conf.zones[at].size /\ running.zones[i] \in 0..MaxAddr
  BY <1>1, CycleLists DEF SameSize, OldZone
<1>4. /\ IsCycle(cycle') /\ cycle'.conf = cycle.conf /\ cycle'.files = cycle.files
      /\ cycle'.socks = cycle.socks /\ cycle'.open = cycle.open /\ cycle'.zones = [cycle.zones EXCEPT ![at] = running.zones[i]]
  BY <1>1, <1>2, <1>3, CycleUpdated
<1>5. stage' \in {"zones", "failed"} /\ at' \in Nat \ {0} /\ (stage' = "zones" => at' = at + 1)
  BY <1>1 DEF GoesOn, Fails, Goes
<1>6. CycleTypes'
  BY <1>1, <1>4, <1>5 DEF CycleLives, CycleTypes, Building
<1>7. HeldOpen' /\ FdsOwned' /\ NewOpen'
  BY <1>4, <1>5, FdsFrame
<1>8. Progress'
  BY <1>1, <1>4, <1>5 DEF Progress
<1>9. ~Moved' => PidsExact'
  BY <1>4, <1>5 DEF Moved, PidsExact, CycleLives
<1>10. ASSUME ~Resized' PROVE ZonesMapped'
  <2>1. ZonesMapped
    BY <1>10 DEF Resized, CycleLives
  <2>2. DOMAIN cycle.zones \in SUBSET Nat /\ at \in Nat
    BY <1>1, CycleLists
  <2>3. Ready = {k \in DOMAIN cycle.zones : k < at} /\ Intact = {j \in DOMAIN running.zones : ~\E k \in Ready : Replaces(k, j)}
    BY DEF Ready, Intact
  <2>4. \A j \in DOMAIN running.zones : ~Replaces(at, j)
    BY <1>3, ZoneNames DEF Replaces
  <2>5. DOMAIN cycle'.zones = DOMAIN cycle.zones /\ \A k \in DOMAIN cycle.zones : cycle'.zones[k] = IF k = at THEN running.zones[i] ELSE cycle.zones[k]
    BY <1>4
  <2>6. Ready' \subseteq Ready \cup {at}
    BY <1>2, <1>5, <2>2, <2>3, <2>5 DEF Ready
  <2>7. Intact' \subseteq Intact
    <3>1. CASE stage' = "zones"
      <4>1. Ready' = Ready \cup {at}
        BY <1>2, <1>5, <2>2, <2>3, <2>5, <3>1 DEF Ready
      <4> QED BY <1>4, <2>3, <3>1, <4>1 DEF Intact, Replaces
    <3>2. CASE stage' = "failed"
      BY <1>4, <2>3, <2>5, <3>2 DEF Intact, Replaces
    <3> QED BY <1>5, <3>1, <3>2
  <2>8. \A k \in Ready : cycle.conf.zones[k].name # running.conf.zones[i].name
    BY <1>2, <1>3, <2>2, <2>3, ZoneNames
  <2>9. i \in Intact
    BY <1>3, <2>3, <2>8 DEF Replaces
  <2>10. at \notin Ready /\ \A k \in Ready' : k # at => k \in Ready /\ cycle'.zones[k] = cycle.zones[k]
    BY <2>2, <2>3, <2>5, <2>6
  <2>11. \A k \in Ready' : cycle'.zones[k] \in 1..MaxAddr /\ mem[cycle'.zones[k]] = cycle.conf.zones[k].size
    BY <1>2, <1>3, <2>1, <2>5, <2>9, <2>10 DEF ZonesMapped
  <2>12. \A k \in Ready' \ {at} : cycle'.zones[k] # running.zones[i]
    BY <2>1, <2>8, <2>9, <2>10 DEF ZonesMapped
  <2>13. \A k, l \in Ready' : cycle'.zones[k] = cycle'.zones[l] => k = l
    BY <1>2, <2>1, <2>5, <2>10, <2>12 DEF ZonesMapped
  <2>14. \A k \in Ready', j \in Intact' :
           cycle'.zones[k] = running.zones[j] => cycle.conf.zones[k].name = running.conf.zones[j].name
    BY <1>2, <1>3, <2>1, <2>5, <2>7, <2>9, <2>10 DEF ZonesMapped
  <2>15. /\ \A j \in Intact' : running.zones[j] \in 1..MaxAddr /\ mem[running.zones[j]] = running.conf.zones[j].size
         /\ \A j, h \in Intact' : running.zones[j] = running.zones[h] => j = h
    BY <2>1, <2>7 DEF ZonesMapped
  <2> QED BY <1>4, <2>11, <2>13, <2>14, <2>15 DEF ZonesMapped
<1> QED BY <1>6, <1>7, <1>8, <1>9, <1>10 DEF CycleLives

\* The zones are right after the allocation of one for the name that the zones of `old' have.
LEMMA AllocatedZones ==
  ASSUME CycleLives, ZonesMapped, stage = "zones", at \in DOMAIN cycle.zones, UNCHANGED running,
         NEW old \in SUBSET DOMAIN running.zones, \A j \in DOMAIN running.zones : j \in old <=> Replaces(at, j),
         NEW kept, \A b \in 1..MaxAddr : kept[b] = IF b \in {running.zones[i] : i \in old} THEN 0 ELSE mem[b],
         cycle'.conf = cycle.conf, DOMAIN cycle'.zones = DOMAIN cycle.zones,
         \A k \in DOMAIN cycle.zones : k # at => cycle'.zones[k] = cycle.zones[k],
         stage' \in {"zones", "failed"}, stage' = "zones" => at' = at + 1,
         \A b \in 1..MaxAddr : kept[b] # 0 => mem'[b] = kept[b],
         stage' = "zones" => /\ cycle'.zones[at] \in 1..MaxAddr /\ kept[cycle'.zones[at]] = 0
                             /\ mem'[cycle'.zones[at]] = cycle.conf.zones[at].size
  PROVE  ZonesMapped'
<1>1. DOMAIN cycle.zones \in SUBSET Nat /\ at \in Nat
  BY CycleLists DEF CycleLives, CycleTypes
<1>2. /\ Ready = {k \in DOMAIN cycle.zones : k < at} /\ at \notin Ready /\ Ready \subseteq DOMAIN cycle.zones
      /\ Intact = {j \in DOMAIN running.zones : ~\E k \in Ready : Replaces(k, j)}
  BY <1>1 DEF Ready, Intact
<1>3. \A i \in old : i \in DOMAIN running.zones /\ running.conf.zones[i].name = cycle.conf.zones[at].name
  BY DEF Replaces
<1>4. \A k \in Ready : cycle.conf.zones[k].name # cycle.conf.zones[at].name
  BY <1>2, ZoneNames
<1>5. old \subseteq Intact
  BY <1>2, <1>3, <1>4 DEF Replaces
<1>6. \A k \in DOMAIN cycle.zones, j \in DOMAIN running.zones : Replaces(k, j)' = Replaces(k, j)
  BY DEF Replaces
<1>7. Ready' = IF stage' = "zones" THEN Ready \cup {at} ELSE {}
  <2>1. CASE stage' = "zones"
    <3>1. Ready' = {k \in DOMAIN cycle.zones : k < at + 1}
      BY <2>1 DEF Ready
    <3> QED BY <1>1, <1>2, <2>1, <3>1
  <2>2. CASE stage' = "failed"
    BY <2>2 DEF Ready
  <2> QED BY <2>1, <2>2
<1>8. Intact' \subseteq Intact \ old
  <2>1. CASE stage' = "zones"
    <3>1. Intact' = {j \in DOMAIN running.zones : ~\E k \in Ready' : Replaces(k, j)'}
      BY <2>1 DEF Intact
    <3>2. at \in Ready' /\ Ready \subseteq Ready' /\ Ready' \subseteq DOMAIN cycle.zones
      BY <1>2, <1>7, <2>1
    <3> QED BY <1>2, <1>6, <3>1, <3>2
  <2>2. CASE stage' = "failed"
    <3>1. Intact' = {j \in DOMAIN running.zones : ~\E k \in DOMAIN cycle.zones : Replaces(k, j)'}
      BY <2>2 DEF Intact
    <3> QED BY <1>2, <1>6, <3>1
  <2> QED BY <2>1, <2>2
<1>9. ASSUME NEW j \in Intact \ old
      PROVE  /\ running.zones[j] \in 1..MaxAddr /\ kept[running.zones[j]] = running.conf.zones[j].size
             /\ kept[running.zones[j]] # 0
  <2>1. running.zones[j] \in 1..MaxAddr /\ mem[running.zones[j]] = running.conf.zones[j].size
    BY DEF ZonesMapped
  <2>2. running.zones[j] \notin {running.zones[i] : i \in old}
    BY <1>5 DEF ZonesMapped
  <2>3. running.conf.zones[j].size # 0
    BY <1>2, ZoneNames
  <2> QED BY <2>1, <2>2, <2>3
<1>10. ASSUME NEW k \in Ready
       PROVE  /\ cycle.zones[k] \in 1..MaxAddr /\ kept[cycle.zones[k]] = cycle.conf.zones[k].size
              /\ kept[cycle.zones[k]] # 0
  <2>1. cycle.zones[k] \in 1..MaxAddr /\ mem[cycle.zones[k]] = cycle.conf.zones[k].size
    BY DEF ZonesMapped
  <2>2. cycle.zones[k] \notin {running.zones[i] : i \in old}
    BY <1>3, <1>4, <1>5 DEF ZonesMapped
  <2>3. cycle.conf.zones[k].size # 0
    BY <1>2, ZoneNames
  <2> QED BY <2>1, <2>2, <2>3
<1>11. \A j \in Intact' : running.zones[j] \in 1..MaxAddr /\ mem'[running.zones[j]] = running.conf.zones[j].size
  BY <1>8, <1>9
<1>12. /\ \A k \in Ready' \ {at} : k \in Ready /\ cycle'.zones[k] = cycle.zones[k]
       /\ at \in Ready' => stage' = "zones"
  BY <1>2, <1>7
<1>13. \A k \in Ready' : cycle'.zones[k] \in 1..MaxAddr /\ mem'[cycle'.zones[k]] = cycle.conf.zones[k].size
  <2> SUFFICES ASSUME NEW k \in Ready'
               PROVE  cycle'.zones[k] \in 1..MaxAddr /\ mem'[cycle'.zones[k]] = cycle.conf.zones[k].size
    OBVIOUS
  <2>1. CASE k = at
    BY <1>12, <2>1
  <2>2. CASE k # at
    BY <1>10, <1>12, <2>2
  <2> QED BY <2>1, <2>2
<1>14. /\ at \in Ready' => \A k \in Ready : cycle.zones[k] # cycle'.zones[at]
       /\ at \in Ready' => \A j \in Intact' : running.zones[j] # cycle'.zones[at]
  BY <1>8, <1>9, <1>10, <1>12
<1>15. \A k, l \in Ready' : cycle'.zones[k] = cycle'.zones[l] => k = l
  <2> SUFFICES ASSUME NEW k \in Ready', NEW l \in Ready', cycle'.zones[k] = cycle'.zones[l] PROVE k = l
    OBVIOUS
  <2>1. CASE k # at /\ l # at
    BY <1>12, <2>1 DEF ZonesMapped
  <2>2. CASE k = at \/ l = at
    BY <1>12, <1>14, <2>2
  <2> QED BY <2>1, <2>2
<1>16. \A k \in Ready', j \in Intact' :
         cycle'.zones[k] = running.zones[j] => cycle.conf.zones[k].name = running.conf.zones[j].name
  <2> SUFFICES ASSUME NEW k \in Ready', NEW j \in Intact', cycle'.zones[k] = running.zones[j]
               PROVE  cycle.conf.zones[k].name = running.conf.zones[j].name
    OBVIOUS
  <2>1. k # at
    BY <1>14
  <2> QED BY <1>8, <1>12, <2>1 DEF ZonesMapped
<1>17. \A i, j \in Intact' : running.zones[i] = running.zones[j] => i = j
  BY <1>8 DEF ZonesMapped
<1>18. running'.zones = running.zones /\ running'.conf = running.conf
  OBVIOUS
<1> QED BY <1>11, <1>13, <1>15, <1>16, <1>17, <1>18 DEF ZonesMapped

\* ngx_init_cycle allocates a zone, and gives up the one with its name and another size before.
AllocatedIn(old, kept) ==
  /\ old \in SUBSET DOMAIN running.zones /\ \A j \in DOMAIN running.zones : j \in old <=> Replaces(at, j)
  /\ \A b \in 1..MaxAddr : kept[b] = IF b \in {running.zones[i] : i \in old} THEN 0 ELSE mem[b]
  /\ IsCycle(cycle') /\ cycle'.conf = cycle.conf /\ cycle'.files = cycle.files
  /\ cycle'.socks = cycle.socks /\ cycle'.open = cycle.open /\ DOMAIN cycle'.zones = DOMAIN cycle.zones
  /\ \A k \in DOMAIN cycle.zones : k # at => cycle'.zones[k] = cycle.zones[k]
  /\ stage' \in {"zones", "failed"} /\ at' \in Nat \ {0} /\ (stage' = "zones" => at' = at + 1)
  /\ mem' \in [1..MaxAddr -> Nat] /\ \A b \in 1..MaxAddr : kept[b] # 0 => mem'[b] = kept[b]
  /\ stage' = "zones" => /\ cycle'.zones[at] \in 1..MaxAddr /\ kept[cycle'.zones[at]] = 0
                         /\ mem'[cycle'.zones[at]] = cycle.conf.zones[at].size

LEMMA AllocatedStep ==
  ASSUME CycleLives, stage = "zones", at \in DOMAIN cycle.zones, NEW old, NEW kept, AllocatedIn(old, kept),
         UNCHANGED <<running, pass, fds, pids, reloads, undone>>
  PROVE  CycleLives'
<1>1. CycleTypes'
  BY DEF AllocatedIn, CycleLives, CycleTypes, Building
<1>2. HeldOpen' /\ FdsOwned' /\ NewOpen'
  BY FdsFrame DEF AllocatedIn
<1>3. Progress'
  BY DEF AllocatedIn, Progress, CycleLives
<1>4. ~Moved' => PidsExact'
  BY DEF AllocatedIn, Moved, PidsExact, CycleLives
<1>5. ASSUME ~Resized' PROVE ZonesMapped'
  <2>1. ZonesMapped
    BY <1>5 DEF Resized, CycleLives
  <2> QED BY ZenonT(40), <2>1, AllocatedZones DEF AllocatedIn
<1> QED BY <1>1, <1>2, <1>3, <1>4, <1>5 DEF CycleLives

\* The lowest free number is free.
LEMMA LowestIsFree ==
  ASSUME NEW n \in Nat, NEW t, DOMAIN t = 1..n, NEW free, NEW a \in LowestFree(t, free)
  PROVE  a \in 1..n /\ a \in 0..n /\ t[a] = free
BY DEF LowestFree

\* what the allocation of a zone does, once the addresses `kept' are left
Allocates(kept, size) ==
  \/ mem' = kept /\ Fails /\ UNCHANGED cycle
  \/ \E a \in LowestFree(kept, 0) :
       /\ mem' = [kept EXCEPT ![a] = size]
       /\ cycle' = [cycle EXCEPT !.zones[at] = a]
       /\ GoesOn \/ Fails

LEMMA AllocateStep ==
  ASSUME CycleLives, stage = "zones", at <= Len(cycle.zones), NEW old, old = OldZone(cycle.conf.zones[at].name),
         SameSize(old, cycle.conf.zones[at].size) = {}, NEW kept, kept = WithUnmapped({running.zones[i] : i \in old}),
         NEW size, size = cycle.conf.zones[at].size, Allocates(kept, size),
         UNCHANGED <<running, pass, fds, pids, reloads, undone>>
  PROVE  CycleLives'
<1>1. /\ IsCycle(cycle) /\ IsCycle(running) /\ at \in Nat \ {0} /\ pass \in [left : Nat, failed : BOOLEAN]
      /\ NewOpen /\ Progress /\ mem \in [1..MaxAddr -> Nat]
  BY DEF CycleLives, CycleTypes
<1>2. at \in DOMAIN cycle.zones
  BY <1>1, CycleLists
<1>3. size \in Nat \ {0}
  BY <1>2, ZoneNames
<1>4. kept \in [1..MaxAddr -> Nat] /\ \A b \in 1..MaxAddr : kept[b] = IF b \in {running.zones[i] : i \in old} THEN 0 ELSE mem[b]
  BY <1>1 DEF WithUnmapped
<1>5. old \in SUBSET DOMAIN running.zones /\ \A j \in DOMAIN running.zones : j \in old <=> Replaces(at, j)
  BY DEF OldZone, SameSize, Replaces
<1>6. CASE mem' = kept /\ Fails /\ UNCHANGED cycle
  <2>1. stage' = "failed" /\ at' = 1 /\ mem' = kept /\ cycle' = cycle
    BY <1>6 DEF Fails, Goes
  <2>2. AllocatedIn(old, kept)
    <3>1. at' \in Nat \ {0} /\ stage' \in {"zones", "failed"} /\ stage' # "zones"
      BY <2>1
    <3>2. /\ mem' \in [1..MaxAddr -> Nat] /\ IsCycle(cycle)
          /\ \A b \in 1..MaxAddr : kept[b] # 0 => mem'[b] = kept[b]
      BY ZenonT(40), <1>1, <1>4, <2>1
    <3> QED BY ZenonT(40), <1>4, <1>5, <2>1, <3>1, <3>2 DEF AllocatedIn
  <2> QED BY <1>2, <2>2, AllocatedStep
<1>7. ASSUME NEW a \in LowestFree(kept, 0), mem' = [kept EXCEPT ![a] = size],
             cycle' = [cycle EXCEPT !.zones[at] = a], GoesOn \/ Fails
      PROVE  CycleLives'
  <2>1. a \in 1..MaxAddr /\ kept[a] = 0 /\ a \in 0..MaxAddr
    <3>1. MaxAddr \in Nat /\ DOMAIN kept = 1..MaxAddr
      BY ZenonT(40), <1>4, CycleAssumption
    <3> QED BY <1>7, <3>1, LowestIsFree
  <2>2. /\ IsCycle(cycle') /\ cycle'.conf = cycle.conf /\ cycle'.files = cycle.files
        /\ cycle'.socks = cycle.socks /\ cycle'.open = cycle.open /\ cycle'.zones = [cycle.zones EXCEPT ![at] = a]
    BY <1>1, <1>2, <1>7, <2>1, CycleUpdated
  <2>3. stage' \in {"zones", "failed"} /\ at' \in Nat \ {0} /\ (stage' = "zones" => at' = at + 1)
    BY <1>1, <1>7 DEF GoesOn, Fails, Goes
  <2>4. mem' \in [1..MaxAddr -> Nat] /\ mem'[a] = size /\ \A b \in 1..MaxAddr : kept[b] # 0 => mem'[b] = kept[b]
    BY <1>3, <1>4, <1>7, <2>1
  <2>5. /\ cycle'.zones[at] = a /\ DOMAIN cycle'.zones = DOMAIN cycle.zones
        /\ \A k \in DOMAIN cycle.zones : k # at => cycle'.zones[k] = cycle.zones[k]
    BY <1>2, <2>2
  <2>6. AllocatedIn(old, kept)
    BY <1>4, <1>5, <2>1, <2>2, <2>3, <2>4, <2>5 DEF AllocatedIn
  <2> QED BY <1>2, <2>6, AllocatedStep
<1> QED BY <1>6, <1>7 DEF Allocates

\* The new cycle's zones are all there.
LEMMA CreateZoneStep == ASSUME CycleLives, CreateZone PROVE CycleInv'
<1>1. stage = "zones" /\ UNCHANGED <<running, pass, fds, pids, reloads, undone>>
  BY DEF CreateZone
<1>2. IsCycle(cycle) /\ at \in Nat \ {0} /\ NewOpen /\ Progress /\ pass \in [left : Nat, failed : BOOLEAN]
  BY <1>1 DEF CycleLives, CycleTypes
<1>3. CASE at > Len(cycle.zones) /\ Goes("inherit") /\ UNCHANGED <<cycle, mem>>
  <2>1. stage' = "inherit" /\ at' = 1
    BY <1>3 DEF Goes
  <2>2. CycleTypes'
    BY <1>1, <1>3, <2>1 DEF CycleLives, CycleTypes, Building
  <2>3. HeldOpen' /\ FdsOwned' /\ NewOpen'
    BY <1>1, <1>3, <2>1, FdsFrame
  <2>4. Progress'
    BY <1>1, <1>2, <1>3, <2>1 DEF Progress
  <2>5. Ready' = Ready /\ Intact' = Intact
    <3>1. \A k \in DOMAIN cycle.zones : k < at
      BY <1>2, <1>3, CycleLists
    <3>2. Ready = DOMAIN cycle.zones
      BY <1>1, <3>1 DEF Ready
    <3>3. Ready' = DOMAIN cycle.zones
      BY <1>3, <2>1 DEF Ready
    <3> QED BY <1>1, <1>3, <2>1, <3>2, <3>3 DEF Intact, Replaces
  <2>6. ~Resized' => ZonesMapped'
    BY <1>1, <1>3, <2>5, ZonesFrame DEF Resized, CycleLives
  <2>7. ~Moved' => PidsExact'
    BY <1>1, <1>3, <2>1 DEF Moved, PidsExact, CycleLives
  <2> QED BY <2>2, <2>3, <2>4, <2>6, <2>7 DEF CycleLives, CycleInv
<1>4. CASE at <= Len(cycle.zones)
  <2> DEFINE zone == cycle.conf.zones[at]  old == OldZone(cycle.conf.zones[at].name)
             kept == WithUnmapped({running.zones[i] : i \in old})
  <2>1. CASE \E i \in SameSize(old, zone.size) :
               /\ cycle' = [cycle EXCEPT !.zones[at] = running.zones[i]]
               /\ IF mem[running.zones[i]] = 0 THEN Goes("crashed") ELSE GoesOn \/ Fails
               /\ UNCHANGED mem
    <3>1. PICK i \in SameSize(old, zone.size) :
               /\ cycle' = [cycle EXCEPT !.zones[at] = running.zones[i]]
               /\ IF mem[running.zones[i]] = 0 THEN Goes("crashed") ELSE GoesOn \/ Fails
               /\ UNCHANGED mem
      BY <2>1
    <3>2. CASE mem[running.zones[i]] = 0
      BY <3>1, <3>2 DEF Goes, CycleInv
    <3>3. CASE mem[running.zones[i]] # 0
      BY <1>1, <1>4, <3>1, <3>3, TakeOverStep DEF CycleInv
    <3> QED BY <3>2, <3>3
  <2>2. CASE /\ SameSize(old, zone.size) = {}
             /\ \/ mem' = kept /\ Fails /\ UNCHANGED cycle
                \/ \E a \in LowestFree(kept, 0) :
                     /\ mem' = [kept EXCEPT ![a] = zone.size]
                     /\ cycle' = [cycle EXCEPT !.zones[at] = a]
                     /\ GoesOn \/ Fails
    <3>1. ASSUME NEW o, o = old, NEW k, k = kept PROVE CycleLives'
      <4>1. o = OldZone(cycle.conf.zones[at].name) /\ k = WithUnmapped({running.zones[i] : i \in o})
            /\ SameSize(o, cycle.conf.zones[at].size) = {}
        BY <2>2, <3>1
      <4>2. Allocates(k, cycle.conf.zones[at].size)
        BY <2>2, <3>1 DEF Allocates
      <4> QED BY <1>1, <1>4, <4>1, <4>2, AllocateStep
    <3> QED BY <3>1 DEF CycleInv
  <2>3. \/ \E i \in SameSize(old, zone.size) :
               /\ cycle' = [cycle EXCEPT !.zones[at] = running.zones[i]]
               /\ IF mem[running.zones[i]] = 0 THEN Goes("crashed") ELSE GoesOn \/ Fails
               /\ UNCHANGED mem
        \/ /\ SameSize(old, zone.size) = {}
           /\ \/ mem' = kept /\ Fails /\ UNCHANGED cycle
              \/ \E a \in LowestFree(kept, 0) :
                   /\ mem' = [kept EXCEPT ![a] = zone.size]
                   /\ cycle' = [cycle EXCEPT !.zones[at] = a]
                   /\ GoesOn \/ Fails
    <3>1. ~(at > Len(cycle.zones))
      BY <1>2, <1>4, CycleLists
    <3>2. PICK z \in {cycle.conf.zones[at]}, o \in {OldZone(cycle.conf.zones[at].name)} :
             \/ \E i \in SameSize(o, z.size) :
                  /\ cycle' = [cycle EXCEPT !.zones[at] = running.zones[i]]
                  /\ IF mem[running.zones[i]] = 0 THEN Goes("crashed") ELSE GoesOn \/ Fails
                  /\ UNCHANGED mem
             \/ /\ SameSize(o, z.size) = {}
                /\ \E kk \in {WithUnmapped({running.zones[i] : i \in o})} :
                     \/ /\ mem' = kk
                        /\ Fails
                        /\ UNCHANGED cycle
                     \/ \E a \in LowestFree(kk, 0) :
                          /\ mem' = [kk EXCEPT ![a] = z.size]
                          /\ cycle' = [cycle EXCEPT !.zones[at] = a]
                          /\ GoesOn \/ Fails
      BY <3>1 DEF CreateZone
    <3>3. z = zone /\ o = old
      OBVIOUS
    <3> QED BY <3>2, <3>3, Zenon
  <2> HIDE DEF zone, old, kept
  <2> QED BY <2>1, <2>2, <2>3
<1> QED BY <1>2, <1>3, <1>4, CycleLists DEF CreateZone

\* The sockets of the running cycle that the new one takes over
LEMMA InheritSocketsStep == ASSUME CycleLives, InheritSockets PROVE CycleLives'
<1> DEFINE taken == [n \in DOMAIN cycle.socks |->
                       IF Inherited(n) = {} THEN 0 ELSE running.socks[CHOOSE i \in Inherited(n) : TRUE]]
           opened == {n \in DOMAIN cycle.socks : Inherited(n) = {}}
<1>1. /\ stage = "inherit" /\ stage' = "sockets" /\ at' = 1 /\ pass' = [left |-> Tries, failed |-> FALSE]
      /\ UNCHANGED <<running, fds, mem, pids, reloads, undone>>
      /\ cycle' = [cycle EXCEPT !.socks = taken, !.open = opened]
  BY DEF InheritSockets, Goes
<1>2. IsCycle(cycle) /\ IsCycle(running) /\ NewOpen /\ Progress
  BY <1>1 DEF CycleLives, CycleTypes
<1>3. \A n \in DOMAIN cycle.socks : Inherited(n) # {} => \E i \in Inherited(n) : taken[n] = running.socks[i]
  OBVIOUS
<1>4. \A n \in DOMAIN cycle.socks : taken[n] \in 0..MaxFd
  <2>1. 0 \in 0..MaxFd
    BY CycleAssumption
  <2>2. \A i \in DOMAIN running.socks : running.socks[i] \in 0..MaxFd
    BY <1>2, CycleLists
  <2>3. \A n : Inherited(n) \subseteq DOMAIN running.socks
    BY DEF Inherited
  <2>4. \A n \in DOMAIN cycle.socks : Inherited(n) = {} => taken[n] = 0
    OBVIOUS
  <2> HIDE DEF taken
  <2> QED BY <1>3, <2>1, <2>2, <2>3, <2>4
<1>5. taken \in [DOMAIN cycle.conf.socks -> 0..MaxFd] /\ DOMAIN taken = DOMAIN cycle.socks
  <2>1. DOMAIN cycle.socks = DOMAIN cycle.conf.socks
    BY <1>2, CycleLists
  <2> QED BY <1>4, <2>1
<1>6. opened \subseteq DOMAIN cycle.conf.socks
  BY <1>2, CycleLists
<1> HIDE DEF taken, opened
<1>7. /\ IsCycle(cycle') /\ cycle'.conf = cycle.conf /\ cycle'.files = cycle.files
      /\ cycle'.zones = cycle.zones /\ cycle'.socks = taken /\ cycle'.open = opened
  BY <1>1, <1>2, <1>5, <1>6 DEF IsCycle, CycleOf
<1>8. CycleTypes'
  BY <1>1, <1>7, CycleAssumption DEF CycleLives, CycleTypes, Building
<1>9. \A n \in opened : taken[n] = 0
  BY DEF opened, taken
<1>10. Held' = Held /\ NewFds' = NewFds
  <2>1. NewFds = {fd \in Elements(cycle.files) : fd # 0}
    BY <1>1, <1>2 DEF NewFds, Progress
  <2>2. NewFds' = {fd \in Elements(cycle.files) : fd # 0}
    BY <1>7, <1>9 DEF NewFds
  <2> QED BY <1>1, <2>1, <2>2 DEF Held
<1>11. HeldOpen' /\ FdsOwned'
  BY <1>1, <1>10 DEF CycleLives, HeldOpen, FdsOwned
<1>12. NewOpen'
  BY <1>1, <1>2, <1>7, <1>9, <1>10 DEF NewOpen
<1>13. Progress'
  <2>1. \A n : Inherited(n)' = Inherited(n)
    BY <1>1, <1>7 DEF Inherited
  <2>2. \A n \in DOMAIN cycle.socks : n \in opened <=> Inherited(n) = {}
    BY DEF opened
  <2>3. \A n \in DOMAIN cycle.socks : ~(n < 1)
    BY <1>2, CycleLists
  <2>4. \A n \in DOMAIN cycle'.socks : IF Inherited(n)' = {} THEN n \in cycle'.open
                 ELSE n \notin cycle'.open /\ \E i \in Inherited(n)' : cycle'.socks[n] = running'.socks[i]
    BY <1>1, <1>3, <1>5, <1>7, <2>1, <2>2
  <2>5. \A n \in DOMAIN cycle'.socks : ~(n < at')
    BY <1>1, <1>5, <1>7, <2>3
  <2> QED BY <1>1, <1>2, <1>7, <2>4, <2>5 DEF Progress
<1>14. Ready' = Ready /\ Intact' = Intact
  BY <1>1, <1>7 DEF Ready, Intact, Replaces
<1>15. ~Resized' => ZonesMapped'
  BY <1>1, <1>7, <1>14, ZonesFrame DEF Resized, CycleLives
<1>16. ~Moved' => PidsExact'
  BY <1>1, <1>7 DEF Moved, PidsExact, CycleLives
<1> QED BY <1>8, <1>11, <1>12, <1>13, <1>15, <1>16 DEF CycleLives

\* The end of a pass over the sockets, and what changes neither the cycle nor the descriptors
LEMMA NextPassStep ==
  ASSUME CycleLives, stage = "sockets", UNCHANGED <<running, cycle, fds, mem, pids, reloads, undone>>,
         NextPass \/ (GoesOn /\ at \in DOMAIN cycle.socks
                      /\ (\/ pass' = pass /\ cycle.socks[at] # 0
                          \/ pass' = [left |-> pass.left, failed |-> TRUE]))
  PROVE  CycleLives'
<1>1. /\ IsCycle(cycle) /\ at \in Nat \ {0} /\ pass \in [left : Nat, failed : BOOLEAN] /\ NewOpen /\ Progress
  BY DEF CycleLives, CycleTypes
<1>2. /\ stage' \in {"sockets", "commit", "failed"} /\ at' \in Nat \ {0} /\ pass' \in [left : Nat, failed : BOOLEAN]
  <2>1. stage' \in {"sockets", "commit", "failed"} /\ at' \in Nat \ {0}
    BY <1>1 DEF NextPass, GoesOn, Goes, Fails
  <2>2. pass' = pass \/ (pass.left > 1 /\ pass' = [left |-> pass.left - 1, failed |-> FALSE])
                     \/ pass' = [left |-> pass.left, failed |-> TRUE]
    BY DEF NextPass
  <2>3. pass.left \in Nat /\ (pass.left > 1 => pass.left - 1 \in Nat)
    BY <1>1
  <2>4. pass' \in [left : Nat, failed : BOOLEAN]
    <3>1. CASE pass' = pass
      BY <1>1, <3>1
    <3>2. CASE pass.left > 1 /\ pass' = [left |-> pass.left - 1, failed |-> FALSE]
      BY <2>3, <3>2
    <3>3. CASE pass' = [left |-> pass.left, failed |-> TRUE]
      BY <2>3, <3>3
    <3> QED BY <2>2, <3>1, <3>2, <3>3
  <2> QED BY <2>1, <2>4
<1>3. CycleTypes'
  BY <1>2 DEF CycleLives, CycleTypes, Building
<1>4. HeldOpen' /\ FdsOwned' /\ NewOpen'
  BY <1>2, FdsFrame
<1>5. Progress'
  <2>1. /\ DOMAIN cycle.socks = 1..Len(cycle.socks) /\ Len(cycle.socks) \in Nat
    BY <1>1, CycleLists
  <2>2. stage' = "commit" => \A n \in DOMAIN cycle.socks : cycle.socks[n] # 0
    <3>1. stage' = "commit" => at > Len(cycle.socks) /\ ~pass.failed
      BY DEF NextPass, GoesOn, Goes, Fails
    <3>2. ~pass.failed => \A n \in DOMAIN cycle.socks : n < at => cycle.socks[n] # 0
      BY <1>1 DEF Progress
    <3> QED BY <1>1, <2>1, <3>1, <3>2
  <2>3. stage' = "sockets" /\ ~pass'.failed => \A n \in DOMAIN cycle.socks : n < at' => cycle.socks[n] # 0
    <3>1. stage' = "sockets" /\ ~pass'.failed =>
             at' = 1 \/ (at' = at + 1 /\ ~pass.failed /\ at \in DOMAIN cycle.socks /\ cycle.socks[at] # 0)
      BY <1>1 DEF NextPass, GoesOn, Goes, Fails
    <3>2. ~pass.failed => \A n \in DOMAIN cycle.socks : n < at => cycle.socks[n] # 0
      BY <1>1 DEF Progress
    <3> QED BY <1>1, <2>1, <3>1, <3>2
  <2>4. \A n : Inherited(n)' = Inherited(n)
    BY DEF Inherited
  <2> QED BY <1>1, <1>2, <2>2, <2>3, <2>4 DEF Progress
<1>6. Ready' \subseteq Ready /\ Intact' \subseteq Intact
  BY <1>2 DEF Ready, Intact, Replaces
<1>7. ~Resized' => ZonesMapped'
  BY <1>6, ZonesFrame DEF Resized, CycleLives
<1>8. ~Moved' => PidsExact'
  BY <1>2 DEF Moved, PidsExact, CycleLives
<1> QED BY <1>3, <1>4, <1>5, <1>7, <1>8 DEF CycleLives

\* A socket is opened: as with a file, the new descriptor is nobody's.
LEMMA SocketOpened ==
  ASSUME CycleLives, stage = "sockets", at \in DOMAIN cycle.socks, cycle.socks[at] = 0,
         NEW fd \in 1..MaxFd, fds[fd] = Closed, fds' = [fds EXCEPT ![fd] = Socket(cycle.conf.socks[at])],
         IsCycle(cycle'), cycle'.conf = cycle.conf, cycle'.zones = cycle.zones, cycle'.files = cycle.files,
         cycle'.open = cycle.open, cycle'.socks = [cycle.socks EXCEPT ![at] = fd],
         stage' = stage, at' = at + 1, UNCHANGED <<running, pass, mem, pids, reloads, undone>>
  PROVE  CycleLives'
<1>1. /\ IsCycle(cycle) /\ IsCycle(running) /\ at \in Nat \ {0} /\ pass \in [left : Nat, failed : BOOLEAN]
      /\ NewOpen /\ Progress /\ DOMAIN fds = 1..MaxFd
  BY DEF CycleLives, CycleTypes
<1>2. fd # 0 /\ fd \in Nat
  BY CycleAssumption
<1>3. CycleTypes'
  BY <1>1 DEF CycleLives, CycleTypes, Building
<1>4. /\ \A x \in 1..MaxFd : fds'[x] = IF x = fd THEN Socket(cycle.conf.socks[at]) ELSE fds[x]
      /\ Socket(cycle.conf.socks[at]) # Closed
  BY <1>1 DEF Socket, Closed
<1>5. fd \notin Held /\ fd \notin NewFds
  <2>1. \A x : Closed # LogFile(x) /\ Closed # Socket(x)
    BY DEF LogFile, Closed, Socket
  <2>2. fd \notin Held
    BY <2>1 DEF CycleLives, HeldOpen, Held, Elements
  <2>3. fd \notin NewFds
    BY <1>1, <2>1 DEF NewOpen, NewFds, Elements
  <2> QED BY <2>2, <2>3
<1>6. /\ DOMAIN cycle'.socks = DOMAIN cycle.socks
      /\ \A n \in DOMAIN cycle.socks : cycle'.socks[n] = IF n = at THEN fd ELSE cycle.socks[n]
  OBVIOUS
<1>7. cycle.open \subseteq DOMAIN cycle.socks /\ at \in cycle.open
  <2>1. cycle.open \subseteq DOMAIN cycle.socks
    BY <1>1, CycleLists
  <2>2. \A i \in DOMAIN running.socks : running.socks[i] # 0
    BY CycleAssumption DEF CycleLives, HeldOpen
  <2>3. Inherited(at) \subseteq DOMAIN running.socks
    BY DEF Inherited
  <2>4. IF Inherited(at) = {} THEN at \in cycle.open
        ELSE at \notin cycle.open /\ \E i \in Inherited(at) : cycle.socks[at] = running.socks[i]
    BY <1>1 DEF Progress
  <2> QED BY <2>1, <2>2, <2>3, <2>4
<1>8. Held' = Held /\ NewFds' = NewFds \cup {fd}
  <2>1. Held' = Held
    BY DEF Held
  <2>2. {cycle'.socks[n] : n \in cycle.open} \cup {0} = {cycle.socks[n] : n \in cycle.open} \cup {fd, 0}
    BY <1>6, <1>7
  <2>3. NewFds' = {x \in Elements(cycle.files) \cup {cycle'.socks[n] : n \in cycle.open} : x # 0}
    BY DEF NewFds
  <2> QED BY <1>2, <2>1, <2>2, <2>3 DEF NewFds
<1>9. HeldOpen'
  BY <1>4, <1>5 DEF CycleLives, HeldOpen, Held, Elements
<1>10. FdsOwned'
  BY <1>4, <1>8 DEF CycleLives, FdsOwned
<1>11. NewOpen'
  <2>1. \A i \in DOMAIN cycle.files : cycle.files[i] # 0 => cycle.files[i] \in 1..MaxFd /\ cycle.files[i] # fd
    BY <1>1, <1>5, CycleLists, CycleAssumption DEF NewFds, Elements
  <2>2. \A n \in cycle.open : cycle.socks[n] # 0 => cycle.socks[n] \in 1..MaxFd /\ cycle.socks[n] # fd
    BY <1>1, <1>5, CycleLists, CycleAssumption DEF NewFds
  <2>3. NewFds' \cap Held' = {}
    BY <1>1, <1>5, <1>8 DEF NewOpen
  <2> QED BY <1>1, <1>4, <1>6, <1>7, <2>1, <2>2, <2>3 DEF NewOpen
<1>12. Progress'
  <2>1. \A n : Inherited(n)' = Inherited(n)
    BY DEF Inherited
  <2>2. \A n \in DOMAIN cycle.socks : IF Inherited(n) = {} THEN n \in cycle.open
                                   ELSE n \notin cycle.open /\ \E i \in Inherited(n) : cycle.socks[n] = running.socks[i]
    BY <1>1 DEF Progress
  <2>3. \A n \in DOMAIN cycle'.socks : IF Inherited(n)' = {} THEN n \in cycle'.open
                   ELSE n \notin cycle'.open /\ \E i \in Inherited(n)' : cycle'.socks[n] = running'.socks[i]
    BY <1>6, <1>7, <2>1, <2>2
  <2>4. ~pass'.failed => \A n \in DOMAIN cycle'.socks : n < at' => cycle'.socks[n] # 0
    <3>1. ~pass.failed => \A n \in DOMAIN cycle.socks : n < at => cycle.socks[n] # 0
      BY <1>1 DEF Progress
    <3>2. DOMAIN cycle.socks \in SUBSET Nat
      BY <1>1, CycleLists
    <3> QED BY <1>1, <1>2, <1>6, <3>1, <3>2
  <2> QED BY <1>1, <2>3, <2>4 DEF Progress
<1>13. Ready' = Ready /\ Intact' = Intact
  BY DEF Ready, Intact, Replaces
<1>14. ~Resized' => ZonesMapped'
  BY <1>13, ZonesFrame DEF Resized, CycleLives
<1>15. ~Moved' => PidsExact'
  BY DEF Moved, PidsExact, CycleLives
<1> QED BY <1>3, <1>9, <1>10, <1>11, <1>12, <1>14, <1>15 DEF CycleLives

\* ngx_open_listening_sockets
LEMMA OpenSocketStep == ASSUME CycleLives, OpenSocket PROVE CycleLives'
<1>1. stage = "sockets" /\ UNCHANGED <<running, mem, pids, reloads, undone>>
  BY DEF OpenSocket
<1>2. /\ IsCycle(cycle) /\ at \in Nat \ {0} /\ pass \in [left : Nat, failed : BOOLEAN] /\ DOMAIN fds = 1..MaxFd
  BY DEF CycleLives, CycleTypes
<1>3. CASE NextPass /\ UNCHANGED <<cycle, fds>>
  BY <1>1, <1>3, NextPassStep
<1>4. CASE at <= Len(cycle.socks) /\ cycle.socks[at] # 0 /\ GoesOn /\ UNCHANGED <<cycle, pass, fds>>
  <2>1. at \in DOMAIN cycle.socks
    BY <1>2, <1>4, CycleLists
  <2> QED BY <1>1, <1>4, <2>1, NextPassStep
<1>5. CASE at <= Len(cycle.socks) /\ pass' = [pass EXCEPT !.failed = TRUE] /\ GoesOn /\ UNCHANGED <<cycle, fds>>
  <2>1. at \in DOMAIN cycle.socks
    BY <1>2, <1>5, CycleLists
  <2>2. pass' = [left |-> pass.left, failed |-> TRUE]
    BY <1>2, <1>5
  <2> QED BY <1>1, <1>5, <2>1, <2>2, NextPassStep
<1>6. CASE Fails /\ UNCHANGED <<cycle, pass, fds>>
  <2>1. running.conf.pid = cycle.conf.pid /\ ~Moved => pids' = {running.conf.pid}
    BY <1>1 DEF CycleLives, PidsExact
  <2> QED BY <1>1, <1>2, <1>6, <2>1, FailsStep
<1>7. CASE /\ at <= Len(cycle.socks) /\ cycle.socks[at] = 0
           /\ \E fd \in LowestFree(fds, Closed) :
                /\ fds' = [fds EXCEPT ![fd] = Socket(cycle.conf.socks[at])]
                /\ cycle' = [cycle EXCEPT !.socks[at] = fd]
           /\ GoesOn /\ UNCHANGED pass
  <2>1. PICK fd \in LowestFree(fds, Closed) :
                /\ fds' = [fds EXCEPT ![fd] = Socket(cycle.conf.socks[at])]
                /\ cycle' = [cycle EXCEPT !.socks[at] = fd]
    BY <1>7
  <2>2. fd \in 1..MaxFd /\ fds[fd] = Closed /\ fd \in 0..MaxFd
    BY <1>2, <2>1, CycleAssumption DEF LowestFree
  <2>3. at \in DOMAIN cycle.socks
    BY <1>2, <1>7, CycleLists
  <2>4. /\ IsCycle(cycle') /\ cycle'.conf = cycle.conf /\ cycle'.files = cycle.files
        /\ cycle'.zones = cycle.zones /\ cycle'.open = cycle.open /\ cycle'.socks = [cycle.socks EXCEPT ![at] = fd]
    BY <1>2, <2>1, <2>2, <2>3, CycleUpdated
  <2>5. stage' = stage /\ at' = at + 1 /\ pass' = pass /\ cycle.socks[at] = 0
    BY <1>7 DEF GoesOn
  <2> QED BY <1>1, <2>1, <2>2, <2>3, <2>4, <2>5, SocketOpened
<1> QED BY <1>1, <1>3, <1>4, <1>5, <1>6, <1>7 DEF OpenSocket

\* The old cycle's descriptors and zones are given up.
LEMMA CommitStep == ASSUME CycleLives, Commit PROVE CycleLives'
<1>1. /\ stage = "commit" /\ stage' = "idle" /\ at' = 1 /\ running' = cycle /\ mem' = WithUnmapped(OldZones)
      /\ fds' = WithClosed(OldSockets \cup OldFiles) /\ UNCHANGED <<cycle, pass, pids, reloads, undone>>
  BY DEF Commit, Goes
<1>2. /\ IsCycle(cycle) /\ IsCycle(running) /\ pass \in [left : Nat, failed : BOOLEAN]
      /\ NewOpen /\ Progress /\ HeldOpen /\ FdsOwned /\ DOMAIN fds = 1..MaxFd /\ mem \in [1..MaxAddr -> Nat]
  BY <1>1 DEF CycleLives, CycleTypes
<1> DEFINE closed == OldSockets \cup OldFiles
<1>3. CycleTypes'
  <2>1. DOMAIN fds' = 1..MaxFd
    BY <1>1, <1>2 DEF WithClosed
  <2>2. mem' \in [1..MaxAddr -> Nat]
    BY <1>1, <1>2 DEF WithUnmapped
  <2> QED BY <1>1, <1>2, <2>1, <2>2 DEF CycleTypes, Building
<1>4. \A n \in DOMAIN cycle.socks : n \notin cycle.open =>
         \E i \in DOMAIN running.socks \cap Remain : /\ running.conf.socks[i] = cycle.conf.socks[n]
                                                  /\ cycle.socks[n] = running.socks[i]
  <2> SUFFICES ASSUME NEW n \in DOMAIN cycle.socks, n \notin cycle.open
               PROVE  \E i \in DOMAIN running.socks \cap Remain : /\ running.conf.socks[i] = cycle.conf.socks[n]
                                                               /\ cycle.socks[n] = running.socks[i]
    OBVIOUS
  <2>1. PICK i \in Inherited(n) : cycle.socks[n] = running.socks[i]
    BY <1>1, <1>2 DEF Progress
  <2>2. n \in DOMAIN cycle.conf.socks
    BY <1>2, CycleLists
  <2> QED BY <2>1, <2>2 DEF Inherited, Remain, Elements
<1>5. \A i \in Remain : \E n \in DOMAIN cycle.socks : cycle.socks[n] = running.socks[i]
  <2> SUFFICES ASSUME NEW i \in Remain PROVE \E n \in DOMAIN cycle.socks : cycle.socks[n] = running.socks[i]
    OBVIOUS
  <2>1. PICK n \in DOMAIN cycle.socks : running.conf.socks[i] = cycle.conf.socks[n]
    BY <1>2, CycleLists DEF Remain, Elements
  <2>2. i \in Inherited(n) /\ i \in DOMAIN running.socks
    BY <2>1 DEF Inherited, Remain
  <2>3. PICK j \in Inherited(n) : cycle.socks[n] = running.socks[j]
    BY <1>1, <1>2, <2>2 DEF Progress
  <2>4. j \in DOMAIN running.socks /\ running.conf.socks[j] = running.conf.socks[i]
    BY <2>1, <2>3 DEF Inherited
  <2>5. DOMAIN running.socks = DOMAIN running.conf.socks /\ IsInjective(running.conf.socks)
    BY <1>2, CycleLists, CycleAssumption
  <2>6. i = j
    BY <2>2, <2>4, <2>5 DEF IsInjective
  <2> QED BY <2>3, <2>6
<1>6. /\ \A i \in DOMAIN running.files : fds[running.files[i]] = LogFile(running.conf.files[i])
      /\ \A i \in DOMAIN running.socks : fds[running.socks[i]] = Socket(running.conf.socks[i])
      /\ \A x, y : LogFile(x) # Socket(y)
      /\ \A x, y : Socket(x) = Socket(y) => x = y
  BY <1>2 DEF HeldOpen, LogFile, Socket
<1>7. \A i, j \in DOMAIN running.socks : running.socks[i] = running.socks[j] => i = j
  <2>1. DOMAIN running.socks = DOMAIN running.conf.socks /\ IsInjective(running.conf.socks)
    BY <1>2, CycleLists, CycleAssumption
  <2> QED BY <1>6, <2>1 DEF IsInjective
<1>8. closed \subseteq Held
  BY DEF OldSockets, OldFiles, Held, Elements
<1>9. \A i \in Remain : i \in DOMAIN running.socks /\ running.socks[i] \notin closed
  BY <1>6, <1>7 DEF Remain, OldSockets, OldFiles, Elements
<1>10. Held = closed \cup {running.socks[i] : i \in Remain}
  BY DEF Held, OldSockets, OldFiles, Remain, Elements
<1>11. /\ \A x \in 1..MaxFd : x \in closed => fds'[x] = Closed
       /\ \A x \in 1..MaxFd : x \notin closed => fds'[x] = fds[x]
  BY <1>1, <1>2 DEF WithClosed
<1> HIDE DEF closed
<1>12. HeldOpen'
  <2>1. ASSUME NEW i \in DOMAIN cycle.files
        PROVE  cycle.files[i] \in 1..MaxFd /\ fds'[cycle.files[i]] = LogFile(cycle.conf.files[i])
    <3>1. cycle.files[i] # 0 /\ cycle.files[i] \in 0..MaxFd
      BY <1>1, <1>2, CycleLists DEF Progress
    <3>2. fds[cycle.files[i]] = LogFile(cycle.conf.files[i]) /\ cycle.files[i] \in 1..MaxFd
      BY <1>2, <3>1, CycleAssumption DEF NewOpen
    <3>3. cycle.files[i] \in NewFds
      BY <3>1 DEF NewFds, Elements
    <3>4. cycle.files[i] \notin closed
      BY <1>2, <1>8, <3>3 DEF NewOpen
    <3> QED BY <1>11, <3>2, <3>4
  <2>2. ASSUME NEW n \in DOMAIN cycle.socks
        PROVE  cycle.socks[n] \in 1..MaxFd /\ fds'[cycle.socks[n]] = Socket(cycle.conf.socks[n])
    <3>1. cycle.socks[n] \in 1..MaxFd
      BY <1>1, <1>2, CycleLists, CycleAssumption DEF Progress
    <3>2. CASE n \in cycle.open
      <4>1. cycle.socks[n] \in NewFds /\ fds[cycle.socks[n]] = Socket(cycle.conf.socks[n])
        BY <1>2, <3>1, <3>2, CycleAssumption DEF NewFds, NewOpen
      <4>2. cycle.socks[n] \notin closed
        BY <1>2, <1>8, <4>1 DEF NewOpen
      <4> QED BY <1>11, <3>1, <4>1, <4>2
    <3>3. CASE n \notin cycle.open
      BY <1>4, <1>6, <1>9, <1>11, <3>1, <3>3
    <3> QED BY <3>2, <3>3
  <2> QED BY <1>1, <2>1, <2>2 DEF HeldOpen
<1>13. FdsOwned'
  <2>1. \A x \in 1..MaxFd : x \in NewFds \/ x \in {running.socks[i] : i \in Remain} => x \in Held'
    <3>1. Held' = Elements(cycle.files) \cup Elements(cycle.socks)
      BY <1>1 DEF Held
    <3>2. cycle.open \subseteq DOMAIN cycle.socks
      BY <1>2, CycleLists
    <3>3. \A x \in NewFds : x \in Held'
      BY <3>1, <3>2 DEF NewFds, Elements
    <3>4. \A i \in Remain : running.socks[i] \in Held'
      BY <1>5, <3>1 DEF Elements
    <3> QED BY <3>3, <3>4
  <2>2. \A x \in 1..MaxFd : fds'[x] # Closed => x \in Held \/ x \in NewFds
    BY <1>2, <1>11 DEF FdsOwned
  <2>3. \A x \in 1..MaxFd : fds'[x] # Closed => x \notin closed
    BY <1>11
  <2> QED BY <1>1, <1>10, <2>1, <2>2, <2>3 DEF FdsOwned
<1>14. ~Resized' => ZonesMapped'
  <2> SUFFICES ASSUME ~Resized' PROVE ZonesMapped'
    OBVIOUS
  <2>1. ZonesMapped
    BY <1>1 DEF Resized, CycleLives
  <2>2. Ready = DOMAIN cycle.zones /\ Ready' = {} /\ Intact' = DOMAIN cycle.zones
    BY <1>1 DEF Ready, Intact
  <2>3. ASSUME NEW k \in DOMAIN cycle.zones
        PROVE  cycle.zones[k] \in 1..MaxAddr /\ mem'[cycle.zones[k]] = cycle.conf.zones[k].size
    <3>1. cycle.zones[k] \in 1..MaxAddr /\ mem[cycle.zones[k]] = cycle.conf.zones[k].size
      BY <2>1, <2>2 DEF ZonesMapped
    <3>2. ASSUME NEW j \in DOMAIN running.zones, running.zones[j] = cycle.zones[k],
                 running.conf.zones[j].name \notin {z.name : z \in Elements(cycle.conf.zones)}
          PROVE  FALSE
      <4>1. j \in Intact
        <5>1. \A l \in DOMAIN cycle.zones : cycle.conf.zones[l].name # running.conf.zones[j].name
          BY <1>2, <3>2, CycleLists DEF Elements
        <5> QED BY <1>1, <2>2, <5>1 DEF Intact, Replaces
      <4>2. cycle.conf.zones[k].name = running.conf.zones[j].name
        BY <2>1, <2>2, <3>2, <4>1 DEF ZonesMapped
      <4>3. k \in DOMAIN cycle.conf.zones
        BY <1>2, CycleLists
      <4> QED BY <3>2, <4>2, <4>3 DEF Elements
    <3>3. cycle.zones[k] \notin OldZones
      BY <3>2 DEF OldZones
    <3> QED BY <1>1, <1>2, <3>1, <3>3 DEF WithUnmapped
  <2>4. \A k, l \in DOMAIN cycle.zones : cycle.zones[k] = cycle.zones[l] => k = l
    BY <2>1, <2>2 DEF ZonesMapped
  <2> QED BY <1>1, <2>2, <2>3, <2>4 DEF ZonesMapped
<1>15. ~Moved' => PidsExact'
  BY <1>1 DEF Moved, PidsExact, CycleLives
<1> QED BY <1>1, <1>3, <1>12, <1>13, <1>14, <1>15 DEF CycleLives

\* What the new cycle opened is closed.
LEMMA RollbackStep == ASSUME CycleLives, Rollback PROVE CycleLives'
<1>1. /\ stage = "failed" /\ stage' = "idle" /\ at' = 1 /\ cycle' = running /\ fds' = WithClosed(Opened)
      /\ undone' = undone \cup {[old |-> running.conf, new |-> cycle.conf]}
      /\ UNCHANGED <<running, pass, mem, pids, reloads>>
  BY DEF Rollback, Goes
<1>2. /\ IsCycle(cycle) /\ IsCycle(running) /\ pass \in [left : Nat, failed : BOOLEAN]
      /\ NewOpen /\ HeldOpen /\ FdsOwned /\ DOMAIN fds = 1..MaxFd /\ mem \in [1..MaxAddr -> Nat]
  BY <1>1 DEF CycleLives, CycleTypes
<1>3. CycleTypes'
  <2>1. DOMAIN fds' = 1..MaxFd
    BY <1>1, <1>2 DEF WithClosed
  <2> QED BY <1>1, <1>2, <2>1 DEF CycleTypes, Building
<1>4. Opened \ {0} = NewFds
  BY DEF Opened, NewFds
<1>5. Held' = Held /\ Held \subseteq 1..MaxFd /\ Held \cap Opened = {}
  <2>1. Held \subseteq 1..MaxFd
    BY <1>2 DEF HeldOpen, Held, Elements
  <2> QED BY <1>1, <1>2, <1>4, <2>1, CycleAssumption DEF Held, NewOpen
<1>6. /\ \A x \in 1..MaxFd : x \in Opened => fds'[x] = Closed
      /\ \A x \in 1..MaxFd : x \notin Opened => fds'[x] = fds[x]
  BY <1>1, <1>2 DEF WithClosed
<1>7. HeldOpen'
  <2>1. \A i \in DOMAIN running.files : running.files[i] \in Held
    BY DEF Held, Elements
  <2>2. \A i \in DOMAIN running.socks : running.socks[i] \in Held
    BY DEF Held, Elements
  <2> QED BY <1>1, <1>2, <1>5, <1>6, <2>1, <2>2 DEF HeldOpen
<1>8. FdsOwned'
  <2>1. \A x \in NewFds : x \in Opened
    BY <1>4
  <2> QED BY <1>1, <1>2, <1>5, <1>6, <2>1 DEF FdsOwned
<1>9. /\ undone \subseteq undone'
       /\ \E u \in undone' : u.old = running.conf /\ u.new = cycle.conf
  <2>1. \E u : u = [old |-> running.conf, new |-> cycle.conf]
    OBVIOUS
  <2>2. PICK u : u = [old |-> running.conf, new |-> cycle.conf]
    BY <2>1
  <2>3. u.old = running.conf /\ u.new = cycle.conf
    BY <2>2
  <2>4. u \in undone' /\ undone \subseteq undone'
    BY <1>1, <2>2, Zenon
  <2> QED BY <2>3, <2>4
<1>10. ~Resized' => ZonesMapped'
  <2> SUFFICES ASSUME ~Resized' PROVE ZonesMapped'
    OBVIOUS
  <2>1. ~Resized /\ ~\E z \in Elements(running.conf.zones), w \in Elements(cycle.conf.zones) :
                        z.name = w.name /\ z.size # w.size
    BY <1>9 DEF Resized
  <2>2. ZonesMapped
    BY <2>1 DEF CycleLives
  <2>3. Intact = DOMAIN running.zones
    <3>1. \A k \in DOMAIN cycle.zones : cycle.conf.zones[k] \in Elements(cycle.conf.zones)
      BY <1>2, CycleLists DEF Elements
    <3>2. \A i \in DOMAIN running.zones : running.conf.zones[i] \in Elements(running.conf.zones)
      BY <1>2, CycleLists DEF Elements
    <3> QED BY <1>1, <2>1, <3>1, <3>2 DEF Intact, Replaces
  <2>4. Intact' = DOMAIN running.zones /\ Ready' = {}
    BY <1>1 DEF Ready, Intact
  <2> QED BY <1>1, <2>2, <2>3, <2>4 DEF ZonesMapped
<1>11. ~Moved' => PidsExact'
  <2> SUFFICES ASSUME ~Moved' PROVE PidsExact'
    OBVIOUS
  <2>1. ~Moved /\ running.conf.pid = cycle.conf.pid
    BY <1>9 DEF Moved
  <2> QED BY <1>1, <2>1 DEF PidsExact, CycleLives
<1> QED BY <1>1, <1>3, <1>7, <1>8, <1>10, <1>11 DEF CycleLives

\* ngx_reopen_files: the new descriptor of a file is not the one it replaces.
LEMMA ReopenFilesStep == ASSUME CycleLives, ReopenFiles PROVE CycleLives'
<1>1. stage = "idle" /\ UNCHANGED <<stage, at, pass, mem, pids, reloads, undone>> /\ cycle' = running'
  BY DEF ReopenFiles
<1>2. /\ IsCycle(running) /\ HeldOpen /\ FdsOwned /\ DOMAIN fds = 1..MaxFd /\ mem \in [1..MaxAddr -> Nat]
      /\ at \in Nat \ {0} /\ pass \in [left : Nat, failed : BOOLEAN]
  BY <1>1 DEF CycleLives, CycleTypes
<1>3. PICK i \in DOMAIN running.files, fd \in LowestFree(fds, Closed) :
         /\ fds' = [fds EXCEPT ![fd] = LogFile(running.conf.files[i]), ![running.files[i]] = Closed]
         /\ running' = [running EXCEPT !.files[i] = fd]
  BY DEF ReopenFiles
<1> DEFINE last == running.files[i]  name == LogFile(running.conf.files[i])
<1>4. fd \in 1..MaxFd /\ fds[fd] = Closed /\ fd \in 0..MaxFd
  BY <1>2, CycleAssumption DEF LowestFree
<1>5. last \in 1..MaxFd /\ fds[last] = name /\ name # Closed /\ \A x : name # Socket(x)
  BY <1>2 DEF HeldOpen, LogFile, Closed, Socket
<1>6. /\ IsCycle(running') /\ running'.conf = running.conf /\ running'.zones = running.zones
      /\ running'.socks = running.socks /\ running'.files = [running.files EXCEPT ![i] = fd]
  BY <1>2, <1>3, <1>4, CycleUpdated
<1>7. fd # last
  BY <1>4, <1>5
<1> HIDE DEF last, name
<1>8. DOMAIN fds' = 1..MaxFd /\ \A x \in 1..MaxFd : fds'[x] = IF x = last THEN Closed ELSE IF x = fd THEN name ELSE fds[x]
  BY <1>2, <1>3, <1>4, <1>5, <1>7 DEF last, name
<1>9. CycleTypes'
  BY <1>1, <1>2, <1>6, <1>8 DEF CycleTypes, Building
<1>10. /\ DOMAIN running'.files = DOMAIN running.files
       /\ \A j \in DOMAIN running.files : running'.files[j] = IF j = i THEN fd ELSE running.files[j]
  BY <1>6
<1>11. \A j \in DOMAIN running.files : j # i => running.files[j] # last /\ running.files[j] # fd
  <2>1. DOMAIN running.files = DOMAIN running.conf.files /\ IsInjective(running.conf.files)
    BY <1>2, CycleLists, CycleAssumption
  <2>2. \A x, y : LogFile(x) = LogFile(y) => x = y
    BY DEF LogFile
  <2>3. \A x : LogFile(x) # Closed
    BY DEF LogFile, Closed
  <2> QED BY <1>2, <1>4, <1>5, <2>1, <2>2, <2>3 DEF HeldOpen, IsInjective, name
<1>12. \A j \in DOMAIN running.socks : running.socks[j] # last /\ running.socks[j] # fd
  <2>1. \A x : Socket(x) # Closed
    BY DEF Socket, Closed
  <2> QED BY <1>2, <1>4, <1>5, <2>1 DEF HeldOpen
<1>13. HeldOpen'
  <2>1. ASSUME NEW j \in DOMAIN running.files
        PROVE  running'.files[j] \in 1..MaxFd /\ fds'[running'.files[j]] = LogFile(running.conf.files[j])
    <3>1. CASE j = i
      BY <1>4, <1>7, <1>8, <1>10, <3>1 DEF name
    <3>2. CASE j # i
      BY <1>2, <1>8, <1>10, <1>11, <3>2 DEF HeldOpen
    <3> QED BY <3>1, <3>2
  <2>2. \A j \in DOMAIN running.socks : running.socks[j] \in 1..MaxFd /\ fds'[running.socks[j]] = Socket(running.conf.socks[j])
    BY <1>2, <1>8, <1>12 DEF HeldOpen
  <2> QED BY <1>6, <1>10, <2>1, <2>2 DEF HeldOpen
<1>14. FdsOwned'
  <2>1. fd \in Elements(running'.files) /\ Elements(running.files) \ {last} \subseteq Elements(running'.files)
    BY <1>10 DEF Elements, last
  <2>2. Held \ {last} \subseteq Held' /\ fd \in Held'
    BY <1>6, <2>1 DEF Held
  <2> QED BY <1>1, <1>2, <1>8, <2>2 DEF FdsOwned
<1>15. Ready' = {} /\ Ready = {} /\ Intact' = Intact
  BY <1>1, <1>6 DEF Ready, Intact
<1>16. ~Resized' => ZonesMapped'
  BY <1>1, <1>6, <1>15 DEF Resized, CycleLives, ZonesMapped
<1>17. ~Moved' => PidsExact'
  BY <1>1, <1>6 DEF Moved, PidsExact, CycleLives
<1> QED BY <1>1, <1>9, <1>13, <1>14, <1>16, <1>17 DEF CycleLives

-----------------------------------------------------------------------------
(* The theorem *)

LEMMA CycleStarts == CycleInit => CycleInv
<1> SUFFICES ASSUME CycleInit PROVE CycleInv
  OBVIOUS
<1>1. /\ cycle = running /\ stage = "idle" /\ at = 1 /\ pass = [left |-> Tries, failed |-> FALSE]
  BY DEF CycleInit
<1>2. PICK conf \in Confs :
        /\ running = [Fresh(conf) EXCEPT
                       !.files = [i \in DOMAIN @ |-> i],
                       !.zones = [i \in DOMAIN @ |-> i],
                       !.socks = [i \in DOMAIN @ |-> Len(conf.files) + i],
                       !.open = DOMAIN conf.socks]
        /\ fds = [fd \in 1..MaxFd |->
                   IF fd <= Len(conf.files) THEN LogFile(conf.files[fd])
                   ELSE IF fd <= Len(conf.files) + Len(conf.socks) THEN Socket(conf.socks[fd - Len(conf.files)])
                   ELSE Closed]
        /\ mem = [a \in 1..MaxAddr |-> IF a <= Len(conf.zones) THEN conf.zones[a].size ELSE 0]
        /\ pids = {conf.pid}
  BY DEF CycleInit
<1> DEFINE nf == Len(conf.files)  ns == Len(conf.socks)  nz == Len(conf.zones)
<1>3. /\ DOMAIN conf.files = 1..nf /\ nf \in Nat /\ DOMAIN conf.zones = 1..nz /\ nz \in Nat
      /\ DOMAIN conf.socks = 1..ns /\ ns \in Nat /\ nf + ns <= MaxFd /\ nz <= MaxAddr
      /\ MaxFd \in Nat /\ MaxAddr \in Nat /\ Tries \in Nat
  BY ConfLists, CycleAssumption
<1>4. running = [conf |-> conf, files |-> [i \in 1..nf |-> i], zones |-> [i \in 1..nz |-> i],
                 socks |-> [i \in 1..ns |-> nf + i], open |-> 1..ns]
  BY <1>2, <1>3 DEF Fresh, NoneYet
<1>5. /\ running.conf = conf /\ running.files = [i \in 1..nf |-> i] /\ running.zones = [i \in 1..nz |-> i]
      /\ running.socks = [i \in 1..ns |-> nf + i]
  BY <1>4
<1> HIDE DEF nf, ns, nz
<1>6. IsCycle(running)
  <2>1. /\ [i \in 1..nf |-> i] \in [1..nf -> 0..MaxFd] /\ [i \in 1..nz |-> i] \in [1..nz -> 0..MaxAddr]
        /\ [i \in 1..ns |-> nf + i] \in [1..ns -> 0..MaxFd]
    BY <1>3
  <2> QED BY <1>3, <1>4, <2>1 DEF IsCycle, CycleOf
<1>7. \A i \in DOMAIN conf.zones : conf.zones[i].size \in Nat \ {0}
  BY CycleAssumption
<1>8. CycleTypes
  <2>1. mem \in [1..MaxAddr -> Nat]
    BY <1>2, <1>3, <1>7 DEF nz
  <2> QED BY <1>1, <1>2, <1>3, <1>6, <2>1 DEF CycleTypes, Building
<1>9. /\ \A i \in 1..nf : i \in 1..MaxFd /\ fds[i] = LogFile(conf.files[i])
      /\ \A i \in 1..ns : nf + i \in 1..MaxFd /\ fds[nf + i] = Socket(conf.socks[i])
      /\ \A x \in 1..MaxFd : fds[x] # Closed => x \in 1..nf \/ (x - nf \in 1..ns /\ x = nf + (x - nf))
  <2>1. \A x \in 1..MaxFd : fds[x] = IF x <= nf THEN LogFile(conf.files[x])
                                ELSE IF x <= nf + ns THEN Socket(conf.socks[x - nf]) ELSE Closed
    BY <1>2 DEF nf, ns
  <2> QED BY <1>3, <2>1
<1>10. HeldOpen
  BY <1>5, <1>9 DEF HeldOpen
<1>11. FdsOwned
  <2>1. /\ \A i \in 1..nf : i \in Held
        /\ \A i \in 1..ns : nf + i \in Held
    BY <1>5 DEF Held, Elements
  <2> QED BY <1>9, <2>1 DEF FdsOwned
<1>12. ZonesMapped
  <2>1. Ready = {} /\ Intact = 1..nz
    BY <1>1, <1>5 DEF Ready, Intact
  <2>2. \A i \in 1..nz : i \in 1..MaxAddr /\ mem[i] = conf.zones[i].size
    BY <1>2, <1>3 DEF nz
  <2> QED BY <1>5, <2>1, <2>2 DEF ZonesMapped
<1>13. PidsExact
  BY <1>1, <1>2, <1>5 DEF PidsExact
<1> QED BY <1>1, <1>8, <1>10, <1>11, <1>12, <1>13 DEF CycleInv, CycleLives

\* A step of ngx_init_cycle or of ngx_reopen_files
LEMMA CycleSteps == CycleInv /\ [CycleNext]_cycleVars => CycleInv'
<1> SUFFICES ASSUME CycleInv, [CycleNext]_cycleVars PROVE CycleInv'
  OBVIOUS
<1>1. CASE UNCHANGED cycleVars
  <2>1. CycleLives => CycleLives'
    <3> SUFFICES ASSUME CycleLives PROVE CycleLives'
      OBVIOUS
    <3>1. UNCHANGED <<running, cycle, stage, at, pass, fds, mem, pids, reloads, undone>>
      BY <1>1 DEF cycleVars
    <3>2. Held' = Held /\ NewFds' = NewFds /\ Ready' = Ready /\ Intact' = Intact /\ \A n : Inherited(n)' = Inherited(n)
      BY <3>1 DEF Held, NewFds, Ready, Intact, Replaces, Inherited
    <3>3. CycleTypes' /\ HeldOpen' /\ FdsOwned'
      BY <3>1, <3>2 DEF CycleLives, CycleTypes, HeldOpen, FdsOwned
    <3>4. stage # "idle" => NewOpen' /\ Progress'
      BY <3>1, <3>2 DEF CycleLives, NewOpen, Progress
    <3>5. /\ ~Resized' => ZonesMapped'
          /\ ~Moved' => PidsExact'
      BY <3>1, <3>2 DEF CycleLives, ZonesMapped, PidsExact, Resized, Moved
    <3> QED BY <3>1, <3>3, <3>4, <3>5 DEF CycleLives
  <2> QED BY <1>1, <2>1 DEF CycleInv, cycleVars
<1>2. CASE CycleNext
  <2>1. stage \notin {"exited", "crashed"}
    BY <1>2 DEF CycleNext, Reload, PidFile, OpenFile, CreateZone, InheritSockets, OpenSocket, Commit, InitModuleFails,
                Rollback, ReopenFiles
  <2>2. CycleLives
    BY <2>1 DEF CycleInv
  <2>3. ASSUME NEW conf \in Confs, Reload(conf) PROVE CycleInv'
    BY <2>2, <2>3, ReloadStep DEF CycleInv
  <2>4. CASE PidFile
    BY <2>2, <2>4, PidFileStep DEF CycleInv
  <2>5. CASE OpenFile
    BY <2>2, <2>5, OpenFileStep DEF CycleInv
  <2>6. CASE CreateZone
    BY <2>2, <2>6, CreateZoneStep
  <2>7. CASE InheritSockets
    BY <2>2, <2>7, InheritSocketsStep DEF CycleInv
  <2>8. CASE OpenSocket
    BY <2>2, <2>8, OpenSocketStep DEF CycleInv
  <2>9. CASE Commit
    BY <2>2, <2>9, CommitStep DEF CycleInv
  <2>10. CASE InitModuleFails
    BY <2>10 DEF InitModuleFails, Goes, CycleInv
  <2>11. CASE Rollback
    BY <2>2, <2>11, RollbackStep DEF CycleInv
  <2>12. CASE ReopenFiles
    BY <2>2, <2>12, ReopenFilesStep DEF CycleInv
  <2> QED BY <1>2, <2>3, <2>4, <2>5, <2>6, <2>7, <2>8, <2>9, <2>10, <2>11, <2>12 DEF CycleNext
<1> QED BY <1>1, <1>2

\* Different elements have different descriptors, so that the open ones are counted.
LEMMA DescriptorsCounted ==
  ASSUME CycleLives, stage = "idle"
  PROVE  Cardinality({fd \in DOMAIN fds : fds[fd] # Closed}) = Len(running.files) + Len(running.socks)
<1>1. IsCycle(running) /\ HeldOpen /\ FdsOwned /\ DOMAIN fds = 1..MaxFd
  BY DEF CycleLives, CycleTypes
<1>2. /\ \A x, y : LogFile(x) # Socket(y) /\ LogFile(x) # Closed /\ Socket(x) # Closed
      /\ \A x, y : (LogFile(x) = LogFile(y) => x = y) /\ (Socket(x) = Socket(y) => x = y)
  BY DEF LogFile, Socket, Closed
<1> DEFINE files == running.files  socks == running.socks
<1>3. /\ files \in Seq(1..MaxFd) /\ IsInjective(files) /\ ToSet(files) = Elements(files)
      /\ socks \in Seq(1..MaxFd) /\ IsInjective(socks) /\ ToSet(socks) = Elements(socks)
  <2>1. /\ DOMAIN files = 1..Len(files) /\ Len(files) \in Nat /\ DOMAIN files = DOMAIN running.conf.files
        /\ DOMAIN socks = 1..Len(socks) /\ Len(socks) \in Nat /\ DOMAIN socks = DOMAIN running.conf.socks
        /\ files \in [DOMAIN running.conf.files -> 0..MaxFd] /\ socks \in [DOMAIN running.conf.socks -> 0..MaxFd]
    BY <1>1, CycleLists DEF IsCycle, CycleOf
  <2>2. IsInjective(running.conf.files) /\ IsInjective(running.conf.socks)
    BY <1>1, CycleAssumption DEF IsCycle
  <2>3. /\ \A i \in DOMAIN files : files[i] \in 1..MaxFd /\ fds[files[i]] = LogFile(running.conf.files[i])
        /\ \A i \in DOMAIN socks : socks[i] \in 1..MaxFd /\ fds[socks[i]] = Socket(running.conf.socks[i])
    BY <1>1 DEF HeldOpen
  <2> HIDE DEF files, socks
  <2>4. files \in [1..Len(files) -> 1..MaxFd] /\ socks \in [1..Len(socks) -> 1..MaxFd]
    BY <2>1, <2>3
  <2>5. files \in Seq(1..MaxFd) /\ socks \in Seq(1..MaxFd)
    <3>1. ASSUME NEW n \in Nat, NEW f \in [1..n -> 1..MaxFd] PROVE f \in Seq(1..MaxFd)
      BY SeqDef
    <3> QED BY <2>1, <2>4, <3>1
  <2>6. IsInjective(files) /\ IsInjective(socks)
    <3>1. \A i, j \in DOMAIN files : files[i] = files[j] => i = j
      BY <1>2, <2>1, <2>2, <2>3 DEF IsInjective
    <3>2. ASSUME NEW i \in DOMAIN socks, NEW j \in DOMAIN socks, socks[i] = socks[j] PROVE i = j
      <4>1. Socket(running.conf.socks[i]) = Socket(running.conf.socks[j])
        BY <2>3, <3>2
      <4>2. running.conf.socks[i] = running.conf.socks[j]
        BY <1>2, <4>1
      <4> QED BY <2>1, <2>2, <4>2 DEF IsInjective
    <3> QED BY <3>1, <3>2 DEF IsInjective
  <2> QED BY <2>5, <2>6 DEF ToSet, Elements
<1>4. /\ IsFiniteSet(Elements(files)) /\ Len(files) = Cardinality(Elements(files))
      /\ IsFiniteSet(Elements(socks)) /\ Len(socks) = Cardinality(Elements(socks))
  <2> HIDE DEF files, socks
  <2> QED BY <1>3, ListLength
<1>5. Elements(files) \cap Elements(socks) = {}
  BY <1>1, <1>2 DEF HeldOpen, Elements
<1>6. {fd \in DOMAIN fds : fds[fd] # Closed} = Elements(files) \cup Elements(socks)
  <2>1. \A fd \in DOMAIN fds : fds[fd] # Closed => fd \in Elements(files) \cup Elements(socks)
    BY <1>1 DEF FdsOwned, Held
  <2>2. \A fd \in Elements(files) \cup Elements(socks) : fd \in DOMAIN fds /\ fds[fd] # Closed
    BY <1>1, <1>2 DEF HeldOpen, Elements
  <2> QED BY <2>1, <2>2
<1> HIDE DEF files, socks
<1>7. Cardinality(Elements(files) \cup Elements(socks)) = Len(files) + Len(socks)
  <2>1. Cardinality({}) = 0 /\ Len(files) \in Nat /\ Len(socks) \in Nat
    BY <1>3, FS_EmptySet, LenProperties
  <2>2. ASSUME NEW S, IsFiniteSet(S), NEW T, IsFiniteSet(T), S \cap T = {}
        PROVE  Cardinality(S \cup T) = Cardinality(S) + Cardinality(T)
    <3>1. Cardinality(S) \in Nat /\ Cardinality(T) \in Nat /\ Cardinality(S \cap T) = 0
      BY <2>1, <2>2, FS_CardinalityType
    <3>2. Cardinality(S \cup T) = Cardinality(S) + Cardinality(T) - Cardinality(S \cap T)
      BY <2>2, FS_Union
    <3> QED BY <3>1, <3>2
  <2> QED BY <1>4, <1>5, <2>2
<1> QED BY <1>6, <1>7 DEF files, socks

\* Whatever reload was committed or failed half way: between reloads the descriptors open in the
\* master are those of the running cycle, each on its file or address, and, unless a reload that was
\* rolled back had resized a zone or moved the pid file, the zones are mapped and the pid file is there
\* (ngx_init_cycle, ngx_open_listening_sockets, ngx_reopen_files).
THEOREM CycleKept == CycleSpec => []ReloadExact
<1>1. CycleInv => ReloadExact
  <2> SUFFICES ASSUME CycleInv, stage = "idle" PROVE ReloadExact
    BY DEF ReloadExact
  <2>1. CycleLives
    BY DEF CycleInv
  <2>2. ~Resized => /\ \A i \in DOMAIN running.zones : mem[running.zones[i]] = running.conf.zones[i].size
                    /\ \A i, j \in DOMAIN running.zones : running.zones[i] = running.zones[j] => i = j
    <3>1. Intact = DOMAIN running.zones
      BY DEF Intact
    <3> QED BY <2>1, <3>1 DEF CycleLives, ZonesMapped
  <2>3. ~Moved => pids = {running.conf.pid}
    BY <2>1 DEF CycleLives, PidsExact
  <2> QED BY <2>1, <2>2, <2>3, DescriptorsCounted DEF ReloadExact, CycleLives, HeldOpen
<1> QED BY <1>1, CycleStarts, CycleSteps, PTL DEF CycleSpec

-----------------------------------------------------------------------------
(* limit_zone *)

VisitType ==
  [key : {NoVisit.key} \cup ClientKeys, set : BOOLEAN, counted : BOOLEAN, visits : Nat,
   at : {NoVisit.at} \cup Locations]

\* The types; a request that is not there has counted nothing, one that is there has a key, and
\* none counted itself without having set the flag that keeps it from doing so twice.
ConnTypeOK ==
  /\ conn \in [ClientKeys -> Nat] /\ leaked \in [ClientKeys -> Nat]
  /\ visit \in [Clients -> VisitType]
  /\ \A c \in Clients :
       /\ visit[c].counted => visit[c].set /\ visit[c].visits > 0
       /\ visit[c].visits > 0 => visit[c].key \in ClientKeys

ConnInv == ConnTypeOK /\ ConnExact

\* The requests that count for a key are finitely many.
LEMMA CountedFinite ==
  ASSUME NEW k PROVE IsFiniteSet(Counted(k)) /\ Cardinality(Counted(k)) \in Nat
<1>1. Counted(k) \in SUBSET Clients
  BY DEF Counted
<1> QED BY <1>1, ConnAssumption, FS_Subset, FS_CardinalityType

\* Nobody is counted in a new zone.
LEMMA ConnInitInv == ConnInit => ConnInv
<1> SUFFICES ASSUME ConnInit PROVE ConnInv
  OBVIOUS
<1>1. ConnTypeOK
  BY DEF ConnInit, ConnTypeOK, VisitType, NoVisit
<1>2. ASSUME NEW k \in ClientKeys PROVE conn[k] = Cardinality(Counted(k)) + leaked[k]
  <2>1. Counted(k) = {}
    BY DEF ConnInit, Counted, NoVisit
  <2> QED BY <2>1, FS_EmptySet DEF ConnInit
<1> QED BY <1>1, <1>2 DEF ConnInv, ConnExact

\* A request that is let in raises the count of its key by one, and only that.
LEMMA VisitStep ==
  ASSUME ConnInv, NEW c \in Clients, NEW k \in ClientKeys, NEW l \in Locations, Visit(c, k, l)
  PROVE  ConnInv' /\ WithinLimit
<1> USE DEF ConnInv
<1> DEFINE v  == IF visit[c].visits = 0 THEN [NoVisit EXCEPT !.key = k] ELSE visit[c]
           in == Limits(v) /\ Below(k, l) /\ HasNode(k)
<1>1. /\ v \in VisitType /\ v.key = k /\ in \in BOOLEAN
      /\ conn' = IF in THEN [conn EXCEPT ![k] = @ + 1] ELSE conn
      /\ visit' = [visit EXCEPT ![c] = [v EXCEPT !.visits = @ + 1, !.set = @ \/ Limits(v),
                                                 !.counted = @ \/ in, !.at = IF in THEN l ELSE @]]
      /\ leaked' = leaked /\ Limits(v) \in BOOLEAN
  BY DEF Visit, ConnTypeOK, VisitType, NoVisit, Limits, Below, HasNode
<1>2. v.counted <=> visit[c].counted
  BY DEF ConnTypeOK, NoVisit
<1>3. in => ~v.counted
  BY <1>2 DEF Limits, ConnTypeOK, NoVisit
<1> HIDE DEF v, in
<1>4. ConnTypeOK'
  <2>1. v.counted => v.set
    BY <1>2 DEF ConnTypeOK, v, NoVisit
  <2>2. in => Limits(v)
    BY DEF in
  <2> DEFINE w == visit'[c]
  <2>3. w = [v EXCEPT !.visits = @ + 1, !.set = @ \/ Limits(v), !.counted = @ \/ in,
                      !.at = IF in THEN l ELSE @]
    BY <1>1 DEF ConnTypeOK
  <2> HIDE DEF w
  <2>4. w \in VisitType /\ w.visits > 0 /\ w.key = k
    <3>1. w = [key |-> v.key, set |-> v.set \/ Limits(v), counted |-> v.counted \/ in,
               visits |-> v.visits + 1, at |-> IF in THEN l ELSE v.at]
      BY <1>1, <2>3 DEF VisitType
    <3>2. v.visits \in Nat /\ v.at \in {NoVisit.at} \cup Locations
      BY <1>1 DEF VisitType
    <3>3. (v.set \/ Limits(v)) \in BOOLEAN /\ (v.counted \/ in) \in BOOLEAN
      OBVIOUS
    <3> QED BY <1>1, <3>1, <3>2, <3>3 DEF VisitType
  <2>5. w.set = (v.set \/ Limits(v)) /\ w.counted = (v.counted \/ in)
    BY <1>1, <2>3 DEF VisitType
  <2>6. conn' \in [ClientKeys -> Nat]
    BY <1>1 DEF ConnTypeOK
  <2>7. visit' = [visit EXCEPT ![c] = w] /\ (w.counted => w.set)
    BY <1>1, <2>1, <2>2, <2>3, <2>5
  <2> QED BY <1>1, <2>4, <2>6, <2>7 DEF ConnTypeOK
<1>5. ASSUME NEW j \in ClientKeys PROVE conn'[j] = Cardinality(Counted(j)') + leaked'[j]
  <2>1. CASE in /\ j = k
    <3>1. c \notin Counted(j) /\ Counted(j)' = Counted(j) \cup {c}
      BY <1>1, <1>2, <1>3, <2>1 DEF ConnTypeOK, VisitType, Counted
    <3>2. Cardinality(Counted(j)') = Cardinality(Counted(j)) + 1
      BY <3>1, CountedFinite, FS_AddElement
    <3> QED BY <1>1, <2>1, <3>2, CountedFinite DEF ConnTypeOK, ConnExact
  <2>2. CASE ~(in /\ j = k)
    <3>1. visit'[c].counted /\ visit'[c].key = j <=> visit[c].counted /\ visit[c].key = j
      BY <1>1, <1>2, <2>2 DEF ConnTypeOK, VisitType, v
    <3>2. Counted(j)' = Counted(j)
      BY <1>1, <3>1 DEF ConnTypeOK, Counted
    <3> QED BY <1>1, <2>2, <3>2 DEF ConnTypeOK, ConnExact
  <2> QED BY <2>1, <2>2
<1>6. WithinLimit
  <2>1. SUFFICES ASSUME NEW d \in Clients, visit'[d].counted, ~visit[d].counted
                 PROVE  conn'[visit'[d].key] <= LimitConn[visit'[d].at]
    BY DEF WithinLimit
  <2>2. d = c /\ in
    BY <1>1, <1>2, <2>1 DEF ConnTypeOK
  <2>3. visit'[d].key = k /\ visit'[d].at = l /\ conn'[k] = conn[k] + 1
    BY <1>1, <2>2 DEF ConnTypeOK, VisitType
  <2>4. conn[k] < LimitConn[l]
    BY <2>2 DEF in, Below
  <2>5. LimitConn[l] \in Nat /\ conn[k] \in Nat
    BY ConnAssumption DEF ConnTypeOK
  <2> QED BY <2>3, <2>4, <2>5
<1> QED BY <1>4, <1>5, <1>6 DEF ConnExact

\* A request that ends, or whose worker dies, takes its own count with it, or leaves it behind.
LEMMA LeaveStep ==
  ASSUME ConnInv, NEW c \in Clients, Cleanup(c) \/ WorkerDies(c)
  PROVE  ConnInv' /\ WithinLimit
<1> USE DEF ConnInv
<1> DEFINE v == visit[c]
<1>1. /\ v \in VisitType /\ v.visits > 0 /\ v.key \in ClientKeys
      /\ visit' = [visit EXCEPT ![c] = NoVisit]
  BY DEF Cleanup, WorkerDies, ConnTypeOK
<1>2. NoVisit \in VisitType /\ ~NoVisit.counted /\ NoVisit.visits = 0
  BY DEF NoVisit, VisitType
<1>3. ASSUME NEW j \in ClientKeys
      PROVE  /\ conn'[j] \in Nat /\ leaked'[j] \in Nat
             /\ conn'[j] = Cardinality(Counted(j)') + leaked'[j]
  <2>1. CASE v.counted /\ v.key = j
    <3>1. c \in Counted(j) /\ Counted(j)' = Counted(j) \ {c}
      BY <1>1, <1>2, <2>1 DEF ConnTypeOK, Counted
    <3>2. Cardinality(Counted(j)') = Cardinality(Counted(j)) - 1
      BY <3>1, CountedFinite, FS_RemoveElement
    <3>3. Cardinality(Counted(j)) > 0
      BY <3>1, CountedFinite, FS_EmptySet
    <3>4. CASE Cleanup(c)
      BY <1>1, <2>1, <3>2, <3>3, <3>4, CountedFinite DEF Cleanup, GivesBack, ConnTypeOK, ConnExact
    <3>5. CASE WorkerDies(c)
      BY <1>1, <2>1, <3>2, <3>3, <3>5, CountedFinite DEF WorkerDies, ConnTypeOK, ConnExact
    <3> QED BY <3>4, <3>5
  <2>2. CASE ~(v.counted /\ v.key = j)
    <3>1. Counted(j)' = Counted(j)
      BY <1>1, <1>2, <2>2 DEF ConnTypeOK, Counted
    <3>2. conn'[j] = conn[j] /\ leaked'[j] = leaked[j]
      BY <1>1, <2>2 DEF Cleanup, WorkerDies, GivesBack, ConnTypeOK
    <3> QED BY <3>1, <3>2 DEF ConnTypeOK, ConnExact
  <2> QED BY <2>1, <2>2
<1>4. conn' \in [ClientKeys -> Nat] /\ leaked' \in [ClientKeys -> Nat]
  BY <1>1, <1>3 DEF Cleanup, WorkerDies, ConnTypeOK
<1>5. ConnTypeOK'
  BY <1>1, <1>2, <1>4 DEF ConnTypeOK
<1>6. WithinLimit
  BY <1>1, <1>2 DEF WithinLimit, ConnTypeOK
<1> QED BY <1>3, <1>5, <1>6 DEF ConnExact

\* For any requests, keys, locations and limits: a key is charged for exactly the live requests
\* that counted themselves and those whose workers died, and no location lets a request in beyond
\* its own limit (ngx_http_limit_zone_handler and ngx_http_limit_zone_cleanup).
THEOREM ConnCharged == ConnSpec => ConnLimited
<1>1. ConnInv /\ [ConnNext]_connVars => ConnInv' /\ [ConnExact' /\ WithinLimit]_connVars
  <2> SUFFICES ASSUME ConnInv, [ConnNext]_connVars
               PROVE  ConnInv' /\ [ConnExact' /\ WithinLimit]_connVars
    OBVIOUS
  <2>1. CASE UNCHANGED connVars
    BY <2>1 DEF connVars, ConnInv, ConnTypeOK, ConnExact, Counted
  <2>2. CASE ConnNext
    BY <2>2, VisitStep, LeaveStep DEF ConnNext, ConnInv
  <2> QED BY <2>1, <2>2
<1> QED BY ConnInitInv, <1>1, PTL DEF ConnSpec, ConnLimited

-----------------------------------------------------------------------------
(* limit_req *)

NodeType == [key : LimitKeys, last : 0..MaxClock, excess : 0..Burst]

PastType ==
  [passed : Nat, made : Nat, first : Nat, touched : Nat, back : Nat, goes : Int, gap : Int]

\* The requests of a key that are not paid for yet are the e in its bucket, at most.
Owes(p, e) ==
  Unit * (Unit * (p.passed - p.made) - e) <= Rate * (p.touched - p.first + 2 * p.back)

\* The bucket of a key, as its node b holds it.
InBucket(p, b) ==
  p.passed > 0 /\ p.touched = b.last /\ p.goes = GoesOnAt(b.last, b.excess) /\ Owes(p, b.excess)

\* A key without a node.
Unkept(p) == (p.passed = 0 => p.made = 0) /\ Owes(p, 0)

\* What ties the nodes of a queue to the history h of the keys.
Tied(q, h) ==
  \A k \in LimitKeys \ LongKeys :
    /\ \A i \in DOMAIN q : q[i].key = k => InBucket(h[k], q[i])
    /\ (\A i \in DOMAIN q : q[i].key # k) => Unkept(h[k])

\* A key of up to 255 bytes has one node.
OneEach(q) == \A i, j \in DOMAIN q : q[i].key = q[j].key /\ q[i].key \notin LongKeys => i = j

\* Delayed requests go on at the rate.
Spaced(p) == p.back = 0 => Rate * (p.gap + 1) >= Unit * Unit

LimitInv ==
  /\ clock \in 0..MaxClock /\ cached \in [LimitWorkers -> 0..MaxClock]
  /\ bucket \in Seq(NodeType) /\ Len(bucket) <= ZoneNodes /\ OneEach(bucket)
  /\ past \in [LimitKeys -> PastType] /\ \A k \in LimitKeys : Spaced(past[k])
  /\ Tied(bucket, past)

\* What has run out of a bucket is at most the rate times the time that has passed.
LEMMA LeakBound ==
  ASSUME NEW b \in NodeType, NEW now \in 0..MaxClock
  PROVE  /\ Abs(now - b.last) \in Nat /\ Leak(b, now) \in Nat
         /\ Unit * Leak(b, now) <= Rate * Abs(now - b.last)
<1> DEFINE d == Abs(now - b.last)
<1>1. d \in Nat
  BY LimitAssumption DEF NodeType, Abs
<1> DEFINE x == Rate * d
<1>2. x \in Nat
  BY <1>1, LimitAssumption
<1>3. Leak(b, now) = x \div Unit
  BY DEF Leak
<1> HIDE DEF d, x
<1>4. (x \div Unit) \in Nat /\ Unit * (x \div Unit) <= x
  BY <1>2, LimitAssumption
<1> QED BY <1>1, <1>3, <1>4 DEF d, x

\* With one request more a bucket holds at least what it held, less what ran out, and Unit.
LEMMA ExcessBound ==
  ASSUME NEW b \in NodeType, NEW now \in 0..MaxClock
  PROVE  /\ Excess(b, now) \in Nat
         /\ Unit * Excess(b, now) >= Unit * b.excess - Rate * Abs(now - b.last) + Unit * Unit
<1> DEFINE e == b.excess L == Leak(b, now) d == Abs(now - b.last) n == Excess(b, now)
<1>1. e \in Nat /\ L \in Nat /\ d \in Nat /\ Unit * L <= Rate * d /\ Unit \in Nat /\ Rate \in Nat
  BY LeakBound, LimitAssumption DEF NodeType
<1>2. n \in Nat /\ n >= e - L + Unit
  BY <1>1 DEF Excess
<1> HIDE DEF e, L, d, n
<1>3. Unit * n >= Unit * (e - L + Unit)
  BY <1>1, <1>2
<1>4. Unit * (e - L + Unit) = Unit * e - Unit * L + Unit * Unit
  BY <1>1
<1>5. Unit * n \in Nat /\ Unit * e \in Nat /\ Unit * L \in Nat /\ Rate * d \in Nat /\ Unit * Unit \in Nat
  BY <1>1, <1>2
<1> QED BY <1>1, <1>2, <1>3, <1>4, <1>5 DEF e, L, d, n

\* A worker that touches the node of a key moves the bound of its requests by the time between the
\* two clocks, whichever is ahead.
LEMMA TouchBound ==
  ASSUME NEW p \in PastType, NEW now \in 0..MaxClock
  PROVE  LET t == Touched(p, now) IN
         /\ t \in PastType /\ t.touched = now /\ t.back >= p.back
         /\ t.passed = p.passed /\ t.made = p.made /\ t.first = p.first
         /\ t.goes = p.goes /\ t.gap = p.gap /\ (t.back = 0 => p.touched <= now)
         /\ Abs(now - p.touched) \in Nat
         /\ Rate * (t.touched - t.first + 2 * t.back) =
              Rate * (p.touched - p.first + 2 * p.back) + Rate * Abs(now - p.touched)
<1> DEFINE t  == Touched(p, now)
           up == IF now < p.touched THEN p.touched - now ELSE 0
           a  == p.touched - p.first + 2 * p.back
           d  == Abs(now - p.touched)
<1>1. /\ p.passed \in Nat /\ p.made \in Nat /\ p.first \in Nat /\ p.touched \in Nat /\ p.back \in Nat
      /\ p.goes \in Int /\ p.gap \in Int /\ now \in Nat
  BY LimitAssumption DEF PastType
<1>2. up \in Nat
  BY <1>1
<1>3. t = [passed |-> p.passed, made |-> p.made, first |-> p.first, touched |-> now,
           back |-> p.back + up, goes |-> p.goes, gap |-> p.gap]
  <2> DEFINE s == [p EXCEPT !.touched = now]
  <2>1. t = [s EXCEPT !.back = p.back + up]
    BY DEF Touched, PastType
  <2>2. s = [passed |-> p.passed, made |-> p.made, first |-> p.first, touched |-> now,
             back |-> p.back, goes |-> p.goes, gap |-> p.gap]
    BY DEF PastType
  <2> HIDE DEF s, t, up
  <2> QED BY <2>1, <2>2
<1>4. t \in PastType
  BY <1>1, <1>2, <1>3 DEF PastType
<1>5. d \in Nat /\ a \in Int /\ t.touched - t.first + 2 * t.back = a + d
  BY <1>1, <1>3 DEF Abs
<1> HIDE DEF a, d
<1>6. Rate * (a + d) = Rate * a + Rate * d
  BY <1>5, LimitAssumption
<1> QED BY <1>1, <1>2, <1>3, <1>4, <1>5, <1>6 DEF a, d

\* A node that is deleted unused held no more than had run out of it.
LEMMA OldPaid ==
  ASSUME NEW b \in NodeType, NEW p \in PastType, NEW now \in 0..MaxClock,
         InBucket(p, b), Old(b, now)
  PROVE  Unkept(Touched(p, now))
<1> DEFINE t == Touched(p, now) d == Abs(now - b.last) x == Unit * (p.passed - p.made) e == b.excess
           L == Leak(b, now)    y == Rate * (p.touched - p.first + 2 * p.back)
<1>1. /\ e \in Nat /\ L \in Nat /\ d \in Nat /\ x \in Int /\ y \in Int
      /\ Unit \in Nat /\ Rate \in Nat
  BY LeakBound, LimitAssumption DEF NodeType, PastType
<1>2. e <= L /\ Unit * L <= Rate * d
  BY <1>1, LeakBound DEF Old
<1>3. Unit * (x - e) <= y
  BY DEF InBucket, Owes
<1>4. /\ t.passed = p.passed /\ t.made = p.made
      /\ Rate * (t.touched - t.first + 2 * t.back) = y + Rate * d
  BY TouchBound DEF InBucket
<1>5. p.passed > 0
  BY DEF InBucket
<1> SUFFICES Unit * (x - 0) <= y + Rate * d
  BY <1>4, <1>5, LimitAssumption DEF Unkept, Owes
<1> HIDE DEF d, x, e, L, y
<1>6. Unit * (x - e) = Unit * x - Unit * e /\ Unit * e <= Unit * L
  BY <1>1, <1>2
<1>7. Unit * x \in Int /\ Unit * e \in Nat /\ Unit * L \in Nat /\ Rate * d \in Nat /\ x - 0 = x
  BY <1>1
<1> QED BY <1>1, <1>2, <1>3, <1>6, <1>7

\* When a request goes on, in the integers of the code.
LEMMA GoesOnBound ==
  ASSUME NEW now \in 0..MaxClock, NEW e \in Nat
  PROVE  /\ GoesOnAt(now, e) \in Nat
         /\ Rate * GoesOnAt(now, e) <= Rate * now + Unit * e
         /\ Unit * e + Rate * now < Rate * (GoesOnAt(now, e) + 1)
<1> DEFINE x == e * Unit q == x \div Rate
<1>1. x \in Nat /\ Rate \in Nat /\ Rate > 0 /\ now \in Nat /\ x = Unit * e
  BY LimitAssumption
<1> HIDE DEF x
<1>2. q \in Nat /\ Rate * q <= x /\ x < Rate * q + Rate
  BY <1>1
<1> HIDE DEF q
<1>3. Rate * (now + q) = Rate * now + Rate * q /\ Rate * (now + q + 1) = Rate * now + Rate * q + Rate
  BY <1>1, <1>2
<1>4. Rate * now \in Nat /\ Rate * q \in Nat /\ GoesOnAt(now, e) = now + q
  BY <1>1, <1>2 DEF GoesOnAt, x, q
<1> QED BY <1>1, <1>2, <1>3, <1>4

\* What a request that goes on leaves in the history of its key.
LEMMA PassShape ==
  ASSUME NEW p \in PastType, NEW now \in 0..MaxClock, NEW e \in Nat, NEW new \in BOOLEAN
  PROVE  LET s == Passed(p, now, e, new) t == Touched(p, now) IN
         /\ s \in PastType
         /\ s.passed = p.passed + 1 /\ s.made = (IF new THEN p.made + 1 ELSE p.made)
         /\ s.first = (IF p.passed = 0 THEN now ELSE p.first)
         /\ s.touched = now /\ s.back = t.back /\ s.goes = GoesOnAt(now, e)
         /\ s.gap = (IF new THEN Unit * Unit ELSE GoesOnAt(now, e) - p.goes)
<1> DEFINE t == Touched(p, now)
           s == Passed(p, now, e, new)
           made  == IF new THEN p.made + 1 ELSE p.made
           first == IF p.passed = 0 THEN now ELSE p.first
           gap   == IF new THEN Unit * Unit ELSE GoesOnAt(now, e) - p.goes
           g     == GoesOnAt(now, e)
<1>1. t \in PastType /\ t.passed = p.passed /\ t.made = p.made /\ t.first = p.first /\ t.touched = now
  BY TouchBound
<1>2. /\ p.passed \in Nat /\ made \in Nat /\ first \in Nat /\ gap \in Int /\ g \in Nat /\ now \in Nat
  BY SMTT(30), GoesOnBound, LimitAssumption DEF PastType
<1>3. s = [t EXCEPT !.passed = p.passed + 1, !.made = made, !.first = first, !.gap = gap, !.goes = g]
  BY <1>1 DEF Passed, PastType
<1> HIDE DEF t, s, made, first, gap, g
<1>4. s = [passed |-> p.passed + 1, made |-> made, first |-> first, touched |-> now,
           back |-> t.back, goes |-> g, gap |-> gap]
  BY <1>1, <1>3 DEF PastType
<1>5. t.back \in Nat
  BY <1>1 DEF PastType
<1>6. s \in PastType
  BY <1>2, <1>4, <1>5 DEF PastType
<1> QED BY <1>4, <1>6 DEF t, s, made, first, gap, g

\* A request for which a node is made owes nothing, and starts the spacing anew.
LEMMA PassNew ==
  ASSUME NEW p \in PastType, NEW now \in 0..MaxClock
  PROVE  /\ Passed(p, now, 0, TRUE) \in PastType /\ Spaced(Passed(p, now, 0, TRUE))
         /\ \A k : Unkept(p) => InBucket(Passed(p, now, 0, TRUE), [key |-> k, last |-> now, excess |-> 0])
<1> DEFINE s == Passed(p, now, 0, TRUE) t == Touched(p, now)
<1>1. /\ s \in PastType /\ s.gap = Unit * Unit
      /\ s.passed = p.passed + 1 /\ s.made = p.made + 1 /\ s.touched = now /\ s.goes = GoesOnAt(now, 0)
      /\ s.first = (IF p.passed = 0 THEN now ELSE p.first) /\ s.back = t.back
  <2>1. TRUE \in BOOLEAN /\ 0 \in Nat
    OBVIOUS
  <2> QED BY ZenonT(40), <2>1, PassShape
<1> DEFINE y == Rate * (p.touched - p.first + 2 * p.back) d == Abs(now - p.touched)
<1>2. /\ t.back \in Nat /\ t.touched = now /\ t.first = p.first /\ d \in Nat
      /\ Rate * (t.touched - t.first + 2 * t.back) = y + Rate * d
  BY TouchBound DEF PastType
<1>3. /\ p.passed \in Nat /\ p.made \in Nat /\ now \in Nat /\ y \in Int
      /\ Unit \in Nat /\ Rate \in Nat /\ Rate > 0
  BY LimitAssumption DEF PastType
<1> HIDE DEF s, t, y, d
<1>4. Spaced(s)
  <2> DEFINE u == Unit * Unit
  <2>1. u \in Nat /\ s.gap = u
    BY <1>1, <1>3
  <2> HIDE DEF u
  <2>2. Rate * (u + 1) >= u + 1
    BY <1>3, <2>1
  <2> QED BY <1>3, <2>1, <2>2 DEF Spaced, u
<1>5. ASSUME Unkept(p), NEW k PROVE InBucket(s, [key |-> k, last |-> now, excess |-> 0])
  <2>1. Owes(s, 0)
    <3>1. CASE p.passed = 0
      <4>1. s.passed - s.made = 0 /\ s.touched - s.first + 2 * s.back = 2 * t.back
        BY <1>1, <1>2, <1>3, <1>5, <3>1 DEF Unkept
      <4>2. Unit * 0 = 0 /\ 0 - 0 = 0 /\ Rate * (2 * t.back) \in Nat
        BY <1>2, <1>3
      <4>3. Rate * (2 * t.back) >= 0
        BY <4>2
      <4> QED BY <4>1, <4>2, <4>3 DEF Owes
    <3>2. CASE p.passed # 0
      <4> DEFINE x == Unit * (Unit * (p.passed - p.made) - 0)
      <4>1. s.passed - s.made = p.passed - p.made
        BY <1>1, <1>3
      <4>2. s.touched - s.first + 2 * s.back = t.touched - t.first + 2 * t.back
        BY <1>1, <1>2, <3>2
      <4>3. x <= y /\ x \in Int
        BY <1>3, <1>5 DEF Unkept, Owes, y
      <4>4. Rate * d \in Nat
        BY <1>2, <1>3
      <4> HIDE DEF x
      <4>5. x <= y + Rate * d
        BY <1>3, <4>3, <4>4
      <4> QED BY <1>2, <4>1, <4>2, <4>5 DEF Owes, x
    <3> QED BY <3>1, <3>2
  <2> QED BY <1>1, <1>3, <2>1 DEF InBucket
<1> QED BY <1>1, <1>4, <1>5 DEF s

\* A request that goes on from a bucket with room pays with what has run out of it.
LEMMA PassHit ==
  ASSUME NEW b \in NodeType, NEW p \in PastType, NEW now \in 0..MaxClock, InBucket(p, b)
  PROVE  LET e == Excess(b, now) s == Passed(p, now, e, FALSE) IN
         s \in PastType /\ Spaced(s) /\ InBucket(s, [b EXCEPT !.excess = e, !.last = now])
<1> DEFINE e == Excess(b, now) s == Passed(p, now, e, FALSE) t == Touched(p, now)
<1>1. e \in Nat
  BY ExcessBound
<1>2. FALSE \in BOOLEAN
  OBVIOUS
<1>3. /\ s \in PastType /\ s.passed = p.passed + 1 /\ s.made = p.made /\ s.touched = now
      /\ s.goes = GoesOnAt(now, e) /\ s.gap = GoesOnAt(now, e) - p.goes
      /\ s.first = (IF p.passed = 0 THEN now ELSE p.first) /\ s.back = t.back
  BY ZenonT(40), <1>1, <1>2, PassShape
<1> DEFINE y == Rate * (p.touched - p.first + 2 * p.back) d == Abs(now - p.touched)
           x == Unit * (p.passed - p.made)
<1>4. /\ t.back \in Nat /\ t.touched = now /\ t.first = p.first /\ d \in Nat
      /\ Rate * (t.touched - t.first + 2 * t.back) = y + Rate * d /\ (t.back = 0 => p.touched <= now)
  BY TouchBound DEF PastType
<1>5. /\ p.passed \in Nat /\ p.made \in Nat /\ now \in Nat /\ y \in Int /\ x \in Int
      /\ b.excess \in Nat /\ b.last \in Nat /\ p.passed > 0 /\ p.touched = b.last
      /\ p.goes = GoesOnAt(b.last, b.excess) /\ Unit * (x - b.excess) <= y
      /\ Unit \in Nat /\ Rate \in Nat /\ Rate > 0
  BY LimitAssumption DEF PastType, NodeType, InBucket, Owes
<1>6. Unit * e >= Unit * b.excess - Rate * d + Unit * Unit
  BY <1>5, ExcessBound
<1>7. /\ b.last \in 0..MaxClock /\ GoesOnAt(b.last, b.excess) \in Nat /\ GoesOnAt(now, e) \in Nat
      /\ Rate * GoesOnAt(b.last, b.excess) <= Rate * b.last + Unit * b.excess
      /\ Unit * e + Rate * now < Rate * (GoesOnAt(now, e) + 1)
  BY <1>1, <1>5, GoesOnBound DEF NodeType
<1>8. d = IF p.touched <= now THEN now - p.touched ELSE p.touched - now
  BY <1>5 DEF Abs
<1> HIDE DEF e, s, t, y, d
<1>9. Owes(s, e)
  <2> DEFINE z == s.passed - s.made
  <2> HIDE DEF z, x
  <2>1. Unit * z = x + Unit /\ Unit * (x + Unit - e) = Unit * (x - b.excess) + Unit * b.excess + Unit * Unit - Unit * e
    <3> DEFINE m == p.passed n == p.made
    <3>3. m \in Nat /\ n \in Nat
      BY <1>5
    <3>4. z = (m + 1) - n
      BY <1>3 DEF z
    <3> HIDE DEF m, n
    <3>5. z = m - n + 1
      BY <3>3, <3>4
    <3>1. z = p.passed - p.made + 1
      BY <3>5 DEF m, n
    <3>2. Unit * (p.passed - p.made + 1) = x + Unit
      BY <1>5 DEF x
    <3> QED BY <1>1, <1>5, <3>1, <3>2
  <2>2. Unit * z - e = x + Unit - e
    BY <1>1, <1>5, <2>1
  <2>3. /\ Unit * (x - b.excess) \in Int /\ Unit * b.excess \in Int /\ Unit * Unit \in Int
        /\ Unit * e \in Int /\ Rate * d \in Int
    BY <1>1, <1>4, <1>5
  <2>4. Unit * (x + Unit - e) <= y + Rate * d
    BY <1>5, <1>6, <2>1, <2>3
  <2>5. s.touched - s.first + 2 * s.back = t.touched - t.first + 2 * t.back
    BY <1>3, <1>4, <1>5
  <2> QED BY <1>4, <2>2, <2>4, <2>5 DEF Owes, z
<1>10. Spaced(s)
  <2> SUFFICES ASSUME t.back = 0 PROVE Rate * (s.gap + 1) >= Unit * Unit
    BY <1>3 DEF Spaced
  <2> DEFINE g == GoesOnAt(now, e) h == GoesOnAt(b.last, b.excess)
  <2>1. Rate * d = Rate * now - Rate * b.last
    BY <1>4, <1>5, <1>8
  <2> HIDE DEF g, h
  <2>2. g \in Nat /\ h \in Nat /\ s.gap + 1 = (g + 1) - h
    BY <1>3, <1>5, <1>7 DEF g, h
  <2>3. Rate * (s.gap + 1) = Rate * (g + 1) - Rate * h
    BY <1>5, <2>2
  <2>4. /\ Rate * h <= Rate * b.last + Unit * b.excess /\ Unit * e + Rate * now < Rate * (g + 1)
    BY <1>7 DEF g, h
  <2>5. /\ Rate * (g + 1) \in Int /\ Rate * h \in Int /\ Unit * b.excess \in Int /\ Unit * e \in Int
        /\ Unit * Unit \in Int /\ Rate * now \in Int /\ Rate * b.last \in Int
    BY <1>1, <1>5, <2>2
  <2> QED BY <1>6, <2>1, <2>3, <2>4, <2>5
<1>11. InBucket(s, [b EXCEPT !.excess = e, !.last = now])
  <2> DEFINE c == [b EXCEPT !.excess = e, !.last = now]
  <2>1. c.excess = e /\ c.last = now
    BY DEF NodeType
  <2> HIDE DEF c
  <2> QED BY <1>3, <1>5, <1>9, <2>1 DEF InBucket
<1> QED BY <1>3, <1>10, <1>11 DEF s, e

-----------------------------------------------------------------------------
(* The queue of nodes *)

\* A node put at the head of a queue it was in at i.
LEMMA ToHead ==
  ASSUME NEW S, NEW q \in Seq(S), NEW i \in DOMAIN q, NEW b \in S
  PROVE  LET s == <<b>> \o RemoveAt(q, i) IN
         /\ s \in Seq(S) /\ Len(s) = Len(q) /\ s[1] = b
         /\ \A j \in 2..Len(q) : s[j] = IF j <= i THEN q[j - 1] ELSE q[j]
<1> DEFINE l == SubSeq(q, 1, i - 1) r == SubSeq(q, i + 1, Len(q)) t == l \o r s == <<b>> \o t
<1>1. i \in 1..Len(q) /\ Len(q) \in Nat /\ \A j \in 1..Len(q) : q[j] \in S
  BY LenProperties, ElementOfSeq
<1>2. l \in Seq(S) /\ Len(l) = i - 1 /\ \A j \in 1..(i - 1) : l[j] = q[j]
  BY <1>1, SubSeqProperties
<1>3. r \in Seq(S) /\ Len(r) = Len(q) - i /\ \A j \in 1..(Len(q) - i) : r[j] = q[j + i]
  BY <1>1, SubSeqProperties
<1> HIDE DEF l, r
<1>4. /\ t \in Seq(S) /\ Len(t) = Len(q) - 1
      /\ \A j \in 1..(Len(q) - 1) : t[j] = IF j <= i - 1 THEN q[j] ELSE q[j + 1]
  <2>1. /\ t \in Seq(S) /\ Len(t) = Len(l) + Len(r)
        /\ \A j \in 1..(Len(l) + Len(r)) : t[j] = IF j <= Len(l) THEN l[j] ELSE r[j - Len(l)]
    BY <1>2, <1>3, ConcatProperties
  <2> HIDE DEF t
  <2>2. ASSUME NEW j \in 1..(Len(q) - 1) PROVE t[j] = IF j <= i - 1 THEN q[j] ELSE q[j + 1]
    <3>1. i \in Int /\ Len(q) \in Int /\ j \in 1..(Len(l) + Len(r))
      BY <1>1, <1>2, <1>3
    <3>2. t[j] = IF j <= i - 1 THEN l[j] ELSE r[j - (i - 1)]
      BY <1>2, <2>1, <3>1
    <3>3. CASE j <= i - 1
      BY <1>2, <3>1, <3>2, <3>3
    <3>4. CASE ~(j <= i - 1)
      <4>1. j - (i - 1) \in 1..(Len(q) - i) /\ j - (i - 1) + i = j + 1
        BY <3>1, <3>4
      <4> QED BY <1>3, <3>2, <3>4, <4>1
    <3> QED BY <3>3, <3>4
  <2> QED BY <1>1, <1>2, <1>3, <2>1, <2>2
<1>5. <<b>> \in Seq(S) /\ Len(<<b>>) = 1 /\ <<b>>[1] = b
  OBVIOUS
<1> HIDE DEF t
<1>6. /\ s \in Seq(S) /\ Len(s) = Len(q)
      /\ \A j \in 1..Len(q) : s[j] = IF j <= 1 THEN b ELSE t[j - 1]
  BY <1>1, <1>4, <1>5, ConcatProperties
<1>7. s = <<b>> \o RemoveAt(q, i)
  BY DEF RemoveAt, t, l, r
<1> HIDE DEF s
<1>8. \A j \in 2..Len(q) : s[j] = IF j <= i THEN q[j - 1] ELSE q[j]
  <2> SUFFICES ASSUME NEW j \in 2..Len(q) PROVE s[j] = IF j <= i THEN q[j - 1] ELSE q[j]
    OBVIOUS
  <2> DEFINE n == Len(q) m == j - 1
  <2>1. n \in Nat /\ i \in 1..n /\ j \in 2..n
    BY <1>1
  <2> HIDE DEF n
  <2>2. m \in 1..(n - 1) /\ j \in 1..n /\ ~(j <= 1) /\ m + 1 = j /\ (m <= i - 1 <=> j <= i)
    BY <2>1
  <2>3. s[j] = t[m]
    BY <1>6, <2>2 DEF n
  <2>4. t[m] = IF m <= i - 1 THEN q[m] ELSE q[m + 1]
    BY <1>4, <2>2 DEF n
  <2> HIDE DEF m
  <2>5. s[j] = IF j <= i THEN q[m] ELSE q[j]
    BY <2>2, <2>3, <2>4
  <2> QED BY <2>5 DEF m
<1> QED BY <1>1, <1>6, <1>7, <1>8

\* The front part of a queue.
LEMMA Prefix ==
  ASSUME NEW S, NEW q \in Seq(S), NEW m \in 0..Len(q)
  PROVE  LET s == SubSeq(q, 1, m) IN
         s \in Seq(S) /\ Len(s) = m /\ DOMAIN s = 1..m /\ \A j \in 1..m : s[j] = q[j]
<1>1. Len(q) \in Nat /\ \A j \in 1..Len(q) : q[j] \in S
  BY LenProperties, ElementOfSeq
<1> DEFINE s == SubSeq(q, 1, m)
<1>2. s \in Seq(S) /\ Len(s) = m /\ \A j \in 1..m : s[j] = q[j]
  BY <1>1, SubSeqProperties
<1> HIDE DEF s
<1>3. DOMAIN s = 1..m
  BY <1>2, LenProperties
<1> QED BY <1>2, <1>3 DEF s

\* The expiry of old nodes takes them from the end of the queue.
LEMMA ExpiredPrefix ==
  ASSUME NEW q \in Seq(NodeType), NEW now
  PROVE  \E m \in 0..Len(q) :
           Expired(q, now) = SubSeq(q, 1, m) /\ \A i \in (m + 1)..Len(q) : Old(q[i], now)
<1> DEFINE n == Len(q)
<1>1. n \in Nat /\ SubSeq(q, 1, n) = q
  BY LenProperties, SubSeqFull
<1> HIDE DEF n
<1>2. CASE n = 0 \/ ~Old(q[n], now)
  <2>1. n \in 0..n /\ Expired(q, now) = SubSeq(q, 1, n) /\ \A i \in (n + 1)..n : Old(q[i], now)
    BY <1>1, <1>2 DEF Expired, n
  <2> QED BY <2>1 DEF n
<1>3. CASE n # 0 /\ Old(q[n], now) /\ (n = 1 \/ ~Old(q[n - 1], now))
  <2>1. n - 1 \in 0..n /\ Expired(q, now) = SubSeq(q, 1, n - 1)
    BY <1>1, <1>3 DEF Expired, Front, n
  <2>2. \A i \in (n - 1 + 1)..n : Old(q[i], now)
    BY <1>1, <1>3
  <2> QED BY <2>1, <2>2 DEF n
<1>4. CASE n # 0 /\ Old(q[n], now) /\ n # 1 /\ Old(q[n - 1], now)
  <2>1. n - 2 \in 0..n /\ Expired(q, now) = SubSeq(q, 1, n - 2)
    BY <1>1, <1>4 DEF Expired, n
  <2>2. \A i \in (n - 2 + 1)..n : i = n - 1 \/ i = n
    BY <1>1
  <2>3. \A i \in (n - 2 + 1)..n : Old(q[i], now)
    BY <1>4, <2>2
  <2> QED BY <2>1, <2>3 DEF n
<1> QED BY <1>2, <1>3, <1>4

\* When nodes are deleted from the end of the queue, old ones as unused and others by force, what
\* stays is tied to the history that forgets them.
LEMMA Shrink ==
  ASSUME LimitInv, NEW now \in 0..MaxClock, NEW m \in 0..Len(bucket), NEW lost \in SUBSET LimitKeys,
         \A i \in (m + 1)..Len(bucket) : Old(bucket[i], now) \/ bucket[i].key \in lost,
         \A k \in lost : \E i \in (m + 1)..Len(bucket) : bucket[i].key = k
  PROVE  LET r == SubSeq(bucket, 1, m) f == Forgotten(now, Dropped(bucket, r), lost) IN
         /\ r \in Seq(NodeType) /\ Len(r) = m /\ DOMAIN r = 1..m /\ OneEach(r)
         /\ \A j \in 1..m : r[j] = bucket[j]
         /\ f \in [LimitKeys -> PastType] /\ \A k \in LimitKeys : Spaced(f[k])
         /\ Tied(r, f)
<1> DEFINE r == SubSeq(bucket, 1, m) old == Dropped(bucket, r) f == Forgotten(now, old, lost)
           n == Len(bucket)
<1>1. /\ bucket \in Seq(NodeType) /\ n \in Nat /\ DOMAIN bucket = 1..n
      /\ \A j \in 1..n : bucket[j] \in NodeType
  BY LenProperties, ElementOfSeq DEF LimitInv
<1>2. /\ r \in Seq(NodeType) /\ Len(r) = m /\ DOMAIN r = 1..m
      /\ \A j \in 1..m : r[j] = bucket[j]
  BY <1>1, Prefix
<1>3. old = {bucket[i].key : i \in (m + 1)..n}
  BY <1>2 DEF Dropped
<1>4. f = [j \in LimitKeys |->
             IF j \in lost THEN NoPast ELSE IF j \in old THEN Touched(past[j], now) ELSE past[j]]
  BY DEF Forgotten
<1> HIDE DEF r, old, f, n
<1>5. OneEach(r)
  BY <1>1, <1>2 DEF LimitInv, OneEach
<1>6. NoPast \in PastType /\ Spaced(NoPast) /\ Unkept(NoPast)
  <2>1. Unit * Unit \in Nat
    BY LimitAssumption
  <2>2. NoPast \in PastType
    BY <2>1 DEF NoPast, PastType
  <2>3. Spaced(NoPast)
    <3> DEFINE u == Unit * Unit
    <3>1. u \in Nat /\ Rate \in Nat \ {0}
      BY <2>1, LimitAssumption
    <3>2. NoPast.gap = u
      BY DEF NoPast
    <3> HIDE DEF u
    <3>3. Rate * (u + 1) >= u + 1
      BY <3>1
    <3> QED BY <3>1, <3>2, <3>3 DEF Spaced, u
  <2>4. Unkept(NoPast)
    BY LimitAssumption DEF Unkept, Owes, NoPast
  <2> QED BY <2>2, <2>3, <2>4
<1>7. ASSUME NEW k \in LimitKeys PROVE f[k] \in PastType /\ Spaced(f[k])
  <2>1. past[k] \in PastType /\ Spaced(past[k])
    BY DEF LimitInv
  <2>2. Touched(past[k], now) \in PastType /\ Spaced(Touched(past[k], now))
    <3> DEFINE t == Touched(past[k], now)
    <3>1. t \in PastType /\ t.gap = past[k].gap /\ t.back >= past[k].back
      BY <2>1, TouchBound
    <3> HIDE DEF t
    <3>2. t.back = 0 => past[k].back = 0
      BY SMTT(30), <2>1, <3>1 DEF PastType
    <3> QED BY <2>1, <3>1, <3>2 DEF Spaced, t
  <2> QED BY <1>4, <1>6, <2>1, <2>2
<1>8. f \in [LimitKeys -> PastType]
  BY <1>4, <1>7
<1>9. ASSUME NEW k \in LimitKeys \ LongKeys
      PROVE  /\ \A i \in 1..m : r[i].key = k => InBucket(f[k], r[i])
             /\ (\A i \in 1..m : r[i].key # k) => Unkept(f[k])
  <2>1. \A i, j \in 1..n : bucket[i].key = k /\ bucket[j].key = k => i = j
    BY <1>1 DEF LimitInv, OneEach
  <2>2. \A i \in 1..n : bucket[i].key = k => InBucket(past[k], bucket[i])
    BY <1>1 DEF LimitInv, Tied
  <2>3. (\A i \in 1..n : bucket[i].key # k) => Unkept(past[k])
    BY <1>1 DEF LimitInv, Tied
  <2>4. ASSUME NEW i \in 1..m, r[i].key = k PROVE InBucket(f[k], r[i])
    <3>1. \A j \in (m + 1)..n : bucket[j].key # k
      BY <1>1, <1>2, <2>1, <2>4
    <3>2. k \notin old /\ k \notin lost
      BY <1>3, <3>1 DEF n
    <3> QED BY <1>1, <1>2, <1>4, <2>2, <2>4, <3>2
  <2>5. ASSUME \A i \in 1..m : r[i].key # k PROVE Unkept(f[k])
    <3>1. CASE k \in lost
      BY <1>4, <1>6, <3>1
    <3>2. CASE k \notin lost /\ k \in old
      <4>1. PICK i \in (m + 1)..n : bucket[i].key = k
        BY <1>3, <3>2
      <4>2. i \in 1..n
        BY <1>1
      <4>3. Old(bucket[i], now) /\ InBucket(past[k], bucket[i])
        BY <2>2, <3>2, <4>1, <4>2 DEF n
      <4>4. past[k] \in PastType /\ bucket[i] \in NodeType
        BY <1>1, <4>2 DEF LimitInv
      <4> QED BY <1>4, <3>2, <4>3, <4>4, OldPaid
    <3>3. CASE k \notin lost /\ k \notin old
      <4>1. \A i \in (m + 1)..n : bucket[i].key # k
        BY <1>3, <3>3
      <4>2. \A i \in 1..n : bucket[i].key # k
        BY <1>1, <1>2, <2>5, <4>1
      <4> QED BY <1>4, <2>3, <3>3, <4>2
    <3> QED BY <3>1, <3>2, <3>3
  <2> QED BY <2>4, <2>5
<1>10. Tied(r, f)
  BY <1>2, <1>9 DEF Tied
<1> QED BY <1>2, <1>5, <1>7, <1>8, <1>10 DEF r, f, old

\* The node of a key put at the head, with what its request leaves in the history.
LEMMA Hit ==
  ASSUME NEW q \in Seq(NodeType), OneEach(q), NEW f \in [LimitKeys -> PastType], Tied(q, f),
         \A k \in LimitKeys : Spaced(f[k]),
         NEW i \in DOMAIN q, q[i].key \notin LongKeys, NEW b \in NodeType, b.key = q[i].key,
         NEW p \in PastType, Spaced(p), InBucket(p, b)
  PROVE  LET s == <<b>> \o RemoveAt(q, i) g == [f EXCEPT ![b.key] = p] IN
         /\ s \in Seq(NodeType) /\ Len(s) = Len(q) /\ OneEach(s)
         /\ g \in [LimitKeys -> PastType] /\ \A k \in LimitKeys : Spaced(g[k])
         /\ Tied(s, g)
<1> DEFINE s == <<b>> \o RemoveAt(q, i) g == [f EXCEPT ![b.key] = p] n == Len(q)
<1>1. n \in Nat /\ DOMAIN q = 1..n /\ i \in 1..n
  BY LenProperties
<1>2. /\ s \in Seq(NodeType) /\ Len(s) = n /\ s[1] = b
      /\ \A j \in 2..n : s[j] = IF j <= i THEN q[j - 1] ELSE q[j]
  BY ToHead
<1> HIDE DEF s, n
<1>3. DOMAIN s = 1..n
  BY <1>2, LenProperties
<1> DEFINE place(j) == IF j = 1 THEN i ELSE IF j <= i THEN j - 1 ELSE j
<1>4. ASSUME NEW j \in 1..n PROVE place(j) \in 1..n /\ s[j] = IF j = 1 THEN b ELSE q[place(j)]
  BY <1>1, <1>2
<1>5. ASSUME NEW j \in 1..n, NEW l \in 1..n, place(j) = place(l) PROVE j = l
  BY <1>1, <1>5
<1>6. ASSUME NEW j \in 1..n PROVE s[j].key = q[place(j)].key
  BY <1>1, <1>4
<1>7. ASSUME NEW j \in 1..n PROVE \E l \in 1..n : place(l) = j
  <2>1. CASE j = i
    BY <1>1, <2>1
  <2>2. CASE j < i
    <3>1. j + 1 \in 1..n /\ place(j + 1) = j
      BY <1>1, <2>2
    <3> QED BY <3>1
  <2>3. CASE j > i
    BY <1>1, <2>3
  <2> QED BY <1>1, <2>1, <2>2, <2>3
<1> HIDE DEF place
<1>8. OneEach(s)
  <2> SUFFICES ASSUME NEW j \in 1..n, NEW l \in 1..n, s[j].key = s[l].key, s[j].key \notin LongKeys
               PROVE  j = l
    BY <1>3 DEF OneEach
  <2>1. place(j) = place(l)
    <3>1. place(j) \in DOMAIN q /\ place(l) \in DOMAIN q
      BY <1>1, <1>4
    <3>2. q[place(j)].key = q[place(l)].key /\ q[place(j)].key \notin LongKeys
      BY <1>6
    <3> QED BY <3>1, <3>2 DEF OneEach
  <2> QED BY <1>5, <2>1
<1>9. b.key \in LimitKeys /\ g \in [LimitKeys -> PastType] /\ \A k \in LimitKeys : Spaced(g[k])
  BY DEF NodeType
<1>10. ASSUME NEW k \in LimitKeys \ LongKeys
       PROVE  /\ \A j \in 1..n : s[j].key = k => InBucket(g[k], s[j])
              /\ (\A j \in 1..n : s[j].key # k) => Unkept(g[k])
  <2>1. \A j \in 1..n : q[j].key = k => InBucket(f[k], q[j])
    BY <1>1 DEF Tied
  <2>2. (\A j \in 1..n : q[j].key # k) => Unkept(f[k])
    BY <1>1 DEF Tied
  <2>3. ASSUME NEW j \in 1..n, s[j].key = k PROVE InBucket(g[k], s[j])
    <3>1. CASE j = 1
      BY <1>2, <1>9, <2>3, <3>1
    <3>2. CASE j # 1
      <4>1. s[j] = q[place(j)] /\ place(j) \in 1..n
        BY <1>4, <3>2
      <4>2. place(j) # i
        <5>1. place(1) = i /\ 1 \in 1..n
          BY <1>1 DEF place
        <5> QED BY <1>5, <3>2, <5>1
      <4>3. k # b.key
        BY <1>1, <2>3, <4>1, <4>2 DEF OneEach
      <4> QED BY <1>9, <2>1, <2>3, <4>1, <4>3
    <3> QED BY <3>1, <3>2
  <2>4. ASSUME \A j \in 1..n : s[j].key # k PROVE Unkept(g[k])
    <3>1. \A j \in 1..n : q[j].key # k
      BY <1>6, <1>7, <2>4
    <3>2. k # b.key
      BY <1>1, <3>1
    <3> QED BY <1>9, <2>2, <3>1, <3>2
  <2> QED BY <2>3, <2>4
<1>11. Tied(s, g)
  BY <1>3, <1>10 DEF Tied
<1> QED BY <1>2, <1>8, <1>9, <1>11 DEF s, n

\* A node made for a key that has none, or whose node cannot be found.
LEMMA Made ==
  ASSUME NEW q \in Seq(NodeType), OneEach(q), NEW f \in [LimitKeys -> PastType], Tied(q, f),
         \A k \in LimitKeys : Spaced(f[k]),
         NEW b \in NodeType, b.key \in LongKeys \/ \A i \in DOMAIN q : q[i].key # b.key,
         NEW p \in PastType, Spaced(p), b.key \notin LongKeys => InBucket(p, b)
  PROVE  LET s == <<b>> \o q g == [f EXCEPT ![b.key] = p] IN
         /\ s \in Seq(NodeType) /\ Len(s) = Len(q) + 1 /\ OneEach(s)
         /\ g \in [LimitKeys -> PastType] /\ \A k \in LimitKeys : Spaced(g[k])
         /\ Tied(s, g)
<1> DEFINE s == <<b>> \o q g == [f EXCEPT ![b.key] = p] n == Len(q)
<1>1. n \in Nat /\ DOMAIN q = 1..n
  BY LenProperties
<1>2. /\ s \in Seq(NodeType) /\ Len(s) = n + 1 /\ s[1] = b
      /\ \A j \in 2..(n + 1) : s[j] = q[j - 1]
  BY AtHead
<1> HIDE DEF s, n
<1>3. DOMAIN s = 1..(n + 1)
  BY <1>2, LenProperties
<1>4. \A j \in 2..(n + 1) : j - 1 \in 1..n /\ s[j] = q[j - 1]
  BY <1>1, <1>2
<1>5. \A j \in 1..n : j + 1 \in 2..(n + 1) /\ j + 1 \in 1..(n + 1) /\ s[j + 1] = q[j]
  <2> SUFFICES ASSUME NEW j \in 1..n
               PROVE  j + 1 \in 2..(n + 1) /\ j + 1 \in 1..(n + 1) /\ s[j + 1] = q[j]
    OBVIOUS
  <2>1. j + 1 \in 2..(n + 1) /\ j + 1 \in 1..(n + 1) /\ j + 1 - 1 = j
    BY <1>1
  <2> QED BY <1>4, <2>1
<1>6. OneEach(s)
  <2> SUFFICES ASSUME NEW j \in 1..(n + 1), NEW l \in 1..(n + 1), s[j].key = s[l].key,
                      s[j].key \notin LongKeys
               PROVE  j = l
    BY <1>3 DEF OneEach
  <2>1. CASE j # 1 /\ l # 1
    <3>1. j \in 2..(n + 1) /\ l \in 2..(n + 1)
      BY <1>1, <2>1
    <3>2. j - 1 = l - 1
      BY <1>1, <1>4, <3>1 DEF OneEach
    <3> QED BY <1>1, <3>1, <3>2
  <2>2. CASE j = 1 /\ l # 1
    <3>1. l \in 2..(n + 1)
      BY <1>1, <2>2
    <3> QED BY <1>1, <1>2, <1>4, <2>2, <3>1
  <2>3. CASE j # 1 /\ l = 1
    <3>1. j \in 2..(n + 1)
      BY <1>1, <2>3
    <3> QED BY <1>1, <1>2, <1>4, <2>3, <3>1
  <2> QED BY <2>1, <2>2, <2>3
<1>7. b.key \in LimitKeys /\ g \in [LimitKeys -> PastType] /\ \A k \in LimitKeys : Spaced(g[k])
  BY DEF NodeType
<1>8. ASSUME NEW k \in LimitKeys \ LongKeys
      PROVE  /\ \A j \in 1..(n + 1) : s[j].key = k => InBucket(g[k], s[j])
             /\ (\A j \in 1..(n + 1) : s[j].key # k) => Unkept(g[k])
  <2>1. \A j \in 1..n : q[j].key = k => InBucket(f[k], q[j])
    BY <1>1 DEF Tied
  <2>2. (\A j \in 1..n : q[j].key # k) => Unkept(f[k])
    BY <1>1 DEF Tied
  <2>3. 1 \in 1..(n + 1)
    BY <1>1
  <2>4. ASSUME NEW j \in 1..(n + 1), s[j].key = k PROVE InBucket(g[k], s[j])
    <3>1. CASE j = 1
      BY <1>2, <1>7, <2>4, <3>1
    <3>2. CASE j # 1
      <4>1. j - 1 \in 1..n /\ s[j] = q[j - 1]
        BY <1>1, <1>4, <3>2
      <4>2. k # b.key
        BY <1>1, <2>4, <4>1
      <4> QED BY <1>7, <2>1, <2>4, <4>1, <4>2
    <3> QED BY <3>1, <3>2
  <2>5. ASSUME \A j \in 1..(n + 1) : s[j].key # k PROVE Unkept(g[k])
    <3>1. k # b.key /\ \A j \in 1..n : q[j].key # k
      BY <1>2, <1>5, <2>3, <2>5
    <3> QED BY <1>7, <2>2, <3>1
  <2> QED BY <2>4, <2>5
<1>9. Tied(s, g)
  BY <1>3, <1>8 DEF Tied
<1> QED BY <1>2, <1>6, <1>7, <1>9 DEF s, n

-----------------------------------------------------------------------------
(* The steps *)

\* The zones start empty, with every request idle.
LEMMA LimitInitInv == LimitInit => LimitInv
<1> SUFFICES ASSUME LimitInit PROVE LimitInv
  OBVIOUS
<1>1. NoPast \in PastType /\ Spaced(NoPast) /\ Unkept(NoPast)
  <2> DEFINE u == Unit * Unit
  <2>1. u \in Nat /\ Rate \in Nat \ {0}
    BY LimitAssumption
  <2>2. NoPast = [passed |-> 0, made |-> 0, first |-> 0, touched |-> 0, back |-> 0, goes |-> 0, gap |-> u]
    BY DEF NoPast
  <2>3. Unkept(NoPast)
    BY LimitAssumption DEF Unkept, Owes, NoPast
  <2> HIDE DEF u
  <2>4. NoPast \in PastType
    BY <2>1, <2>2 DEF PastType
  <2>5. Rate * (u + 1) >= u + 1
    BY <2>1
  <2>6. Spaced(NoPast)
    BY <2>1, <2>2, <2>5 DEF Spaced, u
  <2> QED BY <2>3, <2>4, <2>6
<1>2. bucket = <<>> /\ past = [k \in LimitKeys |-> NoPast] /\ 0 \in 0..MaxClock
  BY LimitAssumption DEF LimitInit
<1>3. bucket \in Seq(NodeType) /\ Len(bucket) = 0 /\ DOMAIN bucket = {}
  BY <1>2
<1>4. OneEach(bucket)
  BY <1>3 DEF OneEach
<1>5. Tied(bucket, past)
  BY <1>1, <1>2, <1>3 DEF Tied
<1>6. Len(bucket) <= ZoneNodes
  BY <1>3, LimitAssumption
<1> QED BY <1>1, <1>2, <1>3, <1>4, <1>5, <1>6 DEF LimitInv, LimitInit

\* A request, whatever it does: it goes on or is refused, with the node of its key, with a new one,
\* or with one that another key has to give up.
LEMMA RequestStep ==
  ASSUME LimitInv, NEW w \in LimitWorkers, NEW k \in LimitKeys, Request(w, k)
  PROVE  LimitInv'
<1> DEFINE now == cached[w] q == Expired(bucket, now) n == Len(bucket)
           hit == {i \in DOMAIN q : i \in Found(k)}
<1>1. /\ bucket \in Seq(NodeType) /\ n \in Nat /\ DOMAIN bucket = 1..n /\ n <= ZoneNodes
      /\ now \in 0..MaxClock /\ UNCHANGED <<clock, cached>> /\ ZoneNodes \in Nat /\ ZoneNodes > 0
  <2>1. bucket \in Seq(NodeType) /\ n <= ZoneNodes /\ now \in 0..MaxClock /\ UNCHANGED <<clock, cached>>
    BY DEF LimitInv, Request
  <2> QED BY <2>1, LenProperties, LimitAssumption
<1> HIDE DEF now, n
<1>2. PICK m \in 0..n : q = SubSeq(bucket, 1, m) /\ \A i \in (m + 1)..n : Old(bucket[i], now)
  BY <1>1, ExpiredPrefix DEF n
<1> DEFINE f == Forgotten(now, Dropped(bucket, q), {})
<1>3. /\ q \in Seq(NodeType) /\ Len(q) = m /\ DOMAIN q = 1..m /\ OneEach(q)
      /\ \A j \in 1..m : q[j] = bucket[j]
      /\ f \in [LimitKeys -> PastType] /\ \A j \in LimitKeys : Spaced(f[j])
      /\ Tied(q, f)
  BY <1>1, <1>2, Shrink DEF n
<1>10. m <= ZoneNodes
  BY <1>1
<1>4. \/ \E i \in hit :
           LET e == Excess(q[i], now)
           IN /\ e <= Burst
              /\ bucket' = <<[q[i] EXCEPT !.excess = e, !.last = now]>> \o RemoveAt(q, i)
              /\ past' = [f EXCEPT ![k] = Passed(@, now, e, FALSE)]
      \/ \E i \in hit : bucket' = <<q[i]>> \o RemoveAt(q, i) /\ past' = f
      \/ /\ hit = {}
         /\ LET full == Len(q) >= ZoneNodes
                rest == IF full THEN Expired(Front(q), now) ELSE q
                lost == IF full THEN {Last(q).key} ELSE {}
                g    == Forgotten(now, Dropped(bucket, rest), lost)
            IN /\ bucket' = <<[key |-> k, last |-> now, excess |-> 0]>> \o rest
               /\ past' = [g EXCEPT ![k] = Passed(@, now, 0, TRUE)]
  BY DEF Request, now
<1>5. hit = {i \in 1..m : bucket[i].key = k /\ k \notin LongKeys}
  BY <1>1, <1>2, <1>3 DEF Found
<1> HIDE DEF q, f, hit
<1>6. ASSUME NEW i \in hit
      PROVE  /\ i \in DOMAIN q /\ q[i] \in NodeType /\ q[i].key = k /\ k \notin LongKeys
             /\ f[k] \in PastType /\ Spaced(f[k]) /\ InBucket(f[k], q[i])
  <2>1. i \in DOMAIN q /\ q[i].key = k /\ k \notin LongKeys
    BY <1>3, <1>5
  <2> QED BY <1>3, <2>1, ElementOfSeq DEF Tied
<1>7. CASE \E i \in hit :
             LET e == Excess(q[i], now)
             IN /\ e <= Burst
                /\ bucket' = <<[q[i] EXCEPT !.excess = e, !.last = now]>> \o RemoveAt(q, i)
                /\ past' = [f EXCEPT ![k] = Passed(@, now, e, FALSE)]
  <2> PICK i \in hit :
             LET e == Excess(q[i], now)
             IN /\ e <= Burst
                /\ bucket' = <<[q[i] EXCEPT !.excess = e, !.last = now]>> \o RemoveAt(q, i)
                /\ past' = [f EXCEPT ![k] = Passed(@, now, e, FALSE)]
    BY <1>7
  <2> DEFINE e == Excess(q[i], now) b == [q[i] EXCEPT !.excess = e, !.last = now]
             p == Passed(f[k], now, e, FALSE)
  <2>1. p \in PastType /\ Spaced(p) /\ InBucket(p, b)
    BY <1>1, <1>6, PassHit
  <2>2. e \in 0..Burst
    BY <1>1, <1>6, ExcessBound, LimitAssumption
  <2>3. b \in NodeType /\ b.key = k
    BY <1>1, <1>6, <2>2 DEF NodeType
  <2>4. bucket' = <<b>> \o RemoveAt(q, i) /\ past' = [f EXCEPT ![b.key] = p]
    BY <1>3, <2>3
  <2> HIDE DEF b, p, e
  <2>5. /\ bucket' \in Seq(NodeType) /\ Len(bucket') = m /\ OneEach(bucket')
        /\ past' \in [LimitKeys -> PastType] /\ (\A j \in LimitKeys : Spaced(past'[j]))
        /\ Tied(bucket', past')
    <3>1. i \in DOMAIN q /\ q[i].key \notin LongKeys /\ b.key = q[i].key
      BY <1>6, <2>3
    <3>2. LET s == <<b>> \o RemoveAt(q, i) g == [f EXCEPT ![b.key] = p] IN
          /\ s \in Seq(NodeType) /\ Len(s) = Len(q) /\ OneEach(s)
          /\ g \in [LimitKeys -> PastType] /\ \A j \in LimitKeys : Spaced(g[j])
          /\ Tied(s, g)
      BY <1>3, <2>1, <2>3, <3>1, Hit
    <3> QED BY <1>3, <2>4, <3>2
  <2> QED BY <1>1, <1>10, <2>5 DEF LimitInv, OneEach, Tied
<1>8. CASE \E i \in hit : bucket' = <<q[i]>> \o RemoveAt(q, i) /\ past' = f
  <2> PICK i \in hit : bucket' = <<q[i]>> \o RemoveAt(q, i) /\ past' = f
    BY <1>8
  <2>1. [f EXCEPT ![q[i].key] = f[k]] = f
    BY <1>3, <1>6
  <2>2. /\ bucket' \in Seq(NodeType) /\ Len(bucket') = m /\ OneEach(bucket')
        /\ past' \in [LimitKeys -> PastType] /\ (\A j \in LimitKeys : Spaced(past'[j]))
        /\ Tied(bucket', past')
    <3>1. i \in DOMAIN q /\ q[i].key \notin LongKeys
      BY <1>6
    <3>2. LET s == <<q[i]>> \o RemoveAt(q, i) g == [f EXCEPT ![q[i].key] = f[k]] IN
          /\ s \in Seq(NodeType) /\ Len(s) = Len(q) /\ OneEach(s)
          /\ g \in [LimitKeys -> PastType] /\ \A j \in LimitKeys : Spaced(g[j])
          /\ Tied(s, g)
      BY <1>3, <1>6, <3>1, Hit
    <3> QED BY <1>3, <2>1, <3>2
  <2> QED BY <1>1, <1>10, <2>2 DEF LimitInv, OneEach, Tied
<1>9. CASE /\ hit = {}
           /\ LET full == Len(q) >= ZoneNodes
                  rest == IF full THEN Expired(Front(q), now) ELSE q
                  lost == IF full THEN {Last(q).key} ELSE {}
                  g    == Forgotten(now, Dropped(bucket, rest), lost)
              IN /\ bucket' = <<[key |-> k, last |-> now, excess |-> 0]>> \o rest
                 /\ past' = [g EXCEPT ![k] = Passed(@, now, 0, TRUE)]
  <2> DEFINE full == m >= ZoneNodes
             rest == IF full THEN Expired(Front(q), now) ELSE q
             lost == IF full THEN {Last(q).key} ELSE {}
             g    == Forgotten(now, Dropped(bucket, rest), lost)
             b    == [key |-> k, last |-> now, excess |-> 0]
             p    == Passed(g[k], now, 0, TRUE)
  <2>1. /\ bucket' = <<b>> \o rest
        /\ past' = [g EXCEPT ![k] = Passed(@, now, 0, TRUE)]
    BY <1>3, <1>9
  <2>2. \A i \in 1..m : bucket[i].key = k => k \in LongKeys
    BY <1>5, <1>9
  <2>3. PICK l \in 0..m :
          /\ rest = SubSeq(bucket, 1, l) /\ l < ZoneNodes
          /\ \A i \in (l + 1)..n : Old(bucket[i], now) \/ bucket[i].key \in lost
          /\ \A j \in lost : \E i \in (l + 1)..n : bucket[i].key = j
          /\ lost \in SUBSET LimitKeys
    <3>1. CASE ~full
      <4>1. m < ZoneNodes /\ rest = SubSeq(bucket, 1, m) /\ lost = {}
        BY <1>1, <1>2, <3>1
      <4>2. m \in 0..m
        OBVIOUS
      <4> HIDE DEF rest, lost, full
      <4> QED BY <1>2, <4>1, <4>2
    <3>2. CASE full
      <4>1. m \in 1..n /\ m - 1 \in 0..m /\ m = ZoneNodes
        BY <1>1, <3>2
      <4> DEFINE c == Front(q)
      <4>2. c = SubSeq(q, 1, m - 1)
        BY <1>3 DEF Front
      <4>3. /\ c \in Seq(NodeType) /\ Len(c) = m - 1 /\ DOMAIN c = 1..(m - 1)
            /\ \A j \in 1..(m - 1) : c[j] = q[j]
        BY <1>3, <4>1, <4>2, Prefix
      <4> HIDE DEF c
      <4>4. PICK l \in 0..(m - 1) : Expired(c, now) = SubSeq(c, 1, l) /\ \A i \in (l + 1)..(m - 1) : Old(c[i], now)
        BY <4>3, ExpiredPrefix
      <4>5. l \in 0..m /\ l < ZoneNodes /\ l \in 0..n /\ l \in 0..Len(c)
        BY <1>1, <4>1, <4>3, <4>4
      <4>6. SubSeq(c, 1, l) = SubSeq(bucket, 1, l)
        <5>1. /\ SubSeq(c, 1, l) \in Seq(NodeType) /\ Len(SubSeq(c, 1, l)) = l
              /\ \A j \in 1..l : SubSeq(c, 1, l)[j] = c[j]
          BY <4>3, <4>5, Prefix
        <5>2. /\ SubSeq(bucket, 1, l) \in Seq(NodeType) /\ Len(SubSeq(bucket, 1, l)) = l
              /\ \A j \in 1..l : SubSeq(bucket, 1, l)[j] = bucket[j]
          BY <1>1, <4>5, Prefix DEF n
        <5>3. \A j \in 1..l : c[j] = bucket[j]
          BY <1>1, <1>3, <4>1, <4>3, <4>4
        <5> QED BY <5>1, <5>2, <5>3, SeqEqual
      <4>7. lost = {bucket[m].key} /\ bucket[m] \in NodeType
        BY <1>1, <1>3, <3>2, <4>1, ElementOfSeq DEF Last, n
      <4>8. ASSUME NEW i \in (l + 1)..n PROVE Old(bucket[i], now) \/ bucket[i].key \in lost
        <5>1. CASE i = m
          BY <4>7, <5>1
        <5>2. CASE i < m
          <6>1. i \in (l + 1)..(m - 1) /\ i \in 1..(m - 1) /\ i \in 1..m
            BY <1>1, <4>1, <4>4, <5>2
          <6> QED BY <1>3, <4>3, <4>4, <6>1
        <5>3. CASE i > m
          BY <1>1, <1>2, <5>3
        <5> QED BY <1>1, <4>1, <5>1, <5>2, <5>3
      <4>9. m \in (l + 1)..n /\ lost \in SUBSET LimitKeys
        <5>1. bucket[m].key \in LimitKeys
          BY <4>7 DEF NodeType
        <5>2. m \in (l + 1)..n
          BY <1>1, <4>1, <4>4
        <5> HIDE DEF lost
        <5> QED BY <4>7, <5>1, <5>2
      <4>10. rest = SubSeq(bucket, 1, l)
        BY <3>2, <4>4, <4>6 DEF c
      <4> HIDE DEF rest, lost, full
      <4> QED BY <4>5, <4>7, <4>8, <4>9, <4>10
    <3> QED BY <3>1, <3>2
  <2> HIDE DEF rest, lost, full
  <2>4. l \in 0..n /\ l < ZoneNodes
    BY <1>1, <2>3
  <2>5. /\ rest \in Seq(NodeType) /\ Len(rest) = l /\ DOMAIN rest = 1..l /\ OneEach(rest)
        /\ \A j \in 1..l : rest[j] = bucket[j]
        /\ g \in [LimitKeys -> PastType] /\ \A j \in LimitKeys : Spaced(g[j])
        /\ Tied(rest, g)
    BY <1>1, <2>3, <2>4, Shrink DEF n
  <2> HIDE DEF g
  <2>6. b \in NodeType /\ b.key = k /\ past' = [g EXCEPT ![b.key] = p]
    BY <1>1, <2>1, <2>5, LimitAssumption DEF NodeType
  <2>7. k \in LongKeys \/ \A i \in DOMAIN rest : rest[i].key # k
    BY <1>1, <2>2, <2>3, <2>5
  <2>8. p \in PastType /\ Spaced(p) /\ (k \notin LongKeys => InBucket(p, b))
    <3>1. k \notin LongKeys => Unkept(g[k])
      BY <2>5, <2>7 DEF Tied
    <3> QED BY <1>1, <2>5, <3>1, PassNew
  <2> HIDE DEF b, p
  <2>9. /\ bucket' \in Seq(NodeType) /\ Len(bucket') = l + 1 /\ OneEach(bucket')
        /\ past' \in [LimitKeys -> PastType] /\ (\A j \in LimitKeys : Spaced(past'[j]))
        /\ Tied(bucket', past')
    <3>1. b.key \in LongKeys \/ \A i \in DOMAIN rest : rest[i].key # b.key
      BY <2>6, <2>7
    <3>2. LET s == <<b>> \o rest h == [g EXCEPT ![b.key] = p] IN
          /\ s \in Seq(NodeType) /\ Len(s) = Len(rest) + 1 /\ OneEach(s)
          /\ h \in [LimitKeys -> PastType] /\ \A j \in LimitKeys : Spaced(h[j])
          /\ Tied(s, h)
      BY <2>5, <2>6, <2>8, <3>1, Made
    <3> QED BY <2>1, <2>5, <2>6, <3>2
  <2>10. Len(bucket') <= ZoneNodes
    BY <1>1, <2>4, <2>9
  <2> QED BY <1>1, <2>9, <2>10 DEF LimitInv, OneEach, Tied
<1> QED BY <1>4, <1>7, <1>8, <1>9

\* For any rate, burst, zone and idle time, any workers and however far their clocks are apart:
\* the bucket of a key holds its requests to its rate and burst, and delayed ones are spaced out
\* (ngx_http_limit_req_handler, ngx_http_limit_req_lookup and ngx_http_limit_req_expire).
THEOREM BucketsKept == LimitSpec => []BucketsExact
<1>1. LimitInv /\ [LimitNext]_limitVars => LimitInv'
  <2> SUFFICES ASSUME LimitInv, [LimitNext]_limitVars PROVE LimitInv'
    OBVIOUS
  <2>1. CASE UNCHANGED limitVars
    BY <2>1 DEF limitVars, LimitInv, OneEach, Tied
  <2>2. CASE Tick
    <3>1. clock' \in 0..MaxClock /\ UNCHANGED <<cached, bucket, past>>
      BY <2>2, LimitAssumption DEF Tick, LimitInv
    <3> QED BY <3>1 DEF LimitInv, OneEach, Tied
  <2>3. ASSUME NEW w \in LimitWorkers, UpdateTime(w) PROVE LimitInv'
    BY <2>3 DEF UpdateTime, LimitInv, OneEach, Tied
  <2> QED BY <2>1, <2>2, <2>3, RequestStep DEF LimitNext
<1>2. LimitInv => BucketsExact
  <2> SUFFICES ASSUME LimitInv PROVE BucketsExact
    OBVIOUS
  <2>1. \A i \in DOMAIN bucket : bucket[i] \in NodeType
    BY LenProperties, ElementOfSeq DEF LimitInv
  <2>2. LimitTypeOK
    BY <2>1 DEF LimitTypeOK, LimitInv, OneEach, NodeType
  <2>3. ASSUME NEW k \in LimitKeys \ LongKeys
        PROVE  LET p == past[k] IN
               Unit * (Unit * (p.passed - p.made) - Burst) <= Rate * (p.touched - p.first + 2 * p.back)
    <3> DEFINE p == past[k] x == Unit * (p.passed - p.made) y == Rate * (p.touched - p.first + 2 * p.back)
    <3>1. p \in PastType /\ x \in Int /\ y \in Int
      <4>1. p \in PastType
        BY DEF LimitInv
      <4> HIDE DEF p
      <4> QED BY <4>1, LimitAssumption DEF PastType
    <3>2. PICK e \in 0..Burst : Owes(p, e)
      <4>1. CASE \A i \in DOMAIN bucket : bucket[i].key # k
        <5>1. Owes(p, 0) /\ 0 \in 0..Burst
          BY <4>1, LimitAssumption DEF LimitInv, Tied, Unkept
        <5> QED BY <5>1
      <4>2. CASE \E i \in DOMAIN bucket : bucket[i].key = k
        BY <2>1, <4>2 DEF LimitInv, Tied, InBucket, NodeType
      <4> QED BY <4>1, <4>2
    <3>3. Unit * (x - e) <= y
      BY <3>2 DEF Owes
    <3> HIDE DEF x, y
    <3>4. Unit * (x - Burst) <= Unit * (x - e)
      BY <3>1, LimitAssumption
    <3>5. Unit * (x - Burst) \in Int /\ Unit * (x - e) \in Int
      BY <3>1, LimitAssumption
    <3> QED BY <3>1, <3>3, <3>4, <3>5 DEF x, y
  <2>4. RateBounded
    BY <2>3 DEF RateBounded
  <2>5. SpacedOut
    BY DEF LimitInv, Spaced, SpacedOut
  <2> QED BY <2>2, <2>4, <2>5 DEF BucketsExact
<1> QED BY LimitInitInv, <1>1, <1>2, PTL DEF LimitSpec
=============================================================================
