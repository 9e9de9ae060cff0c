----------------------------- MODULE HttpProofs -----------------------------
(***************************************************************************)
(* Proofs about the life cycle of a request (HttpRequest): r->main->count  *)
(* agrees with its users between any two events, and no function runs for  *)
(* a request that has been freed, for any number of subrequests, pieces of *)
(* content, redirects and partial sends, and any order of the events, as   *)
(* long as no subrequest has copied discard_body.                          *)
(***************************************************************************)
EXTENDS HttpRequest, FiniteSetTheorems, SequenceTheorems, WellFoundedInduction, TLAPS

-----------------------------------------------------------------------------
(* http: r->main->count and the calls that give it back *)

\* who counts on the request: those of its requests that are not done, and the handler that
\* discards the body
Live == {r \in 0..made : ~req[r].done}
Discarding == IF req[Main].discard THEN 1 ELSE 0

\* ngx_http_terminate_request() has posted its handler
Terminated == req[Main].wh = "terminate"

ItemType == [req : (1..MaxSubs) \cup {None}, out : Seq(Nat)]
RequestType ==
  [parent : Requests \cup {None}, wh : Handlers, rh : {"block", "check", "discard", "empty", "test"},
   uri : 0..(MaxUri + 1), postponed : Seq(ItemType), path : Seq(Nat), items : 0..MaxItems,
   buffered : BOOLEAN, upstream : BOOLEAN, errorPage : BOOLEAN, discard : BOOLEAN, left : {0, 1},
   last : BOOLEAN, done : BOOLEAN]
ConnectionType ==
  [data : Requests, error : BOOLEAN, buffered : BOOLEAN, slow : Nat, wtimer : BOOLEAN, resolver : BOOLEAN,
   taken : Nat, state : {"request", "linger", "keepalive", "closed"}]

\* what runs for a request before it is finalised, the argument of ngx_http_finalize_request()
\* or what an upstream did
WorkFns == {"write", "content", "upstream", "special", "ends", "finalize"}
Codes == {"ok", "error", "special", "timeout", "closed", "done", "none", "some"}
CallType == [fn : WorkFns \cup {"run_posted", "terminate", "close"}, r : Requests, rc : Codes]

LifeTypeOK ==
  /\ req \in [Requests -> RequestType] /\ c \in ConnectionType
  /\ made \in 0..MaxSubs /\ count \in Nat /\ posted \in Seq(Requests) /\ stack \in Seq(CallType)
  /\ c.data <= made
  /\ \A i \in DOMAIN posted : posted[i] <= made
  /\ \A i \in DOMAIN stack : stack[i].r <= made

-----------------------------------------------------------------------------
(* The calls *)

\* The stack, from its top: a call that works for a request, closes it or terminates it (k; for
\* "cleanup" a call that gives a count back before ngx_http_terminate_request() goes on), d calls
\* with NGX_DONE that are owed, and the loop over posted requests (l).
Kinds == {"none", "work", "close", "terminate", "cleanup"}
Height(k) == IF k = "none" THEN 0 ELSE IF k = "cleanup" THEN 2 ELSE 1
IsDone(f) == f.fn = "finalize" /\ f.rc = "done"
IsWork(f) == f.fn \in WorkFns /\ ~IsDone(f)
Shape(s, k, d, l) ==
  /\ Len(s) = Height(k) + d + l
  /\ \A i \in (Height(k) + 1)..(Height(k) + d) : IsDone(s[i])
  /\ l = 1 => s[Len(s)].fn = "run_posted"
  /\ k = "work" => IsWork(s[1])
  /\ k = "close" => s[1].fn = "close"
  /\ k = "terminate" => s[1].fn = "terminate"
  /\ k = "cleanup" => (s[1].fn = "close" \/ IsDone(s[1])) /\ s[2].fn = "terminate"

\* The call at the top gives a count back.
TopOwed(k) == IF k \in {"close", "cleanup"} THEN 1 ELSE 0

\* Redirects are what lets owed calls pile up.
OwedOK(k, d) ==
  /\ d + TopOwed(k) <= MaxUri + 2
  /\ k \in {"terminate", "cleanup"} => d <= MaxUri + 1
  /\ k = "work" => d <= MaxUri + 1 - req[Frame.r].uri

-----------------------------------------------------------------------------
(* The requests *)

\* r's postponed list waits for s
Entry(r, s) == \E i \in DOMAIN req[r].postponed : req[r].postponed[i].req = s

\* A is the way from the main request to the active one; every other request that is not done is
\* in the list of its parent.
Path(A) ==
  /\ Main \in A /\ c.data \in A /\ A \subseteq 0..made
  /\ \A s \in A \ {Main} : ~req[s].done /\ req[s].parent \in A /\ req[s].parent # c.data
  /\ \A s, t \in A \ {Main} : req[s].parent = req[t].parent => s = t
  /\ \A s \in A \ {Main} : \A i \in DOMAIN req[req[s].parent].postponed :
       req[req[s].parent].postponed[i].req = s => i = 1
  /\ \A s \in 1..made : ~req[s].done => s \in A \/ Entry(req[s].parent, s)

\* A request outlives its subrequests, and the lists are right.
ParentsOK ==
  \A s \in 1..made : /\ req[s].parent \in 0..(s - 1) /\ req[req[s].parent].items > 0
                     /\ ~req[s].done => ~req[req[s].parent].done
ListsOK ==
  \A r \in 0..made : \A i \in DOMAIN req[r].postponed : req[r].postponed[i].req # None =>
    LET s == req[r].postponed[i].req IN
    /\ s \in 1..made /\ req[s].parent = r /\ ~req[s].done
    /\ \A j \in DOMAIN req[r].postponed : req[r].postponed[j].req = s => i = j
TreeOK == ParentsOK /\ ListsOK /\ \E A : Path(A)

HandlersOK ==
  /\ \A r \in Requests : req[r].upstream => r <= made /\ ~req[r].done /\ req[r].wh = "upstream" /\ req[r].rh # "test"
  /\ \A r \in Requests : req[r].wh = "handler" =>
       ~req[r].done /\ req[r].rh \in {"block", "empty"} /\ (r = Main => ~req[r].discard)
  /\ req[Main].done => req[Main].wh \in {"empty", "terminate"}
  /\ \A r \in Requests \ {Main} : req[r].wh # "terminate"

-----------------------------------------------------------------------------
(* Requests, calls and the count *)

\* a subrequest whose write handler may finish it, when the event loop runs it; the body that is
\* discarded is finished too
Finishing(r) == r # Main /\ req[r].wh \in {"handler", "writer", "finalizer"}
Waiting(l) == IF l = 1 THEN 0 ELSE Discarding + (IF Finishing(c.data) THEN 1 ELSE 0)

\* What the call that runs may rely on.
CallOK(l) ==
  LET f == Frame
      r == f.r
  IN /\ f.fn = "write" =>
          /\ f.rc \in {"ok", "timeout"} /\ l = 1
          /\ f.rc = "timeout" => r = c.data
          /\ c.error /\ ~Terminated => ~req[r].done \/ r = Main
     /\ f.fn # "write" => req[r].wh # "handler"
     /\ f.fn \in {"content", "special", "ends"} => ~req[r].done /\ ~req[r].upstream
     /\ f.fn = "upstream" => ~req[r].done /\ l = 1
     /\ f.fn = "finalize" =>
          /\ f.rc \in {"ok", "special", "error", "timeout", "closed"}
          /\ f.rc = "special" => ~req[r].done /\ ~req[r].upstream
          /\ ~Terminated =>
               \/ ~req[r].done /\ ~req[r].upstream
               \/ req[Main].discard /\ Fatal(f.rc)
               \/ f.rc = "ok" /\ ~c.error /\ r # Main /\ ~req[r].upstream

\* ngx_http_upstream_resolve_handler() finalises a request that nobody has posted and whose
\* subrequests have not begun.
AloneOK ==
  /\ ~req[Frame.r].done /\ ~req[Frame.r].upstream /\ req[Frame.r].wh \in {"empty", "upstream"}
  /\ Frame.r \notin ToSet(posted)
  /\ \A s \in 1..made : Entry(Frame.r, s) => req[s].wh = "handler"

WorkOK(l) == CallOK(l) /\ (l = 0 => AloneOK)

\* Nothing has been terminated, and the request is in use: the count is exact.
Normal(k) == ~Terminated /\ k \notin {"terminate", "cleanup"}
CountOK(k, d, l) ==
  c.state = "request" =>
    /\ count >= 1
    /\ count <= Cardinality(Live) + Discarding + d + TopOwed(k)
    /\ Normal(k) => count = Cardinality(Live) + Discarding + d + TopOwed(k)
    /\ k \in {"terminate", "cleanup"} => count >= 1 + Cardinality(Cleanups) + d + TopOwed(k) + Waiting(l)

\* Once it is terminated, ngx_http_terminate_handler() is the first that is posted, and nobody
\* gives back the last count before it runs.
TerminatedOK(k, d, l) ==
  c.state = "request" /\ Terminated /\ k \notin {"terminate", "cleanup"} =>
     \/ k = "work" /\ Frame.fn = "write" /\ Frame.r = Main /\ d = 0
     \/ k = "close" /\ d = 0 /\ count = 1
     \/ /\ posted # <<>> /\ posted[1] = Main
        /\ count >= 1 + d + TopOwed(k) + Waiting(l)
        /\ k = "work" =>
             /\ Cleanups = {} /\ l = 1
             /\ \/ Frame.fn = "finalize" /\ Fatal(Frame.rc)
                \/ Frame.r # Main /\ count >= 2 + d
                \/ Frame.fn = "write" /\ req[Frame.r].wh \in {"empty", "upstream"}
        /\ l = 0 => Cleanups = {}

\* After ngx_http_set_lingering_close() the request is done, and one close is left.
LingerOK(k, d, l) ==
  c.state = "linger" =>
    /\ Live = {} /\ ~req[Main].discard /\ count = 1 /\ ~Terminated /\ d = 0
    /\ k \in {"none", "work"} \/ (k = "close" /\ l = 0 /\ posted = <<>>)

\* When the request is freed, or kept for the next one, no call for it is left.
FreedOK(k, d) == ~Allocated => k = "none" /\ d = 0 /\ count \in {0, 1}

\* Only a resolver's failure leaves requests posted; none of those is over, and they have made
\* something or have not begun.
PostedOK(k, d, l) ==
  Allocated =>
    /\ l = 0 => posted = <<>> \/ c.resolver
    /\ l = 0 /\ (d > 0 \/ k # "none") /\ c.state = "request" => c.resolver
    /\ Normal(k) /\ c.error /\ ~(k = "work" /\ Frame.fn = "finalize") =>
         \A x \in ToSet(posted) : ~req[x].done
    /\ Normal(k) /\ l = 0 => \A x \in ToSet(posted) : ~req[x].done /\ (req[x].items > 0 \/ req[x].wh = "handler")

CallsOK(k, d, l) ==
  /\ Shape(stack, k, d, l) /\ OwedOK(k, d)
  /\ k = "work" => WorkOK(l)
  /\ CountOK(k, d, l) /\ TerminatedOK(k, d, l) /\ LingerOK(k, d, l) /\ FreedOK(k, d) /\ PostedOK(k, d, l)

RequestInv == LifeTypeOK /\ TreeOK /\ HandlersOK /\ \E k \in Kinds, d \in Nat, l \in {0, 1} : CallsOK(k, d, l)

\* No subrequest has copied discard_body (ngx_http_subrequest()).
BodyNotCopied == c.taken = 0 /\ \A s \in Requests \ {Main} : ~req[s].discard

-----------------------------------------------------------------------------
(* Lemmas: bounds and types *)

\* The bounds of the model.
LEMMA HttpBounds ==
  MaxSubs \in Nat /\ MaxItems \in Nat /\ MaxUri \in Nat /\ Main \in Requests /\ None \notin Requests
BY HttpBoundsAssumption DEF Requests, Main, None

\* The subrequests that have been made are requests.
LEMMA MadeAreRequests ==
  ASSUME LifeTypeOK
  PROVE  made \in Nat /\ made <= MaxSubs /\ 0..made \subseteq Requests /\ Main \in 0..made /\ IsFiniteSet(0..made)
<1>1. made \in Nat /\ made <= MaxSubs
  BY HttpBounds DEF LifeTypeOK
<1> QED BY <1>1, HttpBounds, FS_Interval DEF Requests, Main

\* The fields of a request.
LEMMA RequestFields ==
  ASSUME NEW q \in RequestType
  PROVE  /\ q.parent \in Requests \cup {None} /\ q.wh \in Handlers /\ q.uri \in 0..(MaxUri + 1) /\ q.uri \in Nat
         /\ q.postponed \in Seq(ItemType) /\ q.items \in 0..MaxItems /\ q.items \in Nat
         /\ q.upstream \in BOOLEAN /\ q.discard \in BOOLEAN /\ q.done \in BOOLEAN /\ q.left \in {0, 1}
         /\ q.path \in Seq(Nat) /\ DOMAIN q.postponed = 1..Len(q.postponed) /\ Len(q.postponed) \in Nat
<1>1. /\ q.parent \in Requests \cup {None} /\ q.wh \in Handlers /\ q.uri \in 0..(MaxUri + 1)
      /\ q.postponed \in Seq(ItemType) /\ q.items \in 0..MaxItems
      /\ q.upstream \in BOOLEAN /\ q.discard \in BOOLEAN /\ q.done \in BOOLEAN /\ q.left \in {0, 1} /\ q.path \in Seq(Nat)
  BY DEF RequestType
<1> QED BY <1>1, HttpBounds, LenProperties

-----------------------------------------------------------------------------
(* Lemmas: calls that are made and calls that return *)

\* A call that returns.
LEMMA Popped ==
  ASSUME NEW s \in Seq(CallType), s # <<>>, NEW k \in Kinds, NEW d \in Nat, NEW l \in {0, 1}, Shape(s, k, d, l)
  PROVE  /\ Head(s) = s[1] /\ Head(s) \in CallType /\ Tail(s) \in Seq(CallType) /\ Len(Tail(s)) = Len(s) - 1
         /\ \A i \in 1..(Len(s) - 1) : Tail(s)[i] = s[i + 1]
         /\ k = "work" => IsWork(Head(s)) /\ Shape(Tail(s), "none", d, l)
         /\ k = "close" => Head(s).fn = "close" /\ Shape(Tail(s), "none", d, l)
         /\ k = "terminate" => Head(s).fn = "terminate" /\ Shape(Tail(s), "none", d, l)
         /\ k = "cleanup" => (Head(s).fn = "close" \/ IsDone(Head(s))) /\ Shape(Tail(s), "terminate", d, l)
         /\ k = "none" /\ d > 0 => IsDone(Head(s)) /\ Shape(Tail(s), "none", d - 1, l)
         /\ k = "none" /\ d = 0 => l = 1 /\ Head(s).fn = "run_posted" /\ Shape(Tail(s), "none", 0, 0)
<1> DEFINE t == Tail(s) n == Len(s)
<1>1. /\ Head(s) = s[1] /\ Head(s) \in CallType /\ t \in Seq(CallType) /\ Len(t) = n - 1 /\ n \in Nat \ {0}
      /\ \A i \in 1..(n - 1) : t[i] = s[i + 1]
  BY HeadTailProperties, EmptySeq, LenProperties
<1> HIDE DEF t
<1>2. n = Height(k) + d + l /\ n \in Nat
  BY <1>1 DEF Shape
<1> HIDE DEF n
<1>3. \A i \in (Height(k) + 1)..(Height(k) + d) : IsDone(s[i])
  BY DEF Shape
<1>4. l = 1 => s[n].fn = "run_posted"
  BY DEF Shape, n
<1>5. ASSUME l = 1, n > 1 PROVE t[n - 1].fn = "run_posted"
  <2>1. n - 1 \in 1..(n - 1) /\ (n - 1) + 1 = n
    BY <1>1, <1>5
  <2> QED BY <1>1, <1>4, <1>5, <2>1
<1>6. CASE k \in {"work", "close", "terminate"}
  <2>1. Height(k) = 1 /\ n = 1 + d + l
    BY <1>2, <1>6 DEF Height
  <2>2. ASSUME NEW i \in 1..d PROVE IsDone(t[i])
    <3>1. i \in 1..(n - 1) /\ i + 1 \in 2..(1 + d)
      BY <2>1, <2>2, <1>2
    <3> QED BY <1>1, <1>3, <2>1, <3>1
  <2>3. l = 1 => t[Len(t)].fn = "run_posted"
    BY <1>1, <1>5, <2>1
  <2>4. Shape(t, "none", d, l)
    <3>1. Len(t) = 0 + d + l /\ 0 + 1 = 1 /\ 0 + d = d
      BY <1>1, <2>1
    <3> QED BY <2>2, <2>3, <3>1 DEF Shape, Height
  <2>5. /\ k = "work" => IsWork(s[1])
        /\ k = "close" => s[1].fn = "close"
        /\ k = "terminate" => s[1].fn = "terminate"
    BY DEF Shape
  <2> QED BY <1>1, <1>6, <2>4, <2>5 DEF t, n
<1>7. CASE k = "cleanup"
  <2>1. Height(k) = 2 /\ n = 2 + d + l
    BY <1>2, <1>7 DEF Height
  <2>2. ASSUME NEW i \in 2..(1 + d) PROVE IsDone(t[i])
    <3>1. i \in 1..(n - 1) /\ i + 1 \in 3..(2 + d)
      BY <2>1, <2>2, <1>2
    <3> QED BY <1>1, <1>3, <2>1, <3>1
  <2>3. l = 1 => t[Len(t)].fn = "run_posted"
    BY <1>1, <1>5, <2>1
  <2>4. (s[1].fn = "close" \/ IsDone(s[1])) /\ s[2].fn = "terminate"
    BY <1>7 DEF Shape
  <2>5. t[1].fn = "terminate"
    <3>1. 1 \in 1..(n - 1)
      BY <1>2, <2>1
    <3> QED BY <1>1, <2>4, <3>1
  <2>6. Shape(t, "terminate", d, l)
    <3>1. Len(t) = 1 + d + l /\ 1 + 1 = 2
      BY <1>1, <2>1
    <3> QED BY <2>2, <2>3, <2>5, <3>1 DEF Shape, Height
  <2> QED BY <1>1, <1>7, <2>4, <2>6 DEF t, n
<1>8. CASE k = "none"
  <2>1. Height(k) = 0 /\ n = d + l
    BY <1>2, <1>8 DEF Height
  <2>2. CASE d > 0
    <3>1. IsDone(s[1])
      BY <1>3, <2>1, <2>2
    <3>2. ASSUME NEW i \in 1..(d - 1) PROVE IsDone(t[i])
      <4>1. i \in 1..(n - 1) /\ i + 1 \in 1..d
        BY <2>1, <2>2, <3>2, <1>2
      <4> QED BY <1>1, <1>3, <2>1, <4>1
    <3>3. l = 1 => t[Len(t)].fn = "run_posted"
      BY <1>1, <1>5, <2>1, <2>2
    <3>4. Len(t) = 0 + (d - 1) + l /\ 0 + 1 = 1 /\ 0 + (d - 1) = d - 1
      BY <1>1, <2>1
    <3>5. Shape(t, "none", d - 1, l)
      BY <3>2, <3>3, <3>4 DEF Shape, Height
    <3> QED BY <1>1, <1>8, <2>2, <3>1, <3>5 DEF t, n
  <2>3. CASE d = 0
    <3>1. l = 1 /\ n = 1 /\ s[1].fn = "run_posted"
      BY <1>1, <1>4, <2>1, <2>3
    <3>2. Len(t) = 0 /\ \A i \in 1..0 : FALSE
      BY <1>1, <3>1
    <3>3. Shape(t, "none", 0, 0)
      BY <3>2 DEF Shape, Height
    <3> QED BY <1>1, <1>8, <2>3, <3>1, <3>3 DEF t, n
  <2> QED BY <2>2, <2>3
<1> QED BY <1>6, <1>7, <1>8 DEF Kinds

\* A call that is made.
LEMMA Pushed ==
  ASSUME NEW s \in Seq(CallType), NEW f \in CallType, NEW d \in Nat, NEW l \in {0, 1}
  PROVE  LET q == <<f>> \o s IN
         /\ q \in Seq(CallType) /\ q # <<>> /\ Head(q) = f /\ q[1] = f /\ Tail(q) = s /\ Len(q) = Len(s) + 1
         /\ \A i \in 1..Len(s) : q[i + 1] = s[i]
         /\ Shape(s, "none", d, l) /\ IsWork(f) => Shape(q, "work", d, l)
         /\ Shape(s, "none", d, l) /\ f.fn = "close" => Shape(q, "close", d, l)
         /\ Shape(s, "none", d, l) /\ f.fn = "terminate" => Shape(q, "terminate", d, l)
         /\ Shape(s, "none", d, l) /\ IsDone(f) => Shape(q, "none", d + 1, l)
         /\ Shape(s, "none", 0, 0) /\ f.fn = "run_posted" => Shape(q, "none", 0, 1)
         /\ Shape(s, "terminate", d, l) /\ (f.fn = "close" \/ IsDone(f)) => Shape(q, "cleanup", d, l)
<1> DEFINE q == <<f>> \o s n == Len(s)
<1>1. <<f>> \in Seq(CallType) /\ Len(<<f>>) = 1 /\ <<f>>[1] = f /\ n \in Nat
  BY LenProperties
<1>2. q \in Seq(CallType) /\ Len(q) = 1 + n /\ \A i \in 1..(1 + n) : q[i] = IF i <= 1 THEN <<f>>[i] ELSE s[i - 1]
  BY <1>1, ConcatProperties
<1>3. q[1] = f /\ \A i \in 1..n : q[i + 1] = s[i]
  <2>1. 1 \in 1..(1 + n) /\ \A i \in 1..n : i + 1 \in 1..(1 + n) /\ ~(i + 1 <= 1) /\ (i + 1) - 1 = i
    BY <1>1
  <2> QED BY <1>1, <1>2, <2>1
<1> HIDE DEF q
<1>4. q # <<>> /\ Head(q) = q[1] /\ Tail(q) \in Seq(CallType) /\ Len(Tail(q)) = n
      /\ \A i \in 1..n : Tail(q)[i] = q[i + 1]
  BY <1>1, <1>2, HeadTailProperties, EmptySeq
<1>5. Tail(q) = s
  BY <1>1, <1>3, <1>4, SeqEqual
<1>6. ASSUME NEW h \in {0, 1}, NEW i \in (h + 2)..(h + 1 + d), n = h + d + l,
             \A j \in (h + 1)..(h + d) : IsDone(s[j])
      PROVE  IsDone(q[i])
  <2>1. i - 1 \in (h + 1)..(h + d) /\ i - 1 \in 1..n /\ (i - 1) + 1 = i
    BY <1>6
  <2> QED BY <1>3, <1>6, <2>1
<1>7. ASSUME s[n].fn = "run_posted", n > 0 PROVE q[n + 1].fn = "run_posted"
  BY <1>1, <1>3, <1>7
<1>8. ASSUME Shape(s, "none", d, l)
      PROVE  /\ n = d + l /\ \A i \in 2..(1 + d) : IsDone(q[i])
             /\ l = 1 => q[n + 1].fn = "run_posted"
  <2>1. n = 0 + d + l /\ (\A j \in (0 + 1)..(0 + d) : IsDone(s[j])) /\ (l = 1 => s[n].fn = "run_posted")
    BY <1>8 DEF Shape, Height
  <2>2. \A i \in (0 + 2)..(0 + 1 + d) : IsDone(q[i])
    BY <1>6, <2>1
  <2> QED BY <1>7, <2>1, <2>2
<1>9. ASSUME Shape(s, "none", d, l), IsWork(f) \/ f.fn \in {"close", "terminate"}
      PROVE  /\ IsWork(f) => Shape(q, "work", d, l)
             /\ f.fn = "close" => Shape(q, "close", d, l)
             /\ f.fn = "terminate" => Shape(q, "terminate", d, l)
  <2>1. Len(q) = 1 + d + l /\ Len(q) = n + 1 /\ 1 + 1 = 2
    BY <1>2, <1>8, <1>9
  <2> QED BY <1>3, <1>8, <1>9, <2>1 DEF Shape, Height
<1>10. ASSUME Shape(s, "none", d, l), IsDone(f) PROVE Shape(q, "none", d + 1, l)
  <2>1. Len(q) = 0 + (d + 1) + l /\ Len(q) = n + 1
    BY <1>2, <1>8, <1>10
  <2>2. \A i \in (0 + 1)..(0 + (d + 1)) : IsDone(q[i])
    <3> SUFFICES ASSUME NEW i \in 1..(d + 1) PROVE IsDone(q[i])
      OBVIOUS
    <3>1. CASE i = 1
      BY <1>3, <1>10, <3>1
    <3>2. CASE i # 1
      BY <1>8, <1>10, <3>2
    <3> QED BY <3>1, <3>2
  <2> QED BY <1>8, <1>10, <2>1, <2>2 DEF Shape, Height
<1>11. ASSUME Shape(s, "none", 0, 0), f.fn = "run_posted" PROVE Shape(q, "none", 0, 1)
  <2>1. n = 0 /\ Len(q) = 1
    BY <1>2, <1>11 DEF Shape, Height
  <2>2. \A i \in 1..0 : FALSE
    OBVIOUS
  <2> QED BY <1>3, <1>11, <2>1, <2>2 DEF Shape, Height
<1>12. ASSUME Shape(s, "terminate", d, l), f.fn = "close" \/ IsDone(f) PROVE Shape(q, "cleanup", d, l)
  <2>1. /\ n = 1 + d + l /\ (\A j \in (1 + 1)..(1 + d) : IsDone(s[j])) /\ (l = 1 => s[n].fn = "run_posted")
        /\ s[1].fn = "terminate"
    BY <1>12 DEF Shape, Height
  <2>2. \A i \in (1 + 2)..(1 + 1 + d) : IsDone(q[i])
    BY <1>6, <2>1
  <2>3. q[2].fn = "terminate"
    <3>1. 1 \in 1..n /\ 1 + 1 = 2
      BY <2>1
    <3> QED BY <1>3, <2>1, <3>1
  <2>4. Len(q) = 2 + d + l /\ Len(q) = n + 1 /\ 1 + 2 = 3 /\ 1 + 1 + d = 2 + d
    BY <1>2, <2>1
  <2>5. l = 1 => q[Len(q)].fn = "run_posted"
    BY <1>7, <2>1, <2>4
  <2> QED BY <1>3, <1>12, <2>2, <2>3, <2>4, <2>5 DEF Shape, Height
<1> QED BY <1>2, <1>3, <1>4, <1>5, <1>9, <1>10, <1>11, <1>12 DEF q, IsWork, IsDone

-----------------------------------------------------------------------------
(* Lemmas: a request that changes, and its output *)

\* One request changes.
LEMMA Put ==
  ASSUME req \in [Requests -> RequestType], NEW r \in Requests, NEW p \in RequestType, req' = [req EXCEPT ![r] = p]
  PROVE  /\ req' \in [Requests -> RequestType] /\ req'[r] = p
         /\ \A x \in Requests : x # r => req'[x] = req[x]
  OBVIOUS

\* A nonempty set of natural numbers has a least one.
LEMMA LeastNatural ==
  ASSUME NEW S, S \in SUBSET Nat, S # {}
  PROVE  \E n \in S : \A m \in S : n <= m
<1>1. PICK n \in S : \A m \in S : ~(<<m, n>> \in OpToRel(<, Nat))
  BY NatLessThanWellFounded, WFMin
<1>2. \A m \in S : ~(m < n)
  BY <1>1 DEF OpToRel
<1> QED BY <1>2

\* The pieces before the first subrequest of a list.
LEMMA ReadyPieces ==
  ASSUME NEW q \in Seq(ItemType)
  PROVE  /\ Ready(q) \in 0..Len(q) /\ \A i \in 1..Ready(q) : q[i].req = None
         /\ Ready(q) < Len(q) => q[Ready(q) + 1].req \in 1..MaxSubs
<1> DEFINE subs == {i \in DOMAIN q : q[i].req # None}
           first == CHOOSE i \in subs : \A j \in subs : i <= j
<1>1. /\ DOMAIN q = 1..Len(q) /\ Len(q) \in Nat /\ \A i \in 1..Len(q) : q[i] \in ItemType
  BY LenProperties, ElementOfSeq
<1>2. Ready(q) = IF subs = {} THEN Len(q) ELSE first - 1
  BY DEF Ready
<1>3. ASSUME subs # {} PROVE first \in subs /\ \A j \in subs : first <= j
  <2>1. subs \in SUBSET Nat
    BY <1>1
  <2>2. \E i \in subs : \A j \in subs : i <= j
    BY <1>3, <2>1, LeastNatural
  <2> QED BY <2>2
<1> HIDE DEF first
<1>4. CASE subs = {}
  BY <1>1, <1>2, <1>4
<1>5. CASE subs # {}
  <2>1. first \in 1..Len(q) /\ q[first].req # None /\ Ready(q) = first - 1
    BY <1>1, <1>2, <1>3, <1>5
  <2>2. q[first].req \in 1..MaxSubs
    BY <1>1, <2>1 DEF ItemType
  <2>3. \A i \in 1..(first - 1) : q[i].req = None
    BY <1>1, <1>3, <1>5, <2>1
  <2> QED BY <1>1, <2>1, <2>2, <2>3
<1> QED BY <1>4, <1>5

\* The list p is what is left of q without its first i places, as far as subrequests are
\* concerned.
Shifted(q, p, i) ==
  /\ \A j \in DOMAIN p : p[j].req # None => j + i \in DOMAIN q /\ p[j].req = q[j + i].req
  /\ \A m \in DOMAIN q : q[m].req # None /\ m > i => m - i \in DOMAIN p /\ p[m - i].req = q[m].req

\* The output of r takes the first subrequest out of its list, which becomes the active request,
\* or leaves what waits in the list.
Activates(r, s, list) ==
  /\ c.data = r
  /\ \E i \in DOMAIN req[r].postponed :
       /\ req[r].postponed[i].req = s /\ Shifted(req[r].postponed, list, i)
       /\ \A m \in 1..(i - 1) : req[r].postponed[m].req = None
  /\ c'.data = s
KeepsActive(r, list) == Shifted(req[r].postponed, list, 0) /\ c'.data = c.data

\* ngx_http_post_request()
Posts(s) == posted' = Append(posted, s)

\* ngx_http_output_filter()
LEMMA OutputEffect ==
  ASSUME req \in [Requests -> RequestType], c \in ConnectionType, posted \in Seq(Requests),
         NEW r \in Requests, NEW new \in RequestType, new.postponed = req[r].postponed,
         NEW in \in Seq(ItemType), \A i \in DOMAIN in : in[i].req = None,
         NEW rc \in {"ok", "error"}, OutputFilter(r, new, in, rc)
  PROVE  \E p \in RequestType :
           /\ req' = [req EXCEPT ![r] = p]
           /\ p.parent = new.parent /\ p.wh = new.wh /\ p.rh = new.rh /\ p.uri = new.uri /\ p.items = new.items
           /\ p.upstream = new.upstream /\ p.discard = new.discard /\ p.done = new.done
           /\ c' \in ConnectionType /\ c'.state = c.state /\ c'.resolver = c.resolver /\ c'.taken = c.taken
           /\ rc = "ok" => c'.error = c.error
           /\ rc = "error" => c'.error /\ c.data = r
           /\ \/ KeepsActive(r, p.postponed) /\ posted' = posted
              \/ \E s \in 1..MaxSubs : rc = "ok" /\ Activates(r, s, p.postponed) /\ Posts(s)
<1> DEFINE q == req[r].postponed
           items == q \o in
           k == Ready(items)
           n == Len(items)
<1>1. /\ q \in Seq(ItemType) /\ Len(q) \in Nat /\ Len(in) \in Nat /\ DOMAIN q = 1..Len(q) /\ DOMAIN in = 1..Len(in)
      /\ items \in Seq(ItemType) /\ n = Len(q) + Len(in) /\ DOMAIN items = 1..n
      /\ \A i \in 1..n : items[i] = IF i <= Len(q) THEN q[i] ELSE in[i - Len(q)]
  <2>1. q \in Seq(ItemType)
    BY DEF RequestType
  <2> HIDE DEF q
  <2>2. items \in Seq(ItemType) /\ Len(items) = Len(q) + Len(in)
        /\ \A i \in 1..(Len(q) + Len(in)) : items[i] = IF i <= Len(q) THEN q[i] ELSE in[i - Len(q)]
    BY <2>1, ConcatProperties
  <2> HIDE DEF items
  <2> QED BY <2>1, <2>2, LenProperties
<1>2. /\ k \in 0..n /\ \A i \in 1..k : items[i].req = None
      /\ k < n => items[k + 1].req \in 1..MaxSubs
  BY <1>1, ReadyPieces
<1> HIDE DEF k, n, items, q
<1>3. \A j \in DOMAIN items : items[j].req # None => j \in DOMAIN q /\ items[j].req = q[j].req
  <2> SUFFICES ASSUME NEW j \in DOMAIN items, items[j].req # None PROVE j \in DOMAIN q /\ items[j].req = q[j].req
    OBVIOUS
  <2>1. CASE j <= Len(q)
    BY <1>1, <2>1
  <2>2. CASE ~(j <= Len(q))
    <3>1. j - Len(q) \in DOMAIN in /\ items[j] = in[j - Len(q)]
      BY <1>1, <2>2
    <3> QED BY <3>1
  <2> QED BY <2>1, <2>2
<1>4. \A m \in DOMAIN q : m \in DOMAIN items /\ items[m].req = q[m].req
  BY <1>1
<1>5. Shifted(q, items, 0)
  <2>1. \A j \in DOMAIN items : j + 0 = j
    BY <1>1
  <2>2. \A m \in DOMAIN q : m - 0 = m
    BY <1>1
  <2> QED BY <1>3, <1>4, <2>1, <2>2 DEF Shifted
<1>6. CASE Holds(r) \/ rc = "error"
  <2> DEFINE p == [new EXCEPT !.postponed = items]
  <2>1. /\ req' = [req EXCEPT ![r] = p] /\ posted' = posted
        /\ c' = c \/ (rc = "error" /\ c.data = r /\ c' = [c EXCEPT !.error = TRUE])
        /\ rc = "error" => c.data = r /\ c' = [c EXCEPT !.error = TRUE]
    BY <1>6 DEF OutputFilter, Holds, items, q
  <2>2. p \in RequestType /\ p.postponed = items
    BY <1>1 DEF RequestType
  <2>3. /\ p.parent = new.parent /\ p.wh = new.wh /\ p.rh = new.rh /\ p.uri = new.uri /\ p.items = new.items
        /\ p.upstream = new.upstream /\ p.discard = new.discard /\ p.done = new.done
    BY DEF RequestType
  <2>4. /\ c' \in ConnectionType /\ c'.state = c.state /\ c'.resolver = c.resolver /\ c'.taken = c.taken
        /\ rc = "ok" => c'.error = c.error
        /\ rc = "error" => c'.error /\ c.data = r
        /\ c'.data = c.data
    BY <2>1 DEF ConnectionType
  <2>5. KeepsActive(r, p.postponed) /\ posted' = posted
    BY <1>5, <2>1, <2>2, <2>4 DEF KeepsActive, q
  <2> HIDE DEF p
  <2> QED BY <2>1, <2>2, <2>3, <2>4, <2>5
<1>7. CASE ~Holds(r) /\ rc = "ok"
  <2> DEFINE rest == SubSeq(items, k + 2, n)
  <2>1. PICK full \in BOOLEAN, held \in BOOLEAN :
          /\ c' = [c EXCEPT !.buffered = full, !.slow = IF full THEN @ + 1 ELSE @,
                            !.data = IF k < n THEN items[k + 1].req ELSE @]
          /\ req' = [req EXCEPT ![r] = [new EXCEPT !.buffered = held, !.postponed = rest]]
    BY <1>7 DEF OutputFilter, k, n, items, q
  <2>2. posted' = IF k < n THEN Append(posted, items[k + 1].req) ELSE posted
    BY <1>7 DEF OutputFilter, k, n, items, q, Posted
  <2>3. c.data = r
    BY <1>7 DEF Holds
  <2> DEFINE p == [new EXCEPT !.buffered = held, !.postponed = rest]
  <2>4. rest \in Seq(ItemType) /\ (k = n => rest = <<>>)
        /\ (k < n => Len(rest) = n - (k + 1) /\ \A j \in 1..(n - (k + 1)) : rest[j] = items[j + (k + 1)])
    <3>1. CASE k < n
      <4>1. k + 2 \in 1..(n + 1) /\ n \in (k + 2 - 1)..n /\ n \in Nat /\ k \in Nat
        BY <1>1, <1>2, <3>1
      <4>2. \A j \in (k + 2)..n : items[j] \in ItemType
        BY <1>1, <4>1, ElementOfSeq
      <4>3. n - (k + 2) + 1 >= 0 /\ (k + 2 <= n \/ n - (k + 2) + 1 = 0)
        BY <4>1
      <4>4. rest \in Seq(ItemType) /\ Len(rest) = n - (k + 2) + 1 /\ \A j \in 1..(n - (k + 2) + 1) : rest[j] = items[k + 2 + j - 1]
        BY <4>1, <4>2, <4>3, SubSeqProperties
      <4>5. n - (k + 2) + 1 = n - (k + 1) /\ \A j \in 1..(n - (k + 1)) : k + 2 + j - 1 = j + (k + 1)
        BY <4>1
      <4> HIDE DEF rest, items, n, k
      <4>6. ASSUME NEW j \in 1..(n - (k + 1)) PROVE rest[j] = items[j + (k + 1)]
        <5>1. rest[j] = items[k + 2 + j - 1]
          BY <4>4, <4>5
        <5> QED BY <4>5, <5>1
      <4>7. rest \in Seq(ItemType) /\ Len(rest) = n - (k + 1)
        BY <4>4, <4>5
      <4>8. k # n
        BY <3>1, <4>1
      <4> QED BY <4>6, <4>7, <4>8
    <3>2. CASE ~(k < n)
      <4>1. k = n /\ n \in Nat
        BY <1>1, <1>2, <3>2
      <4>2. rest = <<>>
        BY <1>1, <4>1 DEF n
      <4> QED BY <4>1, <4>2
    <3> QED BY <3>1, <3>2
  <2> HIDE DEF rest
  <2>5. p \in RequestType /\ p.postponed = rest
    BY <2>4 DEF RequestType
  <2>6. /\ p.parent = new.parent /\ p.wh = new.wh /\ p.rh = new.rh /\ p.uri = new.uri /\ p.items = new.items
        /\ p.upstream = new.upstream /\ p.discard = new.discard /\ p.done = new.done
    BY DEF RequestType
  <2>7. /\ c' \in ConnectionType /\ c'.state = c.state /\ c'.resolver = c.resolver /\ c'.taken = c.taken
        /\ c'.error = c.error /\ c'.data = IF k < n THEN items[k + 1].req ELSE c.data
    <3> DEFINE e == IF k < n THEN items[k + 1].req ELSE c.data
               w == IF full THEN c.slow + 1 ELSE c.slow
    <3>1. e \in Requests /\ w \in Nat
      BY <1>2 DEF Requests, ConnectionType
    <3>2. c' = [c EXCEPT !.buffered = full, !.slow = w, !.data = e]
      BY <2>1
    <3> HIDE DEF e, w
    <3>3. c' \in ConnectionType
      BY <3>1, <3>2 DEF ConnectionType
    <3>4. /\ c'.state = c.state /\ c'.resolver = c.resolver /\ c'.taken = c.taken /\ c'.error = c.error /\ c'.data = e
      BY <3>2 DEF ConnectionType
    <3> QED BY <3>3, <3>4 DEF e
  <2>8. CASE ~(k < n)
    <3>1. k = n
      BY <1>1, <1>2, <2>8
    <3>2. \A i \in DOMAIN q : q[i].req = None
      BY <1>1, <1>2, <1>4, <3>1
    <3>3. Shifted(q, rest, 0)
      BY <2>4, <3>1, <3>2 DEF Shifted
    <3>4. KeepsActive(r, p.postponed) /\ posted' = posted
      BY <2>2, <2>5, <2>7, <2>8, <3>3 DEF KeepsActive, q
    <3> QED BY <1>7, <2>1, <2>5, <2>6, <2>7, <3>4
  <2>9. CASE k < n
    <3> DEFINE s == items[k + 1].req
               i == k + 1
    <3>1. s \in 1..MaxSubs /\ i \in 1..n
      BY <1>1, <1>2, <2>9
    <3>2. i \in DOMAIN q /\ q[i].req = s
      BY <1>1, <1>3, <3>1 DEF None
    <3>3. Shifted(q, rest, i)
      <4>1. DOMAIN rest = 1..(n - i) /\ \A j \in 1..(n - i) : rest[j] = items[j + i]
        BY <2>4, <2>9, LenProperties
      <4>2. ASSUME NEW j \in DOMAIN rest, rest[j].req # None PROVE j + i \in DOMAIN q /\ rest[j].req = q[j + i].req
        <5>1. j + i \in 1..n
          BY <1>1, <3>1, <4>1, <4>2
        <5> QED BY <1>1, <1>3, <4>1, <4>2, <5>1
      <4>3. ASSUME NEW m \in DOMAIN q, q[m].req # None, m > i PROVE m - i \in DOMAIN rest /\ rest[m - i].req = q[m].req
        <5>1. m \in DOMAIN items /\ items[m].req = q[m].req
          BY <1>4
        <5>2. m - i \in 1..(n - i) /\ (m - i) + i = m
          BY <1>1, <3>1, <4>3, <5>1
        <5> QED BY <4>1, <5>1, <5>2
      <4> QED BY <4>2, <4>3 DEF Shifted
    <3>4. \A m \in 1..(i - 1) : q[m].req = None
      <4>1. \A m \in 1..(i - 1) : m \in 1..k /\ m \in DOMAIN q
        BY <1>1, <1>2, <3>2
      <4> QED BY <1>2, <1>4, <4>1
    <3>5. c'.data = s /\ posted' = Append(posted, s)
      BY <2>2, <2>7, <2>9
    <3>6. Activates(r, s, p.postponed) /\ Posts(s)
      <4> HIDE DEF s, i, p
      <4> QED BY <2>3, <2>5, <3>2, <3>3, <3>4, <3>5 DEF Activates, Posts, q
    <3> HIDE DEF s, i
    <3> QED BY <1>7, <2>1, <2>5, <2>6, <2>7, <3>1, <3>6
  <2> QED BY <2>8, <2>9
<1> QED BY <1>6, <1>7

-----------------------------------------------------------------------------
(* Lemmas: the tree of requests *)

\* Lists that only lose their heads are still right.
LEMMA ListsShrink ==
  ASSUME LifeTypeOK, ListsOK, made' = made, req' \in [Requests -> RequestType],
         \A x \in 0..made : req'[x].parent = req[x].parent,
         \A x \in 0..made : \E i \in Nat : Shifted(req[x].postponed, req'[x].postponed, i),
         \A x \in 0..made : \A i \in DOMAIN req'[x].postponed :
           req'[x].postponed[i].req # None => (req'[req'[x].postponed[i].req].done <=> req[req'[x].postponed[i].req].done)
  PROVE  ListsOK'
<1> SUFFICES ASSUME NEW x \in 0..made, NEW j \in DOMAIN req'[x].postponed, req'[x].postponed[j].req # None
             PROVE  LET s == req'[x].postponed[j].req IN
                    /\ s \in 1..made /\ req'[s].parent = x /\ ~req'[s].done
                    /\ \A m \in DOMAIN req'[x].postponed : req'[x].postponed[m].req = s => j = m
  BY DEF ListsOK
<1> DEFINE q == req[x].postponed p == req'[x].postponed s == p[j].req
<1>1. x \in Requests /\ made \in Nat
  BY MadeAreRequests
<1>2. q \in Seq(ItemType) /\ p \in Seq(ItemType)
  BY <1>1 DEF LifeTypeOK, RequestType
<1>3. PICK i \in Nat : Shifted(q, p, i)
  OBVIOUS
<1>4. (~req'[s].done <=> ~req[s].done) /\ s # None
  OBVIOUS
<1> HIDE DEF q, p, s
<1>5. j + i \in DOMAIN q /\ q[j + i].req = s
  BY <1>3, <1>4 DEF Shifted, p, s
<1>6. s \in 1..made /\ req[s].parent = x /\ ~req[s].done /\ \A m \in DOMAIN q : q[m].req = s => j + i = m
  BY <1>4, <1>5 DEF ListsOK, q
<1>7. ASSUME NEW m \in DOMAIN p, p[m].req = s PROVE j = m
  <2>1. m + i \in DOMAIN q /\ q[m + i].req = s
    BY <1>3, <1>4, <1>7 DEF Shifted
  <2>2. j \in Int /\ m \in Int /\ j + i = m + i
    BY <1>2, <1>6, <1>7, <2>1, LenProperties DEF p
  <2> QED BY <2>2
<1>8. req'[s].parent = x
  <2>1. s \in 0..made
    BY <1>1, <1>6
  <2> QED BY <1>6, <2>1
<1> QED BY <1>4, <1>6, <1>7, <1>8 DEF p, s

\* A step that leaves the lists and who is done alone.
LEMMA TreeKept ==
  ASSUME LifeTypeOK, TreeOK, made' = made, c'.data = c.data, req' \in [Requests -> RequestType],
         \A x \in Requests : /\ req'[x].parent = req[x].parent /\ req'[x].done = req[x].done
                             /\ req'[x].postponed = req[x].postponed /\ req'[x].items >= req[x].items
  PROVE  TreeOK'
<1>1. made \in Nat /\ 0..made \subseteq Requests /\ \A x \in Requests : req[x].items \in Nat /\ req'[x].items \in Nat
  BY MadeAreRequests, RequestFields DEF LifeTypeOK
<1>2. ParentsOK'
  <2> SUFFICES ASSUME NEW s \in 1..made
               PROVE  /\ req'[s].parent \in 0..(s - 1) /\ req'[req'[s].parent].items > 0
                      /\ ~req'[s].done => ~req'[req'[s].parent].done
    BY DEF ParentsOK
  <2>1. s \in Requests /\ req[s].parent \in 0..(s - 1) /\ req[req[s].parent].items > 0
        /\ (~req[s].done => ~req[req[s].parent].done)
    BY <1>1 DEF TreeOK, ParentsOK
  <2>2. req[s].parent \in Requests
    BY <1>1, <2>1
  <2> QED BY <1>1, <2>1, <2>2
<1>3. ListsOK'
  BY <1>1 DEF TreeOK, ListsOK
<1>4. PICK A : Path(A)
  BY DEF TreeOK
<1>5. Path(A)'
  <2>1. \A s \in A \ {Main} : s \in Requests /\ req[s].parent \in A /\ req[s].parent \in Requests
    BY <1>1, <1>4 DEF Path
  <2>2. \A s \in 1..made : s \in Requests /\ req[s].parent \in Requests
    BY <1>1 DEF TreeOK, ParentsOK
  <2>3. /\ Main \in A /\ c'.data \in A /\ A \subseteq 0..made'
        /\ \A s \in A \ {Main} : ~req'[s].done /\ req'[s].parent \in A /\ req'[s].parent # c'.data
    BY <1>4, <2>1 DEF Path
  <2>4. \A s, t \in A \ {Main} : req'[s].parent = req'[t].parent => s = t
    BY <1>4, <2>1 DEF Path
  <2>5. \A s \in A \ {Main} : \A i \in DOMAIN req'[req'[s].parent].postponed :
          req'[req'[s].parent].postponed[i].req = s => i = 1
    BY <1>4, <2>1 DEF Path
  <2>6. \A s \in 1..made' : ~req'[s].done => s \in A \/ Entry(req[s].parent, s)'
    BY <1>4, <2>2 DEF Path, Entry
  <2> QED BY <2>3, <2>4, <2>5, <2>6 DEF Path
<1> QED BY <1>2, <1>3, <1>5 DEF TreeOK

\* Output of a request: its list loses its head or stays.
LEMMA TreeOutput ==
  ASSUME LifeTypeOK, TreeOK, made' = made, NEW r \in 0..made,
         req' \in [Requests -> RequestType], \A x \in Requests : x # r => req'[x] = req[x],
         req'[r].parent = req[r].parent, req'[r].done = req[r].done, req'[r].items >= req[r].items,
         KeepsActive(r, req'[r].postponed) \/ \E s \in 1..MaxSubs : Activates(r, s, req'[r].postponed)
  PROVE  TreeOK'
<1>1. made \in Nat /\ 0..made \subseteq Requests /\ r \in Requests
      /\ \A x \in Requests : req[x].items \in Nat /\ req'[x].items \in Nat
  BY MadeAreRequests, RequestFields DEF LifeTypeOK
<1>2. \A x \in Requests : /\ req'[x].parent = req[x].parent /\ req'[x].done = req[x].done
                          /\ req'[x].items >= req[x].items
  <2> SUFFICES ASSUME NEW x \in Requests
               PROVE  req'[x].parent = req[x].parent /\ req'[x].done = req[x].done /\ req'[x].items >= req[x].items
    OBVIOUS
  <2>1. CASE x = r
    BY <2>1
  <2>2. CASE x # r
    <3>1. req'[x] = req[x] /\ req[x].items \in Nat
      BY <1>1, <2>2
    <3> QED BY <3>1
  <2> QED BY <2>1, <2>2
<1>3. ParentsOK'
  <2> SUFFICES ASSUME NEW s \in 1..made
               PROVE  /\ req'[s].parent \in 0..(s - 1) /\ req'[req'[s].parent].items > 0
                      /\ ~req'[s].done => ~req'[req'[s].parent].done
    BY DEF ParentsOK
  <2>1. s \in Requests /\ req[s].parent \in 0..(s - 1) /\ req[req[s].parent].items > 0
        /\ (~req[s].done => ~req[req[s].parent].done)
    BY <1>1 DEF TreeOK, ParentsOK
  <2>2. req[s].parent \in Requests
    BY <1>1, <2>1
  <2> QED BY <1>1, <1>2, <2>1, <2>2
<1>4. PICK h \in Nat : Shifted(req[r].postponed, req'[r].postponed, h)
  <2>1. \A i \in DOMAIN req[r].postponed : i \in Nat
    BY <1>1, RequestFields DEF LifeTypeOK
  <2> QED BY <2>1 DEF KeepsActive, Activates
<1>5. \A x \in 0..made : \E i \in Nat : Shifted(req[x].postponed, req'[x].postponed, i)
  <2> SUFFICES ASSUME NEW x \in 0..made, x # r PROVE \E i \in Nat : Shifted(req[x].postponed, req'[x].postponed, i)
    BY <1>4
  <2>1. \A i \in DOMAIN req[x].postponed : i \in Nat /\ i - 0 = i /\ i + 0 = i
    BY <1>1, RequestFields DEF LifeTypeOK
  <2>2. req'[x] = req[x]
    BY <1>1
  <2>3. Shifted(req[x].postponed, req'[x].postponed, 0)
    BY <2>1, <2>2 DEF Shifted
  <2> QED BY <2>3
<1>6. ListsOK'
  <2>1. \A x \in 0..made : \A i \in DOMAIN req'[x].postponed :
          req'[x].postponed[i].req # None => req'[x].postponed[i].req \in Requests
    <3> SUFFICES ASSUME NEW x \in 0..made, NEW i \in DOMAIN req'[x].postponed, req'[x].postponed[i].req # None
                 PROVE  req'[x].postponed[i].req \in Requests
      OBVIOUS
    <3>1. req'[x].postponed \in Seq(ItemType)
      BY <1>1, RequestFields
    <3>2. req'[x].postponed[i] \in ItemType
      BY <3>1, ElementOfSeq, LenProperties
    <3> QED BY <3>2 DEF ItemType, Requests
  <2>2. \A x \in 0..made : \A i \in DOMAIN req'[x].postponed :
          req'[x].postponed[i].req # None => (req'[req'[x].postponed[i].req].done <=> req[req'[x].postponed[i].req].done)
    BY <1>2, <2>1
  <2>3. \A x \in 0..made : req'[x].parent = req[x].parent
    BY <1>1, <1>2
  <2> QED BY <1>5, <2>2, <2>3, ListsShrink DEF TreeOK
<1>7. PICK A : Path(A)
  BY DEF TreeOK
<1>8. /\ \A s \in A \ {Main} : s \in Requests /\ req[s].parent \in A /\ req[s].parent \in Requests
      /\ \A s \in 1..made : s \in Requests /\ req[s].parent \in Requests /\ s # None
  <2>1. A \subseteq 0..made /\ \A s \in A \ {Main} : req[s].parent \in A
    BY <1>7 DEF Path
  <2>2. \A s \in 1..made : s \in 0..made /\ req[s].parent \in 0..made /\ s # None
    BY <1>1 DEF TreeOK, ParentsOK, None
  <2> QED BY <1>1, <2>1, <2>2
<1>9. CASE KeepsActive(r, req'[r].postponed)
  <2>1. Shifted(req[r].postponed, req'[r].postponed, 0) /\ c'.data = c.data
    BY <1>9 DEF KeepsActive
  <2>2. \A x \in 0..made, s \in 1..made : Entry(x, s) => Entry(x, s)'
    <3> SUFFICES ASSUME NEW x \in 0..made, NEW s \in 1..made, Entry(x, s) PROVE Entry(x, s)'
      OBVIOUS
    <3>1. PICK i \in DOMAIN req[x].postponed : req[x].postponed[i].req = s
      BY DEF Entry
    <3>2. i \in Nat /\ i - 0 = i
      BY <1>1, RequestFields DEF LifeTypeOK
    <3>3. CASE x = r
      <4>1. i > 0
        BY <1>1, <3>1, <3>3, RequestFields DEF LifeTypeOK
      <4> QED BY <1>8, <2>1, <3>1, <3>2, <3>3, <4>1 DEF Shifted, Entry
    <3>4. CASE x # r
      BY <1>1, <3>1, <3>4 DEF Entry
    <3> QED BY <3>3, <3>4
  <2>3. \A x \in 0..made, s \in 1..made : \A i \in DOMAIN req'[x].postponed : req'[x].postponed[i].req = s =>
          i \in DOMAIN req[x].postponed /\ req[x].postponed[i].req = s
    <3> SUFFICES ASSUME NEW x \in 0..made, NEW s \in 1..made, NEW i \in DOMAIN req'[x].postponed, req'[x].postponed[i].req = s
                 PROVE  i \in DOMAIN req[x].postponed /\ req[x].postponed[i].req = s
      OBVIOUS
    <3>1. i \in Nat /\ i + 0 = i /\ s # None
      BY <1>1, <1>8, RequestFields
    <3>2. CASE x = r
      BY <2>1, <3>1, <3>2 DEF Shifted
    <3>3. CASE x # r
      BY <1>1, <3>3
    <3> QED BY <3>2, <3>3
  <2>4. \A s \in A \ {Main} : s \in 1..made /\ req[s].parent \in 0..made
    <3>1. A \subseteq 0..made /\ \A s \in A \ {Main} : req[s].parent \in A
      BY <1>7 DEF Path
    <3>2. \A s \in 0..made : s # Main => s \in 1..made
      BY <1>1 DEF Main
    <3> QED BY <3>1, <3>2
  <2>5. /\ Main \in A /\ c'.data \in A /\ A \subseteq 0..made'
        /\ \A s \in A \ {Main} : ~req'[s].done /\ req'[s].parent \in A /\ req'[s].parent # c'.data
    BY <1>2, <1>7, <1>8, <2>1 DEF Path
  <2>6. \A s, t \in A \ {Main} : req'[s].parent = req'[t].parent => s = t
    BY <1>2, <1>7, <1>8 DEF Path
  <2>7. \A s \in A \ {Main} : \A i \in DOMAIN req'[req'[s].parent].postponed :
          req'[req'[s].parent].postponed[i].req = s => i = 1
    <3> SUFFICES ASSUME NEW s \in A \ {Main}, NEW i \in DOMAIN req'[req'[s].parent].postponed,
                        req'[req'[s].parent].postponed[i].req = s
                 PROVE  i = 1
      OBVIOUS
    <3>1. s \in 1..made /\ req[s].parent \in 0..made /\ req'[s].parent = req[s].parent
      BY <1>2, <1>8, <2>4
    <3>2. i \in DOMAIN req[req[s].parent].postponed /\ req[req[s].parent].postponed[i].req = s
      BY <2>3, <3>1
    <3> QED BY <1>7, <3>2 DEF Path
  <2>8. \A s \in 1..made' : ~req'[s].done => s \in A \/ Entry(req[s].parent, s)'
    <3> SUFFICES ASSUME NEW s \in 1..made, ~req'[s].done, s \notin A PROVE Entry(req[s].parent, s)'
      OBVIOUS
    <3>1. Entry(req[s].parent, s)
      BY <1>2, <1>7, <1>8 DEF Path
    <3>2. req[s].parent \in 0..made /\ req'[s].parent = req[s].parent
      BY <1>1, <1>2, <1>8 DEF TreeOK, ParentsOK
    <3> DEFINE x == req[s].parent
    <3>3. \E i \in DOMAIN req'[x].postponed : req'[x].postponed[i].req = s
      <4>1. x \in 0..made /\ Entry(x, s)
        BY <3>1, <3>2
      <4> HIDE DEF x
      <4> QED BY <2>2, <4>1 DEF Entry
    <3> QED BY <3>2, <3>3 DEF Entry
  <2> QED BY <2>5, <2>6, <2>7, <2>8, <1>3, <1>6 DEF Path, TreeOK
<1>10. CASE \E s \in 1..MaxSubs : Activates(r, s, req'[r].postponed)
  <2>1. PICK t \in 1..MaxSubs : Activates(r, t, req'[r].postponed)
    BY <1>10
  <2> DEFINE q == req[r].postponed p == req'[r].postponed
             B == A \cup {t}
  <2>2. PICK m \in DOMAIN q : q[m].req = t /\ Shifted(q, p, m) /\ \A j \in 1..(m - 1) : q[j].req = None
    BY <2>1 DEF Activates
  <2>3. c.data = r /\ c'.data = t
    BY <2>1 DEF Activates
  <2>4. DOMAIN q = 1..Len(q) /\ Len(q) \in Nat /\ DOMAIN p = 1..Len(p) /\ Len(p) \in Nat /\ m \in Nat \ {0}
    BY <1>1, RequestFields DEF LifeTypeOK
  <2>5. t \in 1..made /\ req[t].parent = r /\ ~req[t].done /\ (\A j \in DOMAIN q : q[j].req = t => m = j)
    BY <2>2, <1>1 DEF TreeOK, ListsOK, None
  <2>6. t \notin A /\ t # Main /\ t # r
    BY <1>1, <1>7, <2>3, <2>5 DEF Path, Main, TreeOK, ParentsOK
  <2>7. /\ Main \in B /\ c'.data \in B /\ B \subseteq 0..made'
        /\ \A s \in B \ {Main} : ~req'[s].done /\ req'[s].parent \in B /\ req'[s].parent # c'.data
    <3>1. \A s \in B \ {Main} : req[s].parent \in A
      BY <1>7, <2>3, <2>5, <2>6 DEF Path
    <3>2. \A s \in B \ {Main} : s \in Requests /\ ~req[s].done
      BY <1>1, <1>7, <1>8, <2>5 DEF Path
    <3>3. B \subseteq 0..made' /\ Main \in B /\ c'.data \in B
      BY <1>1, <1>7, <2>3, <2>5 DEF Path
    <3> QED BY <1>2, <2>3, <2>6, <3>1, <3>2, <3>3
  <2>8. \A s, u \in B \ {Main} : req'[s].parent = req'[u].parent => s = u
    <3>1. \A s \in A \ {Main} : req[s].parent # r
      BY <1>7, <2>3 DEF Path
    <3>2. \A s, u \in B \ {Main} : req[s].parent = req[u].parent => s = u
      BY <1>7, <2>5, <3>1 DEF Path
    <3>3. \A s \in B \ {Main} : s \in Requests
      BY <1>1, <1>8, <2>5
    <3> QED BY <1>2, <3>2, <3>3
  <2>9. \A s \in B \ {Main} : \A i \in DOMAIN req'[req'[s].parent].postponed :
          req'[req'[s].parent].postponed[i].req = s => i = 1
    <3> SUFFICES ASSUME NEW s \in B \ {Main}, NEW i \in DOMAIN req'[req[s].parent].postponed,
                        req'[req[s].parent].postponed[i].req = s
                 PROVE  i = 1
      <4>1. \A s \in B \ {Main} : s \in Requests
        BY <1>1, <1>8, <2>5
      <4>2. \A s \in B \ {Main} : req'[s].parent = req[s].parent
        BY <1>2, <4>1
      <4> QED BY <4>2
    <3>1. CASE s \in A
      <4>1. req[s].parent # r /\ req[s].parent \in Requests
        BY <1>7, <1>8, <2>3, <3>1 DEF Path
      <4>2. req'[req[s].parent] = req[req[s].parent]
        BY <4>1
      <4> QED BY <1>7, <3>1, <4>2 DEF Path
    <3>2. CASE s = t
      <4>1. i \in DOMAIN p /\ p[i].req = t
        BY <2>5, <3>2
      <4> HIDE DEF p, q
      <4>2. i + m \in DOMAIN q /\ q[i + m].req = t
        BY <1>8, <2>2, <2>5, <4>1 DEF Shifted
      <4>3. i + m = m /\ i \in 1..Len(p)
        BY <2>4, <2>5, <4>1, <4>2
      <4> QED BY <2>4, <4>3
    <3> QED BY <3>1, <3>2
  <2>10. \A s \in 1..made' : ~req'[s].done => s \in B \/ Entry(req[s].parent, s)'
    <3> SUFFICES ASSUME NEW s \in 1..made, ~req'[s].done, s \notin B PROVE Entry(req[s].parent, s)'
      OBVIOUS
    <3> DEFINE x == req[s].parent
    <3>1. Entry(x, s)
      BY <1>2, <1>7, <1>8 DEF Path
    <3>2. x \in Requests /\ req'[s].parent = x
      BY <1>2, <1>8
    <3>3. \E i \in DOMAIN req'[x].postponed : req'[x].postponed[i].req = s
      <4>1. CASE x = r
        <5>1. PICK i \in DOMAIN q : q[i].req = s
          BY <3>1, <4>1 DEF Entry
        <5> HIDE DEF q, p
        <5>2. s # t /\ s # None
          BY <1>8
        <5>3. i > m
          <6>1. i # m /\ i \in 1..Len(q) /\ ~(i \in 1..(m - 1))
            BY <2>2, <2>4, <5>1, <5>2
          <6> QED BY <2>4, <6>1
        <5>4. i - m \in DOMAIN p /\ p[i - m].req = s
          BY <2>2, <5>1, <5>2, <5>3 DEF Shifted
        <5> QED BY <4>1, <5>4 DEF p
      <4>2. CASE x # r
        BY <3>1, <3>2, <4>2 DEF Entry
      <4> QED BY <4>1, <4>2
    <3> QED BY <3>2, <3>3 DEF Entry
  <2> HIDE DEF B
  <2>11. Path(B)'
    BY <2>7, <2>8, <2>9, <2>10 DEF Path
  <2> QED BY <2>11, <1>3, <1>6 DEF TreeOK
<1> QED BY <1>9, <1>10

\* A new subrequest is at the end of its parent's list.
LEMMA TreeSubrequest ==
  ASSUME LifeTypeOK, TreeOK, NEW r \in 0..made, ~req[r].done, NEW t, t = made + 1, made < MaxSubs, made' = t,
         req' \in [Requests -> RequestType],
         \A x \in Requests : x # r /\ x # t => req'[x] = req[x],
         req'[r].parent = req[r].parent, req'[r].done = req[r].done, req'[r].items = req[r].items + 1,
         req'[r].postponed = Append(req[r].postponed, Requested(t)),
         req'[t].parent = r, ~req'[t].done, req'[t].postponed = <<>>,
         c'.data = IF c.data = r /\ req[r].postponed = <<>> THEN t ELSE c.data
  PROVE  TreeOK'
<1> DEFINE q == req[r].postponed p == req'[r].postponed n == Len(q) + 1
<1>1. /\ made \in Nat /\ 0..made \subseteq Requests /\ r \in Requests /\ t \in Requests /\ t \notin 0..made
      /\ \A x \in Requests : req[x].items \in Nat /\ req'[x].items \in Nat
      /\ t # None /\ t # Main /\ t # r /\ t \in 1..t /\ \A x \in 0..t : x \in 0..made \/ x = t
  <2>1. made \in Nat /\ 0..made \subseteq Requests /\ MaxSubs \in Nat /\ made < MaxSubs
    BY MadeAreRequests, HttpBounds
  <2>2. t \in Requests /\ t \notin 0..made /\ t # None /\ t # Main /\ t # r /\ t \in 1..t /\ \A x \in 0..t : x \in 0..made \/ x = t
    BY <2>1 DEF Requests, None, Main
  <2>3. \A x \in Requests : req[x].items \in Nat /\ req'[x].items \in Nat
    BY RequestFields DEF LifeTypeOK
  <2> QED BY <2>1, <2>2, <2>3
<1>2. /\ q \in Seq(ItemType) /\ Requested(t) \in ItemType /\ Requested(t).req = t
  <2>1. q \in Seq(ItemType)
    BY <1>1, RequestFields DEF LifeTypeOK
  <2>2. t \in 1..MaxSubs /\ <<>> \in Seq(Nat)
    BY <1>1, MadeAreRequests, HttpBounds, EmptySeq
  <2> QED BY <2>1, <2>2 DEF Requested, ItemType
<1>3. /\ DOMAIN q = 1..Len(q) /\ Len(q) \in Nat /\ DOMAIN p = 1..n /\ n \in Nat
      /\ \A i \in 1..Len(q) : p[i] = q[i]
      /\ p[n].req = t
  BY <1>2, AppendProperties, LenProperties
<1> HIDE DEF p, q, n
<1>4. \A x \in 0..made : /\ req'[x].parent = req[x].parent /\ req'[x].done = req[x].done
                         /\ req'[x].items >= req[x].items
  <2> SUFFICES ASSUME NEW x \in 0..made
               PROVE  req'[x].parent = req[x].parent /\ req'[x].done = req[x].done /\ req'[x].items >= req[x].items
    OBVIOUS
  <2>1. CASE x = r
    BY <1>1, <2>1
  <2>2. CASE x # r
    <3>1. req'[x] = req[x] /\ req[x].items \in Nat
      BY <1>1, <2>2
    <3> QED BY <3>1
  <2> QED BY <2>1, <2>2
<1>5. \A s \in 1..made : s \in 0..made /\ req[s].parent \in 0..made /\ req[s].parent \in 0..(s - 1)
  BY <1>1 DEF TreeOK, ParentsOK
<1>6. ParentsOK'
  <2> SUFFICES ASSUME NEW s \in 1..t
               PROVE  /\ req'[s].parent \in 0..(s - 1) /\ req'[req'[s].parent].items > 0
                      /\ ~req'[s].done => ~req'[req'[s].parent].done
    BY DEF ParentsOK
  <2>1. CASE s \in 1..made
    <3>1. req[s].parent \in 0..(s - 1) /\ req[req[s].parent].items > 0
          /\ (~req[s].done => ~req[req[s].parent].done)
      BY <2>1 DEF TreeOK, ParentsOK
    <3>2. req[s].parent \in 0..made /\ req'[s].parent = req[s].parent /\ req'[s].done = req[s].done
      BY <1>4, <1>5, <2>1
    <3>3. req'[req[s].parent].items >= req[req[s].parent].items
          /\ req'[req[s].parent].items \in Nat /\ req[req[s].parent].items \in Nat
          /\ req'[req[s].parent].done = req[req[s].parent].done
      BY <1>1, <1>4, <3>2
    <3> QED BY <3>1, <3>2, <3>3
  <2>2. CASE s = t
    <3>1. req'[s].parent = r /\ r \in 0..(s - 1)
      BY <1>1, <2>2
    <3>2. req'[r].items > 0 /\ ~req'[r].done
      BY <1>1
    <3> QED BY <3>1, <3>2
  <2> QED BY <1>1, <2>1, <2>2
  \* the lists
<1>7. \A x \in 0..made : \A i \in DOMAIN req'[x].postponed :
        \/ i \in DOMAIN req[x].postponed /\ req'[x].postponed[i] = req[x].postponed[i]
        \/ x = r /\ i = n /\ req'[x].postponed[i].req = t
  <2> SUFFICES ASSUME NEW x \in 0..made, NEW i \in DOMAIN req'[x].postponed
               PROVE  \/ i \in DOMAIN req[x].postponed /\ req'[x].postponed[i] = req[x].postponed[i]
                      \/ x = r /\ i = n /\ req'[x].postponed[i].req = t
    OBVIOUS
  <2>1. CASE x = r
    <3>1. i \in 1..n
      BY <1>3, <2>1 DEF p
    <3>2. i \in 1..Len(q) \/ i = n
      BY <1>3, <3>1 DEF n
    <3> QED BY <1>3, <2>1, <3>2 DEF p, q
  <2>2. CASE x # r
    BY <1>1, <2>2
  <2> QED BY <2>1, <2>2
<1>8. \A x \in 0..made : \A i \in DOMAIN req[x].postponed :
        i \in DOMAIN req'[x].postponed /\ req'[x].postponed[i] = req[x].postponed[i]
  <2> SUFFICES ASSUME NEW x \in 0..made, NEW i \in DOMAIN req[x].postponed
               PROVE  i \in DOMAIN req'[x].postponed /\ req'[x].postponed[i] = req[x].postponed[i]
    OBVIOUS
  <2>1. CASE x = r
    <3>1. i \in 1..Len(q) /\ i \in 1..n
      BY <1>3, <2>1 DEF q, n
    <3>2. i \in DOMAIN p /\ p[i] = q[i]
      BY <1>3, <3>1
    <3> QED BY <2>1, <3>2 DEF p, q
  <2>2. CASE x # r
    BY <1>1, <2>2
  <2> QED BY <2>1, <2>2
<1>9. \A x \in 0..made : \A i \in DOMAIN req[x].postponed : req[x].postponed[i].req # None =>
        LET s == req[x].postponed[i].req IN
        /\ s \in 1..made /\ req[s].parent = x /\ ~req[s].done
        /\ \A j \in DOMAIN req[x].postponed : req[x].postponed[j].req = s => i = j
  BY DEF TreeOK, ListsOK
<1>10. ListsOK'
  <2> SUFFICES ASSUME NEW x \in 0..t, NEW i \in DOMAIN req'[x].postponed, req'[x].postponed[i].req # None
               PROVE  LET s == req'[x].postponed[i].req IN
                      /\ s \in 1..t /\ req'[s].parent = x /\ ~req'[s].done
                      /\ \A j \in DOMAIN req'[x].postponed : req'[x].postponed[j].req = s => i = j
    BY DEF ListsOK
  <2>1. x \in 0..made
    <3>1. x # t
      BY EmptySeq
    <3> QED BY <1>1, <3>1
  <2> DEFINE s == req'[x].postponed[i].req
  <2>2. CASE i \in DOMAIN req[x].postponed /\ req'[x].postponed[i] = req[x].postponed[i]
    <3>1. s \in 1..made /\ req[s].parent = x /\ ~req[s].done
          /\ \A j \in DOMAIN req[x].postponed : req[x].postponed[j].req = s => i = j
      BY <1>9, <2>1, <2>2
    <3> HIDE DEF s
    <3>2. s \in 1..t /\ s \in 0..made /\ s # t
      BY <1>1, <3>1
    <3>3. ASSUME NEW j \in DOMAIN req'[x].postponed, req'[x].postponed[j].req = s PROVE i = j
      <4>1. j \in DOMAIN req[x].postponed /\ req'[x].postponed[j] = req[x].postponed[j]
        BY <1>7, <2>1, <3>2, <3>3
      <4> QED BY <3>1, <3>3, <4>1
    <3>4. req'[s].parent = x /\ ~req'[s].done
      BY <1>4, <3>1, <3>2
    <3> QED BY <3>2, <3>3, <3>4 DEF s
  <2>3. CASE x = r /\ i = n /\ req'[x].postponed[i].req = t
    <3>1. ASSUME NEW j \in DOMAIN req'[x].postponed, req'[x].postponed[j].req = t PROVE i = j
      <4>1. CASE j \in DOMAIN req[x].postponed /\ req'[x].postponed[j] = req[x].postponed[j]
        <5>1. t \in 1..made
          BY <1>1, <1>9, <2>1, <3>1, <4>1
        <5> QED BY <1>1, <5>1
      <4>2. CASE x = r /\ j = n
        BY <2>3, <4>2
      <4> QED BY <1>7, <2>1, <3>1, <4>1, <4>2
    <3> QED BY <1>1, <2>3, <3>1
  <2> QED BY <1>7, <2>1, <2>2, <2>3
  \* the way to the active request
<1>11. PICK A : Path(A)
  BY DEF TreeOK
<1>12. /\ A \subseteq 0..made /\ Main \in A /\ c.data \in A /\ t \notin A
       /\ \A s \in A \ {Main} : s \in 1..made /\ ~req[s].done /\ req[s].parent \in A /\ req[s].parent # c.data
       /\ \A s, u \in A \ {Main} : req[s].parent = req[u].parent => s = u
       /\ \A s \in A \ {Main} : \A i \in DOMAIN req[req[s].parent].postponed :
            req[req[s].parent].postponed[i].req = s => i = 1
       /\ \A s \in 1..made : ~req[s].done => s \in A \/ Entry(req[s].parent, s)
  <2>1. A \subseteq 0..made
    BY <1>11 DEF Path
  <2>2. \A s \in A \ {Main} : s \in 1..made
    BY <1>1, <2>1 DEF Main
  <2>3. t \notin A
    BY <1>1, <2>1
  <2> QED BY <1>11, <2>1, <2>2, <2>3 DEF Path
<1>13. \A s \in 1..made : Entry(req[s].parent, s) => Entry(req[s].parent, s)'
  <2> SUFFICES ASSUME NEW s \in 1..made, Entry(req[s].parent, s) PROVE Entry(req[s].parent, s)'
    OBVIOUS
  <2>1. req[s].parent \in 0..made /\ req'[s].parent = req[s].parent
    BY <1>4, <1>5
  <2>2. PICK i \in DOMAIN req[req[s].parent].postponed : req[req[s].parent].postponed[i].req = s
    BY DEF Entry
  <2>3. i \in DOMAIN req'[req[s].parent].postponed /\ req'[req[s].parent].postponed[i].req = s
    BY <1>8, <2>1, <2>2
  <2> QED BY <2>1, <2>3 DEF Entry
<1>14. CASE c.data = r /\ q = <<>>
  <2> DEFINE B == A \cup {t}
  <2>1. c'.data = t
    BY <1>14 DEF q
  <2>2. /\ Main \in B /\ c'.data \in B /\ B \subseteq 0..made'
        /\ \A s \in B \ {Main} : ~req'[s].done /\ req'[s].parent \in B /\ req'[s].parent # c'.data
    <3>1. \A s \in B \ {Main} : ~req'[s].done /\ req'[s].parent \in A
      <4> SUFFICES ASSUME NEW s \in B \ {Main} PROVE ~req'[s].done /\ req'[s].parent \in A
        OBVIOUS
      <4>1. CASE s \in A
        BY <1>4, <1>5, <1>12, <4>1
      <4>2. CASE s = t
        BY <1>12, <1>14, <4>2
      <4> QED BY <4>1, <4>2
    <3>2. B \subseteq 0..made'
      BY <1>1, <1>12
    <3> QED BY <1>12, <2>1, <3>1, <3>2
  <2>3. \A s, u \in B \ {Main} : req'[s].parent = req'[u].parent => s = u
    <3>1. \A s \in A \ {Main} : req'[s].parent = req[s].parent /\ req[s].parent # r
      BY <1>4, <1>5, <1>12, <1>14
    <3>2. req'[t].parent = r
      OBVIOUS
    <3>3. \A s \in B \ {Main} : s \in A \ {Main} \/ s = t
      OBVIOUS
    <3>4. \A s, u \in A \ {Main} : req'[s].parent = req'[u].parent => s = u
      BY <1>12, <3>1
    <3> HIDE DEF B
    <3> QED BY <3>1, <3>2, <3>3, <3>4
  <2>4. \A s \in B \ {Main} : \A i \in DOMAIN req'[req'[s].parent].postponed :
          req'[req'[s].parent].postponed[i].req = s => i = 1
    <3> SUFFICES ASSUME NEW s \in B \ {Main}, NEW i \in DOMAIN req'[req'[s].parent].postponed,
                        req'[req'[s].parent].postponed[i].req = s
                 PROVE  i = 1
      OBVIOUS
    <3>1. CASE s \in A
      <4>1. s \in 1..made /\ req'[s].parent = req[s].parent /\ req[s].parent \in 0..made /\ s # t
        BY <1>1, <1>4, <1>5, <1>12, <3>1
      <4>2. i \in DOMAIN req[req[s].parent].postponed /\ req[req[s].parent].postponed[i].req = s
        BY <1>7, <4>1
      <4> QED BY <1>12, <3>1, <4>2
    <3>2. CASE s = t
      <4>1. i \in 1..n /\ n = 1
        BY <1>3, <1>14, <3>2 DEF p, n
      <4> QED BY <4>1
    <3> QED BY <3>1, <3>2
  <2>5. \A s \in 1..made' : ~req'[s].done => s \in B \/ Entry(req[s].parent, s)'
    <3> SUFFICES ASSUME NEW s \in 1..made', ~req'[s].done, s # t PROVE s \in B \/ Entry(req[s].parent, s)'
      OBVIOUS
    <3>1. s \in 1..made
      BY <1>1
    <3> QED BY <1>4, <1>5, <1>12, <1>13, <3>1
  <2> HIDE DEF B
  <2>6. Path(B)'
    BY <2>2, <2>3, <2>4, <2>5 DEF Path
  <2> QED BY <1>6, <1>10, <2>6 DEF TreeOK
<1>15. CASE ~(c.data = r /\ q = <<>>)
  <2>1. c'.data = c.data
    BY <1>15 DEF q
  <2>2. \A s \in A \ {Main} : req'[s].parent = req[s].parent /\ req'[s].done = req[s].done /\ s # t /\ req[s].parent \in 0..made
    BY <1>4, <1>5, <1>12
  <2>3. /\ Main \in A /\ c'.data \in A /\ A \subseteq 0..made'
        /\ \A s \in A \ {Main} : ~req'[s].done /\ req'[s].parent \in A /\ req'[s].parent # c'.data
    BY <1>1, <1>12, <2>1, <2>2
  <2>4. \A s, u \in A \ {Main} : req'[s].parent = req'[u].parent => s = u
    BY <1>12, <2>2
  <2>5. \A s \in A \ {Main} : \A i \in DOMAIN req'[req'[s].parent].postponed :
          req'[req'[s].parent].postponed[i].req = s => i = 1
    <3> SUFFICES ASSUME NEW s \in A \ {Main}, NEW i \in DOMAIN req'[req'[s].parent].postponed,
                        req'[req'[s].parent].postponed[i].req = s
                 PROVE  i = 1
      OBVIOUS
    <3>1. i \in DOMAIN req[req[s].parent].postponed /\ req[req[s].parent].postponed[i].req = s
      BY <1>7, <2>2
    <3> QED BY <1>12, <3>1
  <2>6. \A s \in 1..made' : ~req'[s].done => s \in A \/ Entry(req[s].parent, s)'
    <3> SUFFICES ASSUME NEW s \in 1..made', ~req'[s].done PROVE s \in A \/ Entry(req[s].parent, s)'
      OBVIOUS
    <3>1. CASE s \in 1..made
      BY <1>4, <1>5, <1>12, <1>13, <3>1
    <3>2. CASE s = t
      <4>1. n \in DOMAIN p /\ p[n].req = t
        BY <1>3 DEF n
      <4> QED BY <3>2, <4>1 DEF Entry, p
    <3> QED BY <1>1, <3>1, <3>2
  <2>7. Path(A)'
    BY <2>3, <2>4, <2>5, <2>6 DEF Path
  <2> QED BY <1>6, <1>10, <2>7 DEF TreeOK
<1> QED BY <1>14, <1>15

\* What the way to the active request says, one fact at a time.
LEMMA PathFacts ==
  ASSUME LifeTypeOK, TreeOK, NEW A, Path(A)
  PROVE  /\ A \subseteq 0..made /\ Main \in A /\ c.data \in A
         /\ \A s \in A \ {Main} : s \in 1..made /\ ~req[s].done /\ req[s].parent \in A /\ req[s].parent # c.data
         /\ \A s, u \in A \ {Main} : req[s].parent = req[u].parent => s = u
         /\ \A s \in A \ {Main} : \A i \in DOMAIN req[req[s].parent].postponed :
              req[req[s].parent].postponed[i].req = s => i = 1
         /\ \A s \in 1..made : ~req[s].done => s \in A \/ Entry(req[s].parent, s)
         /\ \A s \in 1..made : s \in 0..made /\ s # Main /\ req[s].parent \in 0..(s - 1) /\ req[s].parent \in 0..made
<1>1. A \subseteq 0..made /\ made \in Nat
  BY MadeAreRequests DEF Path
<1>2. \A s \in A \ {Main} : s \in 1..made
  BY <1>1 DEF Main
<1>3. \A s \in 1..made : s \in 0..made /\ s # Main /\ req[s].parent \in 0..(s - 1) /\ req[s].parent \in 0..made
  BY <1>1 DEF TreeOK, ParentsOK, Main
<1> QED BY <1>1, <1>2, <1>3 DEF Path

\* The active subrequest is live, and so is its parent.
LEMMA ActiveIsLive ==
  ASSUME LifeTypeOK, TreeOK, c.data # Main
  PROVE  c.data \in 1..made /\ ~req[c.data].done /\ req[c.data].parent \in 0..made /\ req[c.data].parent # c.data
         /\ ~req[req[c.data].parent].done /\ req[req[c.data].parent].items > 0
<1>1. PICK A : Path(A)
  BY DEF TreeOK
<1>2. c.data \in 1..made /\ ~req[c.data].done /\ req[c.data].parent \in 0..made /\ req[c.data].parent # c.data
  BY <1>1, PathFacts
<1> QED BY <1>2 DEF TreeOK, ParentsOK

\* The main request, when it is active and its list is empty, is the last one that is live.
LEMMA NoneWaits ==
  ASSUME LifeTypeOK, TreeOK, c.data = Main, req[Main].postponed = <<>>
  PROVE  \A s \in 1..made : req[s].done
<1> SUFFICES ASSUME NEW u \in 1..made, ~req[u].done PROVE FALSE
  OBVIOUS
<1>1. PICK A : Path(A)
  BY DEF TreeOK
<1> DEFINE S == {s \in 1..made : ~req[s].done}
<1>2. S \in SUBSET Nat /\ S # {}
  BY MadeAreRequests
<1>3. PICK s \in S : \A x \in S : s <= x
  BY <1>2, LeastNatural
<1> DEFINE p == req[s].parent
<1>4. s \in 1..made /\ s \in Nat /\ ~req[s].done /\ p \in 0..(s - 1) /\ ~req[p].done
  BY <1>2, <1>3 DEF TreeOK, ParentsOK
<1>5. p = Main
  <2>1. p \notin S
    <3>1. ASSUME p \in S PROVE FALSE
      <4>1. s <= p
        BY <1>3, <3>1
      <4> QED BY <1>4, <4>1
    <3> QED BY <3>1
  <2>2. p \notin 1..made
    BY <1>4, <2>1
  <2> QED BY <1>4, <2>2, MadeAreRequests DEF Main
<1>6. s \in A \/ Entry(p, s)
  BY <1>1, <1>4, PathFacts
<1>7. s \notin A
  BY <1>1, <1>4, <1>5, PathFacts
<1>8. ~Entry(Main, s)
  BY EmptySeq DEF Entry
<1> QED BY <1>5, <1>6, <1>7, <1>8

\* The main request is over when no subrequest is live.
LEMMA TreeMainDone ==
  ASSUME LifeTypeOK, TreeOK, \A s \in 1..made : req[s].done, made' = made, c'.data = Main,
         req' \in [Requests -> RequestType],
         \A x \in Requests : req'[x].parent = req[x].parent /\ req'[x].items = req[x].items
                             /\ req'[x].postponed = req[x].postponed /\ (req[x].done => req'[x].done)
  PROVE  TreeOK'
<1>1. made \in Nat /\ 0..made \subseteq Requests /\ Main \in 0..made
  BY MadeAreRequests
<1>2. \A s \in 1..made : s \in Requests /\ req[s].parent \in 0..(s - 1) /\ req[s].parent \in Requests
  BY <1>1 DEF TreeOK, ParentsOK
<1>3. ParentsOK'
  BY <1>1, <1>2 DEF TreeOK, ParentsOK
<1>4. \A x \in 0..made : \A i \in DOMAIN req[x].postponed : req[x].postponed[i].req = None
  BY DEF TreeOK, ListsOK
<1>5. ListsOK'
  BY <1>1, <1>4 DEF ListsOK
<1>6. Path({Main})'
  <2>1. \A s \in 1..made : req'[s].done
    BY <1>2
  <2> QED BY <1>1, <2>1 DEF Path
<1> QED BY <1>3, <1>5, <1>6 DEF TreeOK

\* The active subrequest is over: its parent is active and has it in its list no more.
LEMMA TreeSubDone ==
  ASSUME LifeTypeOK, TreeOK, NEW r, r = c.data, r # Main, req[r].postponed = <<>>, made' = made,
         NEW p, p = req[r].parent, c'.data = p,
         req' \in [Requests -> RequestType],
         \A x \in Requests : /\ req'[x].parent = req[x].parent /\ req'[x].items = req[x].items
                             /\ x # r => req'[x].done = req[x].done
                             /\ x # p => req'[x].postponed = req[x].postponed,
         req'[r].done,
         req'[p].postponed = IF req[p].postponed # <<>> /\ Head(req[p].postponed).req = r
                             THEN Tail(req[p].postponed) ELSE req[p].postponed
  PROVE  TreeOK'
<1> DEFINE q == req[p].postponed w == req'[p].postponed
<1>1. made \in Nat /\ 0..made \subseteq Requests /\ Main \in 0..made
  BY MadeAreRequests
<1>2. r \in 1..made /\ ~req[r].done /\ p \in 0..made /\ p # r /\ ~req[p].done /\ r # None
  BY <1>1, ActiveIsLive DEF None
<1>3. PICK A : Path(A)
  BY DEF TreeOK
<1>4. /\ A \subseteq 0..made /\ Main \in A /\ r \in A
      /\ \A s \in A \ {Main} : s \in 1..made /\ ~req[s].done /\ req[s].parent \in A /\ req[s].parent # r
      /\ \A s, u \in A \ {Main} : req[s].parent = req[u].parent => s = u
      /\ \A s \in A \ {Main} : \A i \in DOMAIN req[req[s].parent].postponed :
           req[req[s].parent].postponed[i].req = s => i = 1
      /\ \A s \in 1..made : ~req[s].done => s \in A \/ Entry(req[s].parent, s)
      /\ \A s \in 1..made : s \in 0..made /\ s # Main /\ req[s].parent \in 0..(s - 1) /\ req[s].parent \in 0..made
  BY <1>3, PathFacts
<1>5. /\ q \in Seq(ItemType) /\ DOMAIN q = 1..Len(q) /\ Len(q) \in Nat
      /\ w \in Seq(ItemType) /\ DOMAIN w = 1..Len(w) /\ Len(w) \in Nat
  BY <1>1, <1>2, RequestFields DEF LifeTypeOK
<1>6. \A i \in DOMAIN q : q[i].req = r => i = 1
  <2>1. r \in A \ {Main} /\ req[r].parent = p
    BY <1>4
  <2>2. \A i \in DOMAIN req[req[r].parent].postponed : req[req[r].parent].postponed[i].req = r => i = 1
    BY <1>4, <2>1
  <2> QED BY <2>1, <2>2
<1>7. PICK h \in Nat : /\ Shifted(q, w, h) /\ \A j \in DOMAIN w : w[j].req # r
                       /\ \A i \in DOMAIN q : q[i].req # r => i > h
  <2>1. CASE q # <<>> /\ Head(q).req = r
    <3>1. w = Tail(q) /\ Len(w) = Len(q) - 1 /\ \A j \in 1..(Len(q) - 1) : w[j] = q[j + 1]
      <4>1. w = Tail(q) /\ q # <<>>
        BY <2>1
      <4> HIDE DEF q, w
      <4> QED BY <1>5, <4>1, HeadTailProperties
    <3>2. q[1].req = r /\ 1 \in DOMAIN q
      BY <1>5, <2>1, EmptySeq, HeadTailProperties
    <3> HIDE DEF q, w
    <3>3. \A j \in DOMAIN w : j + 1 \in DOMAIN q /\ w[j].req = q[j + 1].req
      BY <1>5, <3>1
    <3>4. \A m \in DOMAIN q : m > 1 => m - 1 \in DOMAIN w /\ w[m - 1].req = q[m].req
      <4> SUFFICES ASSUME NEW m \in DOMAIN q, m > 1 PROVE m - 1 \in DOMAIN w /\ w[m - 1].req = q[m].req
        OBVIOUS
      <4>1. m - 1 \in 1..(Len(q) - 1) /\ (m - 1) + 1 = m
        BY <1>5
      <4> QED BY <1>5, <3>1, <4>1
    <3>5. \A j \in DOMAIN w : w[j].req # r
      <4>1. \A j \in DOMAIN w : j + 1 # 1
        BY <1>5
      <4> QED BY <1>6, <3>3, <4>1
    <3>6. \A i \in DOMAIN q : q[i].req # r => i > 1
      BY <1>5, <3>2
    <3>7. Shifted(q, w, 1)
      BY <3>3, <3>4 DEF Shifted
    <3> QED BY <3>5, <3>6, <3>7
  <2>2. CASE ~(q # <<>> /\ Head(q).req = r)
    <3>1. w = q
      BY <2>2
    <3>2. \A i \in DOMAIN q : q[i].req # r
      <4> SUFFICES ASSUME NEW i \in DOMAIN q, q[i].req = r PROVE FALSE
        OBVIOUS
      <4>1. i = 1 /\ q # <<>>
        <5> HIDE DEF q, w
        <5> QED BY <1>5, <1>6, EmptySeq
      <4>2. Head(q) = q[1]
        BY <1>5, <4>1, HeadTailProperties
      <4> QED BY <2>2, <4>1, <4>2
    <3> HIDE DEF q, w
    <3>3. \A i \in DOMAIN q : i + 0 = i /\ i - 0 = i /\ i > 0
      BY <1>5
    <3> QED BY <3>1, <3>2, <3>3 DEF Shifted
  <2> QED BY <2>1, <2>2
  \* who is over
<1>8. \A s \in 1..made : s \in Requests /\ req'[s].parent = req[s].parent /\ req[s].parent \in 0..made
        /\ req'[s].done = (IF s = r THEN TRUE ELSE req[s].done)
  BY <1>1, <1>4
<1>9. \A s \in 1..made : ~req[s].done => req[s].parent # r
  <2> SUFFICES ASSUME NEW s \in 1..made, ~req[s].done, req[s].parent = r PROVE FALSE
    OBVIOUS
  <2>1. s \notin A
    BY <1>4
  <2>2. Entry(r, s)
    BY <1>4, <2>1
  <2> QED BY <2>2, EmptySeq DEF Entry
<1>10. ParentsOK'
  <2> SUFFICES ASSUME NEW s \in 1..made
               PROVE  /\ req'[s].parent \in 0..(s - 1) /\ req'[req'[s].parent].items > 0
                      /\ ~req'[s].done => ~req'[req'[s].parent].done
    BY DEF ParentsOK
  <2>1. req[s].parent \in 0..(s - 1) /\ req[req[s].parent].items > 0
        /\ (~req[s].done => ~req[req[s].parent].done)
    BY DEF TreeOK, ParentsOK
  <2>2. req[s].parent \in Requests
    BY <1>1, <1>8
  <2>3. req'[req[s].parent].items = req[req[s].parent].items
        /\ req'[req[s].parent].done = (IF req[s].parent = r THEN TRUE ELSE req[req[s].parent].done)
    BY <2>2
  <2> QED BY <1>8, <1>9, <2>1, <2>3
  \* the lists
<1>11. \A x \in 0..made : \E i \in Nat : Shifted(req[x].postponed, req'[x].postponed, i)
  <2> SUFFICES ASSUME NEW x \in 0..made, x # p PROVE \E i \in Nat : Shifted(req[x].postponed, req'[x].postponed, i)
    BY <1>7
  <2>1. \A i \in DOMAIN req[x].postponed : i \in Nat /\ i - 0 = i /\ i + 0 = i
    BY <1>1, RequestFields DEF LifeTypeOK
  <2>2. req'[x].postponed = req[x].postponed
    BY <1>1
  <2>3. Shifted(req[x].postponed, req'[x].postponed, 0)
    BY <2>1, <2>2 DEF Shifted
  <2> QED BY <2>3
<1>12. \A x \in 0..made : \A i \in DOMAIN req'[x].postponed :
         req'[x].postponed[i].req # None => req'[x].postponed[i].req \in Requests /\ req'[x].postponed[i].req # r
  <2> SUFFICES ASSUME NEW x \in 0..made, NEW i \in DOMAIN req'[x].postponed, req'[x].postponed[i].req # None
               PROVE  req'[x].postponed[i].req \in Requests /\ req'[x].postponed[i].req # r
    OBVIOUS
  <2>1. CASE x = p
    <3>1. w[i] \in ItemType /\ w[i].req # None
      BY <1>5, <2>1, ElementOfSeq
    <3>2. w[i].req \in Requests
      <4> HIDE DEF w
      <4> QED BY <3>1, HttpBounds DEF ItemType, Requests
    <3> QED BY <1>7, <2>1, <3>2
  <2>2. CASE x # p
    <3>1. req'[x].postponed = req[x].postponed
      BY <1>1, <2>2
    <3>2. req[x].postponed[i].req \in 1..made /\ req[req[x].postponed[i].req].parent = x
      BY <3>1 DEF TreeOK, ListsOK
    <3> QED BY <1>8, <2>2, <3>1, <3>2
  <2> QED BY <2>1, <2>2
<1>13. ListsOK'
  <2>1. \A x \in 0..made : req'[x].parent = req[x].parent
    BY <1>1
  <2>2. \A x \in 0..made : \A i \in DOMAIN req'[x].postponed :
          req'[x].postponed[i].req # None => (req'[req'[x].postponed[i].req].done <=> req[req'[x].postponed[i].req].done)
    BY <1>12
  <2> QED BY <1>11, <2>1, <2>2, ListsShrink DEF TreeOK
  \* the way to the active request
<1> DEFINE B == A \ {r}
<1>14. \A s \in B \ {Main} : /\ s \in A \ {Main} /\ s # r /\ req[s].parent \in 0..made /\ req'[s].parent = req[s].parent
                             /\ req[s].parent # p /\ req[s].parent # r /\ ~req'[s].done
  BY <1>2, <1>4, <1>8
<1>15. Path(B)'
  <2>1. /\ Main \in B /\ c'.data \in B /\ B \subseteq 0..made'
        /\ \A s \in B \ {Main} : ~req'[s].done /\ req'[s].parent \in B /\ req'[s].parent # c'.data
    <3>1. p \in A /\ Main \in B /\ p \in B /\ B \subseteq 0..made'
      BY <1>2, <1>4
    <3>2. \A s \in B \ {Main} : req[s].parent \in A
      BY <1>4, <1>14
    <3>3. \A s \in B \ {Main} : ~req'[s].done /\ req'[s].parent \in B /\ req'[s].parent # p
      BY <1>14, <3>2
    <3> QED BY <3>1, <3>3
  <2>2. \A s, u \in B \ {Main} : req'[s].parent = req'[u].parent => s = u
    <3> SUFFICES ASSUME NEW s \in B \ {Main}, NEW u \in B \ {Main}, req'[s].parent = req'[u].parent PROVE s = u
      OBVIOUS
    <3>1. s \in A \ {Main} /\ u \in A \ {Main} /\ req[s].parent = req[u].parent
      BY <1>14
    <3> QED BY <1>4, <3>1
  <2>3. \A s \in B \ {Main} : \A i \in DOMAIN req'[req'[s].parent].postponed :
          req'[req'[s].parent].postponed[i].req = s => i = 1
    <3> SUFFICES ASSUME NEW s \in B \ {Main}, NEW i \in DOMAIN req'[req'[s].parent].postponed,
                        req'[req'[s].parent].postponed[i].req = s
                 PROVE  i = 1
      OBVIOUS
    <3>1. req'[s].parent = req[s].parent /\ req'[req[s].parent].postponed = req[req[s].parent].postponed
      BY <1>1, <1>14
    <3>2. i \in DOMAIN req[req[s].parent].postponed /\ req[req[s].parent].postponed[i].req = s /\ s \in A \ {Main}
      BY <1>14, <3>1
    <3> QED BY <1>4, <3>2
  <2>4. \A s \in 1..made' : ~req'[s].done => s \in B \/ Entry(req[s].parent, s)'
    <3> SUFFICES ASSUME NEW s \in 1..made, ~req'[s].done, s \notin B PROVE Entry(req[s].parent, s)'
      OBVIOUS
    <3> DEFINE x == req[s].parent
    <3>1. s # r /\ Entry(x, s) /\ x \in 0..made /\ x \in Requests /\ req'[s].parent = x /\ s # None
      <4>1. s # r /\ ~req[s].done /\ s \notin A /\ s # None
        <5>1. s # r /\ ~req[s].done
          BY <1>8
        <5>2. s \notin A
          BY <5>1
        <5> QED BY <1>1, <5>1, <5>2 DEF None
      <4>2. x \in 0..made /\ x \in Requests /\ req'[s].parent = x
        BY <1>1, <1>8
      <4> QED BY <1>4, <4>1, <4>2
    <3>2. PICK i \in DOMAIN req[x].postponed : req[x].postponed[i].req = s
      BY <3>1 DEF Entry
    <3>3. \E j \in DOMAIN req'[x].postponed : req'[x].postponed[j].req = s
      <4>1. CASE x = p
        <5>1. i \in DOMAIN q /\ q[i].req = s
          BY <3>2, <4>1
        <5> HIDE DEF q, w
        <5>2. i > h
          BY <1>7, <3>1, <5>1
        <5>3. i - h \in DOMAIN w /\ w[i - h].req = s
          BY <1>7, <3>1, <5>1, <5>2 DEF Shifted
        <5> QED BY <4>1, <5>3 DEF w
      <4>2. CASE x # p
        BY <3>1, <3>2, <4>2
      <4> QED BY <4>1, <4>2
    <3> QED BY <3>1, <3>3 DEF Entry
  <2> HIDE DEF B
  <2> QED BY <2>1, <2>2, <2>3, <2>4 DEF Path
<1> QED BY <1>10, <1>13, <1>15 DEF TreeOK

-----------------------------------------------------------------------------
(* Lemmas: the call at the top *)

\* Which call runs says how the stack looks.
LEMMA TopCall ==
  ASSUME LifeTypeOK, NEW k \in Kinds, NEW d \in Nat, NEW l \in {0, 1}, Shape(stack, k, d, l), stack # <<>>
  PROVE  /\ Frame \in CallType /\ Frame.r \in Requests /\ Frame.r \in 0..made
         /\ Frame.rc \in Codes
         /\ IsWork(Frame) => k = "work"
         /\ Frame.fn = "terminate" => k = "terminate"
         /\ Frame.fn = "close" => k \in {"close", "cleanup"}
         /\ IsDone(Frame) => k = "cleanup" \/ (k = "none" /\ d > 0)
         /\ Frame.fn = "run_posted" => k = "none" /\ d = 0 /\ l = 1
<1>1. stack \in Seq(CallType) /\ \A i \in DOMAIN stack : stack[i].r <= made
  BY DEF LifeTypeOK
<1>2. Frame = stack[1] /\ Frame \in CallType /\ 1 \in DOMAIN stack
  BY <1>1, HeadTailProperties, LenProperties, EmptySeq DEF Frame
<1>3. Frame.r \in Requests /\ Frame.r <= made /\ Frame.rc \in Codes
  BY <1>1, <1>2 DEF CallType
<1>4. Frame.r \in 0..made
  BY <1>3, MadeAreRequests DEF Requests
<1>5. /\ k = "work" => IsWork(Frame)
      /\ k = "close" => Frame.fn = "close"
      /\ k = "terminate" => Frame.fn = "terminate"
      /\ k = "cleanup" => Frame.fn = "close" \/ IsDone(Frame)
      /\ k = "none" /\ d > 0 => IsDone(Frame)
      /\ k = "none" /\ d = 0 => l = 1 /\ Frame.fn = "run_posted"
  BY <1>1, Popped DEF Frame
<1> QED BY <1>2, <1>3, <1>4, <1>5 DEF Kinds, IsWork, IsDone, WorkFns

\* The types of the calls that are left.
LEMMA CallsLeft ==
  ASSUME LifeTypeOK, stack # <<>>, made' \in Nat, made <= made', NEW s, s = Tail(stack)
  PROVE  s \in Seq(CallType) /\ \A i \in DOMAIN s : s[i].r <= made'
<1>1. stack \in Seq(CallType) /\ Len(stack) \in Nat \ {0} /\ DOMAIN stack = 1..Len(stack)
      /\ \A i \in DOMAIN stack : stack[i].r <= made
  BY LenProperties, EmptySeq DEF LifeTypeOK
<1>2. s \in Seq(CallType) /\ Len(s) = Len(stack) - 1 /\ \A i \in 1..Len(s) : s[i] = stack[i + 1]
  BY <1>1, HeadTailProperties
<1>3. ASSUME NEW i \in DOMAIN s PROVE s[i].r <= made'
  <2>1. i \in 1..Len(s) /\ i + 1 \in DOMAIN stack
    BY <1>1, <1>2, <1>3, LenProperties
  <2>2. s[i] = stack[i + 1] /\ stack[i + 1].r <= made /\ stack[i + 1] \in CallType
    BY <1>1, <1>2, <2>1, ElementOfSeq
  <2>3. stack[i + 1].r \in Int /\ made \in Int
    BY <2>2, MadeAreRequests DEF CallType, Requests
  <2> QED BY <2>2, <2>3
<1> QED BY <1>2, <1>3

\* The types of the calls when one more is made.
LEMMA OneMoreCall ==
  ASSUME NEW s \in Seq(CallType), NEW m \in Nat, \A i \in DOMAIN s : s[i].r <= m, NEW f \in CallType, f.r <= m
  PROVE  <<f>> \o s \in Seq(CallType) /\ \A i \in DOMAIN (<<f>> \o s) : (<<f>> \o s)[i].r <= m
<1> DEFINE q == <<f>> \o s
<1>1. q \in Seq(CallType) /\ q[1] = f /\ Len(q) = Len(s) + 1 /\ \A i \in 1..Len(s) : q[i + 1] = s[i]
  BY Pushed
<1> HIDE DEF q
<1>2. ASSUME NEW i \in DOMAIN q PROVE q[i].r <= m
  <2>1. i \in 1..Len(q) /\ Len(s) \in Nat /\ DOMAIN s = 1..Len(s)
    BY <1>1, LenProperties
  <2>2. CASE i = 1
    BY <1>1, <2>2
  <2>3. CASE i # 1
    <3>1. i - 1 \in 1..Len(s) /\ (i - 1) + 1 = i
      BY <1>1, <2>1, <2>3
    <3> QED BY <1>1, <2>1, <3>1
  <2> QED BY <2>2, <2>3
<1> QED BY <1>1, <1>2 DEF q

\* The types of the stack.
StackTypes == stack' \in Seq(CallType) /\ \A i \in DOMAIN stack' : stack'[i].r <= made'

\* A call for a request returns.
LEMMA Returns ==
  ASSUME LifeTypeOK, NEW d \in Nat, NEW l \in {0, 1}, NEW k \in Kinds, Shape(stack, k, d, l), stack # <<>>, made' = made, Return
  PROVE  /\ StackTypes
         /\ k \in {"work", "close", "terminate"} => Shape(stack', "none", d, l)
         /\ k = "cleanup" => Shape(stack', "terminate", d, l)
         /\ k = "none" /\ d > 0 => Shape(stack', "none", d - 1, l)
         /\ k = "none" /\ d = 0 => Shape(stack', "none", 0, 0)
<1>0. made \in Nat /\ made' \in Nat /\ made <= made'
  BY MadeAreRequests
<1>1. stack' = Tail(stack)
  <2>1. Tail(stack) \in Seq(CallType)
    BY <1>0, CallsLeft
  <2> QED BY <2>1, ConcatEmptySeq DEF Return, Becomes
<1>2. StackTypes
  BY <1>0, <1>1, CallsLeft DEF StackTypes
<1> QED BY <1>1, <1>2, Popped DEF LifeTypeOK

\* Another call takes its place.
LEMMA BecomesOne ==
  ASSUME LifeTypeOK, NEW d \in Nat, NEW l \in {0, 1}, NEW k \in Kinds, Shape(stack, k, d, l), stack # <<>>,
         made' \in Nat, made <= made', NEW f \in CallType, f.r <= made', Becomes(<<f>>)
  PROVE  /\ StackTypes /\ stack' # <<>> /\ Frame' = f
         /\ k \in {"work", "close", "terminate"} =>
              /\ IsWork(f) => Shape(stack', "work", d, l)
              /\ f.fn = "close" => Shape(stack', "close", d, l)
              /\ f.fn = "terminate" => Shape(stack', "terminate", d, l)
              /\ IsDone(f) => Shape(stack', "none", d + 1, l)
         /\ k = "cleanup" /\ f.fn = "close" => Shape(stack', "cleanup", d, l)
         /\ k = "none" /\ d > 0 /\ f.fn = "close" => Shape(stack', "close", d - 1, l)
<1> DEFINE s == Tail(stack)
<1>1. s \in Seq(CallType) /\ \A i \in DOMAIN s : s[i].r <= made'
  BY CallsLeft
<1>2. stack' = <<f>> \o s
  BY DEF Becomes
<1>3. StackTypes
  <2>1. <<f>> \o s \in Seq(CallType) /\ \A i \in DOMAIN (<<f>> \o s) : (<<f>> \o s)[i].r <= made'
    <3> HIDE DEF s
    <3> QED BY <1>1, OneMoreCall
  <2> QED BY <1>2, <2>1 DEF StackTypes
<1>4. /\ k \in {"work", "close", "terminate"} => Shape(s, "none", d, l)
      /\ k = "cleanup" => Shape(s, "terminate", d, l)
      /\ k = "none" /\ d > 0 => Shape(s, "none", d - 1, l)
  BY Popped DEF LifeTypeOK
<1> HIDE DEF s
<1>5. stack' # <<>> /\ Head(stack') = f
  BY <1>1, <1>2, Pushed
<1>6. /\ Shape(s, "none", d, l) /\ IsWork(f) => Shape(stack', "work", d, l)
      /\ Shape(s, "none", d, l) /\ f.fn = "close" => Shape(stack', "close", d, l)
      /\ Shape(s, "none", d, l) /\ f.fn = "terminate" => Shape(stack', "terminate", d, l)
      /\ Shape(s, "none", d, l) /\ IsDone(f) => Shape(stack', "none", d + 1, l)
      /\ Shape(s, "terminate", d, l) /\ f.fn = "close" => Shape(stack', "cleanup", d, l)
  BY <1>1, <1>2, Pushed
<1>7. d > 0 /\ Shape(s, "none", d - 1, l) /\ f.fn = "close" => Shape(stack', "close", d - 1, l)
  <2> SUFFICES ASSUME d > 0 PROVE Shape(s, "none", d - 1, l) /\ f.fn = "close" => Shape(stack', "close", d - 1, l)
    OBVIOUS
  <2>1. d - 1 \in Nat
    OBVIOUS
  <2> QED BY <1>1, <1>2, <2>1, Pushed
<1> QED BY <1>3, <1>4, <1>5, <1>6, <1>7 DEF Frame

\* It goes on with a call, and owes a count.
LEMMA BecomesTwo ==
  ASSUME LifeTypeOK, NEW d \in Nat, NEW l \in {0, 1}, Shape(stack, "work", d, l), stack # <<>>, made' = made,
         NEW f \in CallType, f.r <= made, IsWork(f), NEW g \in CallType, g.r <= made, IsDone(g), Becomes(<<f, g>>)
  PROVE  StackTypes /\ stack' # <<>> /\ Frame' = f /\ Shape(stack', "work", d + 1, l)
<1> DEFINE s == Tail(stack) t == <<g>> \o s
<1>0. made \in Nat /\ made' \in Nat /\ made <= made'
  BY MadeAreRequests
<1>1. s \in Seq(CallType) /\ \A i \in DOMAIN s : s[i].r <= made
  BY <1>0, CallsLeft
<1>2. Shape(s, "none", d, l)
  BY Popped DEF LifeTypeOK, Kinds
<1>3. stack' = <<f, g>> \o s
  BY DEF Becomes
<1> HIDE DEF s
<1>4. t \in Seq(CallType) /\ (\A i \in DOMAIN t : t[i].r <= made) /\ Shape(t, "none", d + 1, l)
      /\ t[1] = g /\ Len(t) = Len(s) + 1 /\ \A i \in 1..Len(s) : t[i + 1] = s[i]
  <2>1. t \in Seq(CallType) /\ (\A i \in DOMAIN t : t[i].r <= made)
    BY <1>1, OneMoreCall, MadeAreRequests
  <2> QED BY <1>1, <1>2, <2>1, Pushed
<1>5. stack' = <<f>> \o t
  <2>1. <<f, g>> \in Seq(CallType) /\ <<f>> \in Seq(CallType) /\ Len(<<f, g>>) = 2 /\ Len(<<f>>) = 1 /\ Len(s) \in Nat
    BY <1>1, LenProperties
  <2>2. <<f, g>> = <<f>> \o <<g>> /\ <<g>> \in Seq(CallType)
    OBVIOUS
  <2>3. (<<f>> \o <<g>>) \o s = <<f>> \o (<<g>> \o s)
    BY <1>1, <2>1, <2>2, ConcatAssociative
  <2> QED BY <1>3, <2>2, <2>3
<1> HIDE DEF t
<1>6. d + 1 \in Nat
  OBVIOUS
<1>7. stack' # <<>> /\ Head(stack') = f /\ Shape(stack', "work", d + 1, l)
  BY <1>4, <1>5, <1>6, Pushed
<1>8. StackTypes
  <2>1. <<f>> \o t \in Seq(CallType) /\ \A i \in DOMAIN (<<f>> \o t) : (<<f>> \o t)[i].r <= made
    BY <1>4, OneMoreCall, MadeAreRequests
  <2> QED BY <1>5, <2>1 DEF StackTypes
<1> QED BY <1>7, <1>8 DEF Frame

-----------------------------------------------------------------------------
(* Lemmas: who counts *)

\* An upstream that is to be finalised is that of a live request.
LEMMA LiveFacts ==
  ASSUME LifeTypeOK, HandlersOK
  PROVE  /\ IsFiniteSet(Live) /\ Cardinality(Live) \in Nat /\ Live \subseteq 0..made
         /\ IsFiniteSet(Cleanups) /\ Cardinality(Cleanups) \in Nat /\ Cleanups \subseteq Live
         /\ Cardinality(Cleanups) <= Cardinality(Live) /\ Cardinality(Live) <= MaxSubs + 1
         /\ Discarding \in {0, 1}
<1>1. made \in Nat /\ made <= MaxSubs /\ IsFiniteSet(0..made) /\ Cardinality(0..made) = made + 1
  BY MadeAreRequests, FS_Interval
<1>2. Live \subseteq 0..made
  BY DEF Live
<1>3. Cleanups \subseteq Live
  BY <1>1 DEF Cleanups, HandlersOK, Live, Requests
<1>4. IsFiniteSet(Live) /\ Cardinality(Live) <= made + 1
  BY <1>1, <1>2, FS_Subset
<1>5. IsFiniteSet(Cleanups) /\ Cardinality(Cleanups) <= Cardinality(Live)
  BY <1>3, <1>4, FS_Subset
<1>6. Cardinality(Live) \in Nat /\ Cardinality(Cleanups) \in Nat
  BY <1>4, <1>5, FS_CardinalityType
<1>7. Cardinality(Live) <= MaxSubs + 1
  BY <1>1, <1>4, <1>6, HttpBounds
<1>8. Discarding \in {0, 1}
  BY DEF Discarding
<1> QED BY <1>2, <1>3, <1>4, <1>5, <1>6, <1>7, <1>8

\* Those who are live, and the upstreams, when nobody is done.
LEMMA SameLive ==
  ASSUME LifeTypeOK, made' = made, \A x \in Requests : req'[x].done = req[x].done
  PROVE  Live' = Live
BY MadeAreRequests DEF Live

\* The upstreams that are left, when no step lets one go.
LEMMA SameCleanups ==
  ASSUME \A x \in Requests : req'[x].upstream = req[x].upstream
  PROVE  Cleanups' = Cleanups
BY DEF Cleanups

-----------------------------------------------------------------------------
(* Lemmas: what is posted *)

\* The elements of a list of requests.
LEMMA PostedFacts ==
  ASSUME LifeTypeOK
  PROVE  /\ \A x : x \in ToSet(posted) <=> \E i \in DOMAIN posted : posted[i] = x
         /\ ToSet(posted) \subseteq 0..made
         /\ posted # <<>> => 1 \in DOMAIN posted
<1>1. posted \in Seq(Requests) /\ DOMAIN posted = 1..Len(posted) /\ Len(posted) \in Nat
      /\ \A i \in DOMAIN posted : posted[i] \in Requests /\ posted[i] <= made
  BY LenProperties, ElementOfSeq DEF LifeTypeOK
<1>2. \A x : x \in ToSet(posted) <=> \E i \in DOMAIN posted : posted[i] = x
  BY DEF ToSet, Range
<1>3. posted # <<>> => 1 \in DOMAIN posted
  BY <1>1, EmptySeq
<1>4. ToSet(posted) \subseteq 0..made
  BY <1>1, <1>2, MadeAreRequests DEF Requests
<1> QED BY <1>2, <1>3, <1>4

\* A request is posted, or none.
PostedTypes == posted' \in Seq(Requests) /\ \A i \in DOMAIN posted' : posted'[i] <= made'

\* The types of what is posted, when one request more is.
LEMMA OnePosted ==
  ASSUME LifeTypeOK, made' \in Nat, made <= made', posted' = posted \/ \E s \in 0..made' : s \in Requests /\ Posts(s)
  PROVE  /\ PostedTypes
         /\ posted # <<>> => posted' # <<>> /\ posted'[1] = posted[1]
         /\ \A x \in ToSet(posted') : x \in ToSet(posted) \/ Posts(x)
<1>1. posted \in Seq(Requests) /\ DOMAIN posted = 1..Len(posted) /\ Len(posted) \in Nat
      /\ \A i \in DOMAIN posted : posted[i] \in Requests /\ posted[i] <= made /\ posted[i] \in Int
  <2>1. posted \in Seq(Requests) /\ DOMAIN posted = 1..Len(posted) /\ Len(posted) \in Nat
        /\ \A i \in DOMAIN posted : posted[i] \in Requests /\ posted[i] <= made
    BY LenProperties, ElementOfSeq DEF LifeTypeOK
  <2> QED BY <2>1, HttpBounds DEF Requests
<1>2. \A x : x \in ToSet(posted) <=> \E i \in DOMAIN posted : posted[i] = x
  BY DEF ToSet, Range
<1>3. \A x : x \in ToSet(posted') <=> \E i \in DOMAIN posted' : posted'[i] = x
  BY DEF ToSet, Range
<1>4. made \in Nat
  BY MadeAreRequests
<1>5. CASE posted' = posted
  BY <1>1, <1>2, <1>3, <1>4, <1>5 DEF PostedTypes
<1>6. ASSUME NEW s \in 0..made', s \in Requests, Posts(s) 
      PROVE  /\ PostedTypes
             /\ posted # <<>> => posted' # <<>> /\ posted'[1] = posted[1]
             /\ \A x \in ToSet(posted') : x \in ToSet(posted) \/ x = s
  <2>1. /\ posted' \in Seq(Requests) /\ Len(posted') = Len(posted) + 1 /\ posted' # <<>>
        /\ \A i \in 1..Len(posted) : posted'[i] = posted[i]
        /\ posted'[Len(posted) + 1] = s
    <3> DEFINE q == Append(posted, s)
    <3>1. posted' = q
      BY <1>6 DEF Posts
    <3>2. /\ q \in Seq(Requests) /\ Len(q) = Len(posted) + 1 /\ q # <<>>
          /\ \A i \in 1..Len(posted) : q[i] = posted[i]
          /\ q[Len(posted) + 1] = s
      BY <1>1, <1>6, AppendProperties
    <3> QED BY <3>1, <3>2
  <2>2. DOMAIN posted' = 1..(Len(posted) + 1)
    BY <2>1, LenProperties
  <2>3. \A i \in DOMAIN posted' : i \in DOMAIN posted \/ i = Len(posted) + 1
    BY <1>1, <2>2
  <2>4. PostedTypes
    <3> SUFFICES ASSUME NEW i \in DOMAIN posted' PROVE posted'[i] <= made'
      BY <2>1 DEF PostedTypes
    <3>1. CASE i \in DOMAIN posted
      BY <1>1, <1>4, <2>1, <3>1
    <3>2. CASE i = Len(posted) + 1
      BY <2>1, <3>2
    <3> QED BY <2>3, <3>1, <3>2
  <2>5. posted # <<>> => posted'[1] = posted[1]
    BY <1>1, <2>1, EmptySeq
  <2>6. ASSUME NEW x \in ToSet(posted') PROVE x \in ToSet(posted) \/ x = s
    <3>1. PICK i \in DOMAIN posted' : posted'[i] = x
      BY <1>3, <2>6
    <3>2. CASE i \in DOMAIN posted
      BY <1>1, <1>2, <2>1, <3>1, <3>2
    <3>3. CASE i = Len(posted) + 1
      BY <2>1, <3>1, <3>3
    <3> QED BY <2>3, <3>2, <3>3
  <2> QED BY <2>1, <2>4, <2>5, <2>6
<1> QED BY <1>5, <1>6

-----------------------------------------------------------------------------
(* Steps of a call that works for a request *)

\* What is posted stays right.
LEMMA PostedGoesOn ==
  ASSUME LifeTypeOK, NEW d \in Nat, NEW l \in {0, 1}, PostedOK("work", d, l), l = 0 => WorkOK(l) /\ c.state = "request",
         Allocated, made' \in Nat, made <= made', Terminated' = Terminated,
         NEW k2 \in {"none", "work", "close"}, NEW d2 \in Nat, c'.state = c.state, c'.resolver = c.resolver,
         posted' = posted \/ \E s \in 0..made' : /\ s \in Requests /\ Posts(s) /\ (c'.error \/ l = 0 => ~req'[s].done)
                                                 /\ l = 0 => req'[s].items > 0 \/ req'[s].wh = "handler",
         \A x \in 0..made : x # Frame.r =>
           req'[x].done = req[x].done /\ req'[x].items = req[x].items /\ req'[x].wh = req[x].wh,
         c'.error /\ ~(k2 = "work" /\ Frame'.fn = "finalize") =>
           c.error /\ Frame.fn # "finalize" /\ req'[Frame.r].done = req[Frame.r].done
  PROVE  PostedOK(k2, d2, l)' /\ PostedTypes /\ (posted # <<>> => posted' # <<>> /\ posted'[1] = posted[1])
<1>1. /\ PostedTypes
      /\ posted # <<>> => posted' # <<>> /\ posted'[1] = posted[1]
      /\ \A x \in ToSet(posted') : x \in ToSet(posted) \/ Posts(x)
  BY OnePosted
<1>2. ToSet(posted) \subseteq 0..made
  BY PostedFacts
<1>3. \A x \in ToSet(posted') : x \in ToSet(posted) \/ ((c'.error \/ l = 0 => ~req'[x].done) /\ (l = 0 => req'[x].items > 0 \/ req'[x].wh = "handler"))
  <2> SUFFICES ASSUME NEW x \in ToSet(posted'), x \notin ToSet(posted)
               PROVE  /\ c'.error \/ l = 0 => ~req'[x].done
                      /\ l = 0 => req'[x].items > 0 \/ req'[x].wh = "handler"
    OBVIOUS
  <2>1. posted' # posted
    OBVIOUS
  <2>2. PICK s \in 0..made' : /\ Posts(s) /\ (c'.error \/ l = 0 => ~req'[s].done) /\ s \in Requests
                              /\ l = 0 => req'[s].items > 0 \/ req'[s].wh = "handler"
    BY <2>1
  <2>3. x = s
    <3>1. \A y \in ToSet(posted') : y \in ToSet(posted) \/ y = s
      <4>1. posted \in Seq(Requests) /\ DOMAIN posted = 1..Len(posted) /\ Len(posted) \in Nat
        BY LenProperties DEF LifeTypeOK
      <4>2. Len(Append(posted, s)) = Len(posted) + 1 /\ (\A i \in 1..Len(posted) : Append(posted, s)[i] = posted[i])
            /\ Append(posted, s)[Len(posted) + 1] = s /\ Append(posted, s) \in Seq(Requests)
        BY <4>1, <2>2, AppendProperties
      <4>3. DOMAIN Append(posted, s) = 1..(Len(posted) + 1)
        BY <4>2, LenProperties
      <4> SUFFICES ASSUME NEW i \in 1..(Len(posted) + 1) PROVE Append(posted, s)[i] \in ToSet(posted) \/ Append(posted, s)[i] = s
        BY <2>2, <4>3 DEF ToSet, Range, Posts
      <4>4. CASE i \in 1..Len(posted)
        BY <4>1, <4>2, <4>4, PostedFacts
      <4>5. CASE i = Len(posted) + 1
        BY <4>2, <4>5
      <4> QED BY <4>1, <4>4, <4>5
    <3> QED BY <3>1
  <2> QED BY <2>2, <2>3
<1>4. Allocated'
  BY DEF Allocated
<1>5. l = 0 => posted' = <<>> \/ c'.resolver
  BY DEF PostedOK, Allocated
<1>6. l = 0 /\ c'.state = "request" => c'.resolver
  BY DEF PostedOK
<1>7. ASSUME Normal(k2)', c'.error, ~(k2 = "work" /\ Frame'.fn = "finalize"), NEW x \in ToSet(posted')
      PROVE  ~req'[x].done
  <2>1. Normal("work") /\ c.error /\ Frame.fn # "finalize" /\ req'[Frame.r].done = req[Frame.r].done
    BY <1>7 DEF Normal
  <2>2. \A y \in ToSet(posted) : ~req[y].done
    BY <2>1 DEF PostedOK
  <2> QED BY <1>2, <1>3, <1>7, <2>1, <2>2
<1>8. ASSUME Normal(k2)', l = 0, NEW x \in ToSet(posted')
      PROVE  ~req'[x].done /\ (req'[x].items > 0 \/ req'[x].wh = "handler")
  <2>1. \A y \in ToSet(posted) : ~req[y].done /\ (req[y].items > 0 \/ req[y].wh = "handler")
    BY <1>8 DEF PostedOK, Normal
  <2>2. Frame.r \notin ToSet(posted)
    BY <1>8 DEF WorkOK, AloneOK
  <2> QED BY <1>2, <1>3, <1>8, <2>1, <2>2
<1> QED BY <1>1, <1>5, <1>6, <1>7, <1>8 DEF PostedOK

\* The count stays exact.
LEMMA WorkGoesOn ==
  ASSUME NEW d \in Nat, NEW l \in {0, 1}, CallsOK("work", d, l), count \in Nat, count' \in Nat,
         NEW k2 \in {"none", "work", "close"}, NEW d2 \in Nat,
         Shape(stack', k2, d2, l), OwedOK(k2, d2)', k2 = "work" => WorkOK(l)', PostedOK(k2, d2, l)',
         c'.state = c.state, Terminated' = Terminated,
         Cardinality(Live) \in Nat, Cardinality(Live') \in Nat, Discarding \in {0, 1}, Discarding' \in {0, 1},
         c.state = "request" => /\ count' >= 1
                                /\ count' + Cardinality(Live) + Discarding + d =
                                     count + Cardinality(Live') + Discarding' + d2 + TopOwed(k2),
         c.state = "request" /\ Terminated => TerminatedOK(k2, d2, l)',
         c.state = "linger" => /\ Live' = Live /\ req'[Main].discard = req[Main].discard /\ count' = count
                               /\ d2 = d /\ k2 # "close"
  PROVE  CallsOK(k2, d2, l)'
<1>1. CountOK(k2, d2, l)'
  <2> SUFFICES ASSUME c.state = "request" PROVE CountOK(k2, d2, l)'
    BY DEF CountOK
  <2>1. TopOwed(k2) \in {0, 1} /\ TopOwed("work") = 0
    BY DEF TopOwed
  <2>2. count <= Cardinality(Live) + Discarding + d
    BY <2>1 DEF CallsOK, CountOK
  <2>3. ~Terminated => count = Cardinality(Live) + Discarding + d
    BY <2>1 DEF CallsOK, CountOK, Normal
  <2>4. count' <= Cardinality(Live') + Discarding' + d2 + TopOwed(k2)
    BY <2>1, <2>2
  <2>5. ~Terminated => count' = Cardinality(Live') + Discarding' + d2 + TopOwed(k2)
    BY <2>1, <2>3
  <2> QED BY <2>4, <2>5 DEF CountOK, Normal
<1>2. TerminatedOK(k2, d2, l)'
  BY DEF TerminatedOK
<1>3. LingerOK(k2, d2, l)'
  BY DEF CallsOK, LingerOK
<1>4. FreedOK(k2, d2)'
  <2>1. Allocated
    BY DEF CallsOK, FreedOK
  <2> QED BY <2>1 DEF FreedOK, Allocated
<1> QED BY <1>1, <1>2, <1>3, <1>4 DEF CallsOK

\* One request changes: it is as old, as live and as far as before, and its output may go on.
Changes(r, p) ==
  /\ p \in RequestType /\ req' = [req EXCEPT ![r] = p] /\ made' = made
  /\ p.parent = req[r].parent /\ p.done = req[r].done /\ p.discard = req[r].discard /\ p.items >= req[r].items
  /\ c' \in ConnectionType /\ c'.state = c.state /\ c'.resolver = c.resolver
  /\ \/ KeepsActive(r, p.postponed) /\ posted' = posted
     \/ \E s \in 1..MaxSubs : Activates(r, s, p.postponed) /\ Posts(s)
HandlerOK(r, p) ==
  /\ p.upstream => ~p.done /\ p.wh = "upstream" /\ p.rh # "test"
  /\ p.wh = "handler" => ~p.done /\ p.rh \in {"block", "empty"} /\ (r = Main => ~p.discard)
  /\ p.wh # "terminate"
  /\ r = Main /\ p.done => p.wh = "empty"

\* One request changes, the others keep what the count, the tree and the handlers depend on.
LEMMA ChangedRequest ==
  ASSUME LifeTypeOK, TreeOK, HandlersOK, NEW r \in 0..made, NEW p, Changes(r, p), HandlerOK(r, p),
         r = Main => ~Terminated
  PROVE  /\ TreeOK' /\ HandlersOK' /\ req' \in [Requests -> RequestType] /\ c'.data \in 0..made
         /\ Live' = Live /\ Discarding' = Discarding /\ Terminated' = Terminated
         /\ req'[r] = p /\ \A x \in Requests : x # r => req'[x] = req[x]
         /\ posted' = posted \/ \E s \in 1..made : s \in Requests /\ s # r /\ Posts(s) /\ ~req'[s].done /\ Entry(r, s)
         /\ \A s \in 1..made : Entry(r, s)' => Entry(r, s) /\ s # r
<1>1. /\ made \in Nat /\ 0..made \subseteq Requests /\ Main \in 0..made /\ r \in Requests /\ made' = made
  BY MadeAreRequests DEF Changes
<1>2. /\ req' \in [Requests -> RequestType] /\ req'[r] = p /\ \A x \in Requests : x # r => req'[x] = req[x]
  BY <1>1 DEF Changes, LifeTypeOK
<1>3. KeepsActive(r, req'[r].postponed) \/ \E s \in 1..MaxSubs : Activates(r, s, req'[r].postponed)
  BY <1>2 DEF Changes
<1>4. TreeOK'
  BY <1>1, <1>2, <1>3, TreeOutput DEF Changes
<1>5. \A x \in Requests : req'[x].done = req[x].done /\ req'[x].discard = req[x].discard
  BY <1>2 DEF Changes
<1>6. Live' = Live
  BY <1>1, <1>5, SameLive
<1>7. Discarding' = Discarding
  BY <1>1, <1>5 DEF Discarding
<1>8. Terminated' = Terminated
  BY <1>1, <1>2 DEF Terminated, HandlerOK
<1>9. HandlersOK'
  <2>1. ASSUME NEW x \in Requests, req'[x].upstream
        PROVE  x <= made' /\ ~req'[x].done /\ req'[x].wh = "upstream" /\ req'[x].rh # "test"
    <3>1. CASE x = r
      BY <1>1, <1>2, <2>1, <3>1 DEF HandlerOK
    <3>2. CASE x # r
      BY <1>1, <1>2, <2>1, <3>2 DEF HandlersOK
    <3> QED BY <3>1, <3>2
  <2>2. ASSUME NEW x \in Requests, req'[x].wh = "handler"
        PROVE  ~req'[x].done /\ req'[x].rh \in {"block", "empty"} /\ (x = Main => ~req'[x].discard)
    BY <1>2, <2>2 DEF HandlerOK, HandlersOK
  <2>3. req'[Main].done => req'[Main].wh \in {"empty", "terminate"}
    BY <1>1, <1>2 DEF HandlerOK, HandlersOK
  <2>4. \A x \in Requests \ {Main} : req'[x].wh # "terminate"
    BY <1>2 DEF HandlerOK, HandlersOK
  <2> QED BY <2>1, <2>2, <2>3, <2>4 DEF HandlersOK
<1>10. ASSUME NEW s, NEW i \in DOMAIN req[r].postponed, req[r].postponed[i].req = s, s # None
       PROVE  s \in 1..made /\ s \in Requests /\ ~req[s].done /\ s # r /\ Entry(r, s)
  <2>1. s \in 1..made /\ req[s].parent = r /\ ~req[s].done
    BY <1>10 DEF TreeOK, ListsOK
  <2>2. s # r
    BY <1>1, <2>1 DEF TreeOK, ParentsOK
  <2> QED BY <1>1, <1>10, <2>1, <2>2 DEF Entry
<1>11. \A s \in 1..MaxSubs : s # None
  BY HttpBounds DEF None
<1>12. /\ c'.data \in 0..made
       /\ posted' = posted \/ \E s \in 1..made : s \in Requests /\ s # r /\ Posts(s) /\ ~req'[s].done /\ Entry(r, s)
  <2>1. CASE KeepsActive(r, p.postponed) /\ posted' = posted
    <3>1. c.data \in Requests /\ c.data <= made
      BY DEF LifeTypeOK, ConnectionType
    <3> QED BY <1>1, <2>1, <3>1 DEF KeepsActive, Requests
  <2>2. ASSUME NEW s \in 1..MaxSubs, Activates(r, s, p.postponed), Posts(s)
        PROVE  /\ c'.data \in 0..made
               /\ s \in 1..made /\ s \in Requests /\ s # r /\ Posts(s) /\ ~req'[s].done /\ Entry(r, s)
    <3>1. PICK i \in DOMAIN req[r].postponed : req[r].postponed[i].req = s
      BY <2>2 DEF Activates
    <3>2. s \in 1..made /\ s \in Requests /\ ~req[s].done /\ s # r /\ Entry(r, s)
      BY <1>10, <1>11, <3>1
    <3>3. c'.data = s
      BY <2>2 DEF Activates
    <3> QED BY <1>2, <2>2, <3>2, <3>3
  <2> QED BY <2>1, <2>2 DEF Changes
<1>13. ASSUME NEW s \in 1..made, Entry(r, s)' PROVE Entry(r, s) /\ s # r
  <2>1. PICK h : Shifted(req[r].postponed, p.postponed, h)
    BY DEF Changes, KeepsActive, Activates
  <2>2. PICK j \in DOMAIN p.postponed : p.postponed[j].req = s
    BY <1>2, <1>13 DEF Entry
  <2>3. s # None
    BY <1>1 DEF None
  <2>4. j + h \in DOMAIN req[r].postponed /\ req[r].postponed[j + h].req = s
    BY <2>1, <2>2, <2>3 DEF Shifted
  <2> QED BY <1>10, <2>3, <2>4
<1> QED BY <1>1, <1>2, <1>4, <1>6, <1>7, <1>8, <1>9, <1>12, <1>13

\* One request is posted at a time.
LEMMA OnlyOnePosted ==
  ASSUME LifeTypeOK, NEW s \in Requests, NEW x \in Requests, Posts(s), Posts(x)
  PROVE  x = s
<1>1. posted \in Seq(Requests)
  BY DEF LifeTypeOK
<1>2. Append(posted, s)[Len(posted) + 1] = s /\ Append(posted, x)[Len(posted) + 1] = x
  BY <1>1, AppendProperties
<1> QED BY <1>2 DEF Posts

\* A call that works for a request changes it, and the call returns or goes on with that request.
LEMMA RequestGoesOn ==
  ASSUME LifeTypeOK, TreeOK, HandlersOK, NEW d \in Nat, NEW l \in {0, 1}, CallsOK("work", d, l),
         NEW r \in 0..made, r = Frame.r, l = 0 => c.state = "request",
         NEW p, Changes(r, p), HandlerOK(r, p), r = Main => ~Terminated,
         NEW e \in {0, 1}, count' = count + e, e = 1 => ~req[r].done,
         NEW k2 \in {"none", "work"}, Shape(stack', k2, d + e, l), StackTypes,
         k2 = "work" => Frame'.r = r /\ p.uri + e <= req[r].uri /\ CallOK(l)',
         k2 = "work" /\ l = 0 => ~p.upstream /\ p.wh \in {"empty", "upstream"},
         k2 = "work" /\ p.upstream => req[r].upstream,
         Terminated => k2 = "none" \/ (r # Main /\ count >= 2 + d),
         c'.error /\ ~(k2 = "work" /\ Frame'.fn = "finalize") => c.error /\ Frame.fn # "finalize"
  PROVE  RequestInv'
<1>1. /\ TreeOK' /\ HandlersOK' /\ req' \in [Requests -> RequestType] /\ c'.data \in 0..made
      /\ Live' = Live /\ Discarding' = Discarding /\ Terminated' = Terminated
      /\ req'[r] = p /\ \A x \in Requests : x # r => req'[x] = req[x]
      /\ posted' = posted \/ \E s \in 1..made : s \in Requests /\ s # r /\ Posts(s) /\ ~req'[s].done /\ Entry(r, s)
      /\ \A s \in 1..made : Entry(r, s)' => Entry(r, s) /\ s # r
  BY ChangedRequest
<1>2. /\ made \in Nat /\ made' = made /\ 0..made \subseteq Requests /\ Main \in 0..made /\ r \in Requests
      /\ c'.state = c.state /\ c'.resolver = c.resolver /\ p.done = req[r].done
      /\ p.discard = req[r].discard /\ c' \in ConnectionType /\ p \in RequestType
  BY MadeAreRequests DEF Changes
<1>3. /\ Shape(stack, "work", d, l) /\ OwedOK("work", d) /\ WorkOK(l) /\ CountOK("work", d, l) /\ TerminatedOK("work", d, l)
      /\ LingerOK("work", d, l) /\ FreedOK("work", d) /\ PostedOK("work", d, l)
  BY DEF CallsOK
<1>4. Allocated /\ count \in Nat /\ count' \in Nat
  BY <1>3 DEF FreedOK, LifeTypeOK
<1>5. l = 0 => /\ ~req[r].done /\ r \notin ToSet(posted)
               /\ \A s \in 1..made : Entry(r, s) => req[s].wh = "handler"
  BY <1>3 DEF WorkOK, AloneOK
<1>6. PostedOK(k2, d + e, l)' /\ PostedTypes /\ (posted # <<>> => posted' # <<>> /\ posted'[1] = posted[1])
  <2>1. posted' = posted \/ \E s \in 0..made' : /\ s \in Requests /\ Posts(s) /\ (c'.error \/ l = 0 => ~req'[s].done)
                                                /\ l = 0 => req'[s].items > 0 \/ req'[s].wh = "handler"
    <3>1. \A s \in 1..made : s # r /\ Entry(r, s) /\ l = 0 => req'[s].wh = "handler"
      BY <1>1, <1>2, <1>5
    <3>2. \A s \in 1..made : s \in 0..made'
      BY <1>2
    <3> QED BY <1>1, <3>1, <3>2
  <2>2. \A x \in 0..made : x # Frame.r => req'[x].done = req[x].done /\ req'[x].items = req[x].items /\ req'[x].wh = req[x].wh
    BY <1>1, <1>2
  <2>3. req'[Frame.r].done = req[Frame.r].done
    BY <1>1, <1>2
  <2>4. d + e \in Nat /\ k2 \in {"none", "work", "close"} /\ made' \in Nat /\ made <= made'
    BY <1>2
  <2>5. l = 0 => WorkOK(l) /\ c.state = "request"
    BY <1>3
  <2> QED BY <1>1, <1>2, <1>3, <1>4, <2>1, <2>2, <2>3, <2>4, <2>5, PostedGoesOn
<1>7. LifeTypeOK'
  <2>1. c'.data <= made' /\ made' \in 0..MaxSubs
    BY <1>1, <1>2, MadeAreRequests
  <2> QED BY <1>1, <1>2, <1>4, <1>6, <2>1 DEF LifeTypeOK, StackTypes, PostedTypes
<1>8. p.uri \in Nat /\ req[r].uri \in Nat /\ MaxUri \in Nat /\ req[r].uri <= MaxUri + 1
  BY <1>2, RequestFields, HttpBounds DEF LifeTypeOK
<1>9. OwedOK(k2, d + e)'
  <2>1. d <= MaxUri + 1 - req[r].uri
    BY <1>3 DEF OwedOK
  <2>2. k2 = "work" => d + e <= MaxUri + 1 - req'[Frame'.r].uri
    BY <1>1, <1>8, <2>1
  <2>3. d + e <= MaxUri + 2 /\ TopOwed(k2) = 0
    BY <1>8, <2>1 DEF TopOwed
  <2> QED BY <2>2, <2>3 DEF OwedOK
<1>10. ASSUME k2 = "work", l = 0 PROVE AloneOK'
  <2>1. ~req'[r].done /\ ~req'[r].upstream /\ req'[r].wh \in {"empty", "upstream"} /\ Frame'.r = r
    BY <1>1, <1>2, <1>5, <1>10
  <2>2. r \notin ToSet(posted')
    <3>1. \A x \in ToSet(posted') : x \in ToSet(posted) \/ Posts(x)
      <4>1. made' \in Nat /\ made <= made' /\ (posted' = posted \/ \E s \in 0..made' : s \in Requests /\ Posts(s))
        BY <1>1, <1>2
      <4> QED BY <4>1, OnePosted
    <3>2. ASSUME Posts(r) PROVE FALSE
      <4>1. CASE posted' = posted
        <5>1. posted \in Seq(Requests) /\ Len(posted) \in Nat
          BY LenProperties DEF LifeTypeOK
        <5>2. Len(Append(posted, r)) = Len(posted) + 1
          BY <1>2, <5>1, AppendProperties
        <5> QED BY <3>2, <4>1, <5>1, <5>2 DEF Posts
      <4>2. CASE \E s \in 1..made : s \in Requests /\ s # r /\ Posts(s)
        BY <1>2, <3>2, <4>2, OnlyOnePosted
      <4> QED BY <1>1, <4>1, <4>2
    <3> QED BY <1>5, <1>10, <3>1, <3>2
  <2>3. \A s \in 1..made' : Entry(r, s)' => req'[s].wh = "handler"
    BY <1>1, <1>2, <1>5, <1>10
  <2>4. \A s \in 1..made' : Entry(Frame.r, s)' => req'[s].wh = "handler"
    BY <2>1, <2>3 DEF Entry
  <2> QED BY <2>1, <2>2, <2>4 DEF AloneOK
<1>11. k2 = "work" => WorkOK(l)'
  BY <1>10 DEF WorkOK
<1>12. Cardinality(Live) \in Nat /\ Discarding \in {0, 1}
  BY LiveFacts
<1>13. ASSUME c.state = "request", Terminated PROVE TerminatedOK(k2, d + e, l)'
  <2>1. /\ posted # <<>> /\ posted[1] = Main
        /\ count >= 1 + d + TopOwed("work") + Waiting(l)
        /\ Cleanups = {} /\ l = 1
    BY <1>3, <1>13 DEF TerminatedOK
  <2>2. posted' # <<>> /\ posted'[1] = Main
    BY <1>6, <2>1
  <2>3. Waiting(l) = 0 /\ Waiting(l)' = 0 /\ TopOwed("work") = 0 /\ TopOwed(k2) = 0
    BY <2>1 DEF Waiting, TopOwed
  <2>4. count' >= 1 + (d + e) + TopOwed(k2) + Waiting(l)'
    BY <1>4, <2>1, <2>3
  <2>5. k2 = "work" => Frame'.r # Main /\ count' >= 2 + (d + e)
    BY <1>4, <1>13
  <2>6. k2 = "work" => Cleanups' = {}
    <3> SUFFICES ASSUME k2 = "work", NEW x \in Requests, req'[x].upstream PROVE FALSE
      BY DEF Cleanups
    <3>1. req[x].upstream
      BY <1>1
    <3> QED BY <2>1, <3>1 DEF Cleanups
  <2> QED BY <2>1, <2>2, <2>4, <2>5, <2>6 DEF TerminatedOK
<1>14. c.state = "linger" => count' = count /\ d + e = d /\ req'[Main].discard = req[Main].discard
  <2> SUFFICES ASSUME c.state = "linger" PROVE e = 0 /\ req'[Main].discard = req[Main].discard
    BY <1>4
  <2>1. Live = {}
    BY <1>3 DEF LingerOK
  <2>2. req[r].done
    BY <2>1 DEF Live
  <2>3. req'[Main].discard = req[Main].discard
    BY <1>1, <1>2
  <2> QED BY <2>2, <2>3
<1>15. CallsOK(k2, d + e, l)'
  <2>1. c.state = "request" => /\ count' >= 1
                               /\ count' + Cardinality(Live) + Discarding + d =
                                    count + Cardinality(Live') + Discarding' + (d + e) + TopOwed(k2)
    <3> SUFFICES ASSUME c.state = "request"
                 PROVE  /\ count' >= 1
                        /\ count' + Cardinality(Live) + Discarding + d =
                             count + Cardinality(Live') + Discarding' + (d + e) + TopOwed(k2)
      OBVIOUS
    <3>1. count >= 1
      BY <1>3 DEF CountOK
    <3>2. TopOwed(k2) = 0
      BY DEF TopOwed
    <3> QED BY <1>1, <1>4, <1>12, <3>1, <3>2
  <2>2. d + e \in Nat /\ k2 \in {"none", "work", "close"} /\ k2 # "close"
    OBVIOUS
  <2> QED BY <1>1, <1>2, <1>4, <1>6, <1>9, <1>11, <1>12, <1>13, <1>14, <2>1, <2>2, WorkGoesOn
<1>16. k2 \in Kinds /\ d + e \in Nat
  BY DEF Kinds
<1> QED BY <1>1, <1>7, <1>15, <1>16 DEF RequestInv

\* The call is not one that a request which is terminated ignores or has to end with.
Goes(r) ==
  /\ ~(Frame.fn = "finalize" /\ Fatal(Frame.rc))
  /\ Frame.fn = "write" => req[r].wh \notin {"empty", "terminate"} /\ (req[r].wh = "upstream" => req[r].upstream)

\* What is known of a call that works for a request.
LEMMA WorkFacts ==
  ASSUME LifeTypeOK, HandlersOK, NEW d \in Nat, NEW l \in {0, 1}, CallsOK("work", d, l), stack # <<>>, NEW r, r = Frame.r
  PROVE  /\ Frame \in CallType /\ r \in Requests /\ r \in 0..made /\ req[r] \in RequestType
         /\ Allocated /\ CallOK(l) /\ Shape(stack, "work", d, l)
         /\ l = 0 => AloneOK /\ c.state = "request"
         /\ Terminated =>
              /\ c.state = "request"
              /\ ~(Frame.fn = "write" /\ r = Main) => Cleanups = {} /\ l = 1
              /\ Goes(r) => r # Main /\ count >= 2 + d
         /\ c.state = "linger" => Live = {} /\ d = 0 /\ req[r].done /\ l = 1
<1>1. /\ Shape(stack, "work", d, l) /\ WorkOK(l) /\ TerminatedOK("work", d, l)
      /\ LingerOK("work", d, l) /\ FreedOK("work", d)
  BY DEF CallsOK
<1>2. Frame \in CallType /\ r \in Requests /\ r \in 0..made
  BY <1>1, TopCall DEF Kinds
<1>3. req[r] \in RequestType
  BY <1>2 DEF LifeTypeOK
<1>4. Allocated /\ CallOK(l) /\ (l = 0 => AloneOK)
  BY <1>1 DEF FreedOK, WorkOK
<1>5. c.state = "linger" => Live = {} /\ d = 0 /\ req[r].done /\ ~Terminated
  BY <1>1, <1>2 DEF LingerOK, Live
<1>6. l = 0 => AloneOK /\ c.state = "request"
  BY <1>4, <1>5 DEF AloneOK, Allocated
<1>7. ASSUME Terminated
      PROVE  /\ c.state = "request"
             /\ ~(Frame.fn = "write" /\ r = Main) => Cleanups = {} /\ l = 1
             /\ Goes(r) => r # Main /\ count >= 2 + d
  <2>1. c.state = "request"
    BY <1>4, <1>5, <1>7 DEF Allocated
  <2>2. \/ Frame.fn = "write" /\ Frame.r = Main
        \/ /\ Cleanups = {} /\ l = 1
           /\ \/ Frame.fn = "finalize" /\ Fatal(Frame.rc)
              \/ Frame.r # Main /\ count >= 2 + d
              \/ Frame.fn = "write" /\ req[Frame.r].wh \in {"empty", "upstream"}
    BY <1>1, <1>7, <2>1 DEF TerminatedOK
  <2>3. Frame.fn = "write" /\ r = Main => ~Goes(r)
    BY <1>7 DEF Terminated, Goes
  <2>4. Cleanups = {} /\ Frame.fn = "write" /\ req[r].wh \in {"empty", "upstream"} => ~Goes(r)
    BY <1>2 DEF Goes, Cleanups
  <2>5. Frame.fn = "finalize" /\ Fatal(Frame.rc) => ~Goes(r)
    BY DEF Goes
  <2> QED BY <2>1, <2>2, <2>3, <2>4, <2>5
<1> QED BY <1>1, <1>2, <1>3, <1>4, <1>5, <1>6, <1>7

\* There is one call at the top.
LEMMA WorkCall ==
  ASSUME RequestInv, stack # <<>>, IsWork(Frame)
  PROVE  \E d \in Nat, l \in {0, 1} : CallsOK("work", d, l)
<1>1. PICK k \in Kinds, d \in Nat, l \in {0, 1} : CallsOK(k, d, l)
  BY DEF RequestInv
<1>2. k = "work"
  BY <1>1, TopCall DEF CallsOK, RequestInv
<1> QED BY <1>1, <1>2

\* The call returns.
LEMMA WorkReturns ==
  ASSUME RequestInv, stack # <<>>, IsWork(Frame), NEW r, r = Frame.r,
         NEW p, Changes(r, p), HandlerOK(r, p), count' = count, Return,
         Goes(r) \/ (Frame.fn = "write" /\ req[r].wh \in {"empty", "upstream"}),
         c'.error => c.error /\ Frame.fn # "finalize"
  PROVE  RequestInv'
<1>0. LifeTypeOK /\ TreeOK /\ HandlersOK
  BY DEF RequestInv
<1>1. PICK d \in Nat, l \in {0, 1} : CallsOK("work", d, l)
  BY WorkCall
<1>2. /\ Frame \in CallType /\ r \in 0..made /\ Shape(stack, "work", d, l)
      /\ l = 0 => c.state = "request"
      /\ Terminated /\ Goes(r) => r # Main
  BY <1>0, <1>1, WorkFacts
<1>3. r = Main => ~Terminated
  BY <1>2 DEF Terminated
<1>4. StackTypes /\ Shape(stack', "none", d, l) /\ made' = made
  BY <1>0, <1>2, Returns DEF Kinds, Changes
<1>5. d + 0 = d /\ count' = count + 0 /\ 0 \in {0, 1}
  BY <1>0 DEF LifeTypeOK
<1>6. PICK k2 \in {"none", "work"} : k2 = "none"
  OBVIOUS
<1>7. Shape(stack', k2, d + 0, l) /\ k2 # "work"
  BY <1>4, <1>5, <1>6
<1>8. /\ 0 = 1 => ~req[r].done
      /\ k2 = "work" => Frame'.r = r /\ p.uri + 0 <= req[r].uri /\ CallOK(l)'
      /\ k2 = "work" /\ l = 0 => ~p.upstream /\ p.wh \in {"empty", "upstream"}
      /\ k2 = "work" /\ p.upstream => req[r].upstream
      /\ Terminated => k2 = "none" \/ (r # Main /\ count >= 2 + d)
      /\ c'.error /\ ~(k2 = "work" /\ Frame'.fn = "finalize") => c.error /\ Frame.fn # "finalize"
  <2>1. k2 # "work" /\ k2 = "none"
    BY <1>6, <1>7
  <2>2. 0 = 1 => ~req[r].done
    OBVIOUS
  <2>3. c'.error /\ ~(k2 = "work" /\ Frame'.fn = "finalize") => c.error /\ Frame.fn # "finalize"
    OBVIOUS
  <2> QED BY <2>1, <2>2, <2>3
<1> QED BY <1>0, <1>1, <1>2, <1>3, <1>4, <1>5, <1>7, <1>8, RequestGoesOn

\* Another one takes its place.
LEMMA WorkBecomes ==
  ASSUME RequestInv, stack # <<>>, IsWork(Frame), NEW r, r = Frame.r,
         NEW p, Changes(r, p), HandlerOK(r, p), count' = count,
         NEW g \in CallType, IsWork(g), g.r = r, Becomes(<<g>>), Goes(r), p.uri = req[r].uri,
         p.upstream => req[r].upstream, p.wh \in {req[r].wh, "empty"},
         Frame' = g => \A l \in {0, 1} : CallOK(l) => CallOK(l)',
         c'.error => g.fn = "finalize" \/ (c.error /\ Frame.fn # "finalize")
  PROVE  RequestInv'
<1>0. LifeTypeOK /\ TreeOK /\ HandlersOK
  BY DEF RequestInv
<1>1. PICK d \in Nat, l \in {0, 1} : CallsOK("work", d, l)
  BY WorkCall
<1>2. /\ Frame \in CallType /\ r \in 0..made /\ Shape(stack, "work", d, l) /\ CallOK(l) /\ req[r] \in RequestType
      /\ l = 0 => AloneOK /\ c.state = "request"
      /\ Terminated => r # Main /\ count >= 2 + d
  BY <1>0, <1>1, WorkFacts
<1>3. made' = made /\ made' \in Nat /\ made <= made' /\ g.r <= made'
  BY <1>0, <1>2, MadeAreRequests DEF Changes
<1>4. StackTypes /\ Frame' = g /\ Shape(stack', "work", d, l)
  BY <1>0, <1>2, <1>3, BecomesOne DEF Kinds
<1>5. d + 0 = d /\ count' = count + 0 /\ 0 \in {0, 1} /\ p.uri + 0 <= req[r].uri
  BY <1>0, <1>2, RequestFields DEF LifeTypeOK
<1>6. Shape(stack', "work", d + 0, l)
  BY <1>4, <1>5
<1>7. l = 0 => ~p.upstream /\ p.wh \in {"empty", "upstream"}
  BY <1>2 DEF AloneOK
<1>8. CallOK(l)'
  BY <1>2, <1>4
<1> QED BY <1>0, <1>1, <1>2, <1>3, <1>4, <1>5, <1>6, <1>7, <1>8, RequestGoesOn

\* The handler of a request that goes on.
LEMMA MainGoes ==
  ASSUME RequestInv, stack # <<>>, IsWork(Frame), NEW r, r = Frame.r, Goes(r) \/ req[r].wh # "terminate"
  PROVE  /\ r \in Requests /\ r \in 0..made /\ req[r] \in RequestType /\ Frame \in CallType
         /\ r = Main => ~Terminated
         /\ \A p : p.wh \in {req[r].wh, "empty"} /\ p.rh = req[r].rh /\ p.done = req[r].done /\ p.discard = req[r].discard
                   /\ (p.upstream => req[r].upstream /\ p.wh = req[r].wh)
                   => HandlerOK(r, p)
<1>0. LifeTypeOK /\ TreeOK /\ HandlersOK
  BY DEF RequestInv
<1>1. PICK d \in Nat, l \in {0, 1} : CallsOK("work", d, l)
  BY WorkCall
<1>2. /\ Frame \in CallType /\ r \in 0..made /\ r \in Requests /\ req[r] \in RequestType
      /\ Terminated /\ Goes(r) => r # Main
  BY <1>0, <1>1, WorkFacts
<1>3. r = Main => ~Terminated
  BY <1>2 DEF Terminated
<1>4. req[r].wh # "terminate"
  BY <1>0, <1>2, <1>3 DEF HandlersOK, Terminated
<1> QED BY <1>0, <1>2, <1>3, <1>4 DEF HandlerOK, HandlersOK

\* A live request is finalised.
LEMMA FinalizeLive ==
  ASSUME NEW r, NEW rc \in {"ok", "special", "error", "timeout", "closed"}, Frame' = Call("finalize", r, rc),
         ~req'[r].done, ~req'[r].upstream, req'[r].wh # "handler", NEW l
  PROVE  CallOK(l)'
BY DEF CallOK, Call

\* Output changes one request.
Outputs(r, new, rc) ==
  \E p \in RequestType :
    /\ Changes(r, p) /\ req'[r] = p
    /\ p.wh = new.wh /\ p.rh = new.rh /\ p.uri = new.uri /\ p.upstream = new.upstream
    /\ p.done = new.done /\ p.discard = new.discard
    /\ rc = "ok" => c'.error = c.error
    /\ rc = "error" => c'.error

\* What a call of the output filter does to the request.
LEMMA OutputChanges ==
  ASSUME LifeTypeOK, NEW r \in Requests, NEW new \in RequestType, made' = made,
         new.postponed = req[r].postponed, new.parent = req[r].parent, new.done = req[r].done,
         new.discard = req[r].discard, new.items >= req[r].items,
         NEW in \in Seq(ItemType), \A i \in DOMAIN in : in[i].req = None,
         NEW rc \in {"ok", "error"}, OutputFilter(r, new, in, rc)
  PROVE  Outputs(r, new, rc)
<1>1. req \in [Requests -> RequestType] /\ c \in ConnectionType /\ posted \in Seq(Requests)
  BY DEF LifeTypeOK
<1>2. PICK p \in RequestType :
           /\ req' = [req EXCEPT ![r] = p]
           /\ p.parent = new.parent /\ p.wh = new.wh /\ p.rh = new.rh /\ p.uri = new.uri /\ p.items = new.items
           /\ p.upstream = new.upstream /\ p.discard = new.discard /\ p.done = new.done
           /\ c' \in ConnectionType /\ c'.state = c.state /\ c'.resolver = c.resolver
           /\ rc = "ok" => c'.error = c.error
           /\ rc = "error" => c'.error
           /\ \/ KeepsActive(r, p.postponed) /\ posted' = posted
              \/ \E s \in 1..MaxSubs : rc = "ok" /\ Activates(r, s, p.postponed) /\ Posts(s)
  BY <1>1, OutputEffect
<1>3. req'[r] = p
  BY <1>1, <1>2
<1>4. Changes(r, p)
  BY <1>2 DEF Changes
<1> QED BY <1>2, <1>3, <1>4 DEF Outputs

\* A piece of content is an item of a postponed list, and waits for no subrequest.
LEMMA PieceType ==
  ASSUME NEW q \in RequestType, NEW n \in Nat
  PROVE  /\ <<Piece(Append(q.path, n))>> \in Seq(ItemType)
         /\ \A i \in DOMAIN <<Piece(Append(q.path, n))>> : <<Piece(Append(q.path, n))>>[i].req = None
<1>1. q.path \in Seq(Nat)
  BY RequestFields
<1>2. Append(q.path, n) \in Seq(Nat)
  BY <1>1, AppendProperties
<1>3. Piece(Append(q.path, n)) \in ItemType /\ Piece(Append(q.path, n)).req = None
  BY <1>2 DEF Piece, ItemType
<1> HIDE DEF Piece
<1> QED BY <1>3

\* An empty chain is one too.
LEMMA NoPieces == <<>> \in Seq(ItemType) /\ \A i \in DOMAIN <<>> : <<>>[i].req = None
OBVIOUS

\* What it does when nothing new is passed to it.
LEMMA OutputGoesOn ==
  ASSUME LifeTypeOK, NEW r \in Requests, made' = made, NEW rc \in {"ok", "error"}, OutputFilter(r, req[r], <<>>, rc)
  PROVE  Outputs(r, req[r], rc)
<1>1. req[r] \in RequestType /\ req[r].items >= req[r].items
  BY RequestFields DEF LifeTypeOK
<1> QED BY <1>1, NoPieces, OutputChanges

\* The output of the request is left alone.
LEMMA QuietChange ==
  ASSUME LifeTypeOK, NEW r \in Requests, NEW p \in RequestType, req' = [req EXCEPT ![r] = p], made' = made, posted' = posted,
         p.postponed = req[r].postponed, p.parent = req[r].parent, p.done = req[r].done, p.discard = req[r].discard,
         p.items = req[r].items, c' \in ConnectionType, c'.data = c.data, c'.state = c.state, c'.resolver = c.resolver
  PROVE  Changes(r, p) /\ req'[r] = p
<1>1. req[r] \in RequestType /\ req'[r] = p
  BY DEF LifeTypeOK
<1>2. p.items >= req[r].items
  BY <1>1, RequestFields
<1>3. \A i \in DOMAIN req[r].postponed : i \in Nat /\ i + 0 = i /\ i - 0 = i
  BY <1>1, RequestFields
<1>4. Shifted(req[r].postponed, p.postponed, 0)
  BY <1>3 DEF Shifted
<1> QED BY <1>1, <1>2, <1>4 DEF Changes, KeepsActive

\* A call that changes no request.
LEMMA NoChange ==
  ASSUME LifeTypeOK, NEW r \in Requests, req' = req, made' = made, posted' = posted,
         c' \in ConnectionType, c'.data = c.data, c'.state = c.state, c'.resolver = c.resolver
  PROVE  Changes(r, req[r]) /\ req'[r] = req[r]
<1>1. req[r] \in RequestType /\ req' = [req EXCEPT ![r] = req[r]]
  BY DEF LifeTypeOK
<1> QED BY <1>1, QuietChange

-----------------------------------------------------------------------------
(* Content handlers *)

\* A content handler sends a piece of the response.
LEMMA KeepsProduce ==
  ASSUME RequestInv, Produce
  PROVE  RequestInv'
<1> DEFINE r == Frame.r
           q == req[r]
<1>0. LifeTypeOK
  BY DEF RequestInv
<1>1. stack # <<>> /\ Frame.fn \in {"content", "upstream"}
  BY DEF Produce, In, Content
<1>2. IsWork(Frame) /\ Goes(r)
  BY <1>1 DEF IsWork, IsDone, WorkFns, Goes
<1>3. /\ r \in Requests /\ q \in RequestType /\ Frame \in CallType
      /\ \A p : p.wh \in {q.wh, "empty"} /\ p.rh = q.rh /\ p.done = q.done /\ p.discard = q.discard /\ (p.upstream => q.upstream /\ p.wh = q.wh)
                => HandlerOK(r, p)
  BY <1>1, <1>2, MainGoes
<1>4. q.items < MaxItems /\ made' = made /\ count' = count
  BY DEF Produce
<1>5. PICK rc \in {"ok", "error"} :
        /\ OutputFilter(r, [q EXCEPT !.items = @ + 1, !.upstream = @ /\ rc = "ok"], <<Piece(Append(q.path, q.items + 1))>>, rc)
        /\ IF rc = "ok" THEN Becomes(<<[Frame EXCEPT !.rc = "some"]>>) ELSE Becomes(<<Call("finalize", r, "error")>>)
  BY DEF Produce
<1> HIDE DEF r, q
<1> DEFINE new == [q EXCEPT !.items = @ + 1, !.upstream = @ /\ rc = "ok"]
           in == <<Piece(Append(q.path, q.items + 1))>>
           g == IF rc = "ok" THEN [Frame EXCEPT !.rc = "some"] ELSE Call("finalize", r, "error")
<1>6. /\ new \in RequestType /\ new.postponed = q.postponed /\ new.parent = q.parent /\ new.done = q.done
      /\ new.discard = q.discard /\ new.items >= q.items /\ new.wh = q.wh /\ new.rh = q.rh /\ new.uri = q.uri
      /\ new.upstream = (q.upstream /\ rc = "ok")
  <2>1. q.items + 1 \in 0..MaxItems /\ q.items \in Nat /\ (q.upstream /\ rc = "ok") \in BOOLEAN
    BY <1>3, <1>4, RequestFields, HttpBounds
  <2>2. new = [q EXCEPT !.items = q.items + 1, !.upstream = (q.upstream /\ rc = "ok")]
    BY <1>3 DEF RequestType
  <2> HIDE DEF new
  <2>3. /\ new \in RequestType /\ new.postponed = q.postponed /\ new.parent = q.parent /\ new.done = q.done
        /\ new.discard = q.discard /\ new.wh = q.wh /\ new.rh = q.rh /\ new.uri = q.uri
        /\ new.upstream = (q.upstream /\ rc = "ok")
    BY <1>3, <2>1, <2>2 DEF RequestType
  <2>4. new.items = q.items + 1
    BY <1>3, <2>2 DEF RequestType
  <2> QED BY <2>1, <2>3, <2>4
<1>7. in \in Seq(ItemType) /\ \A i \in DOMAIN in : in[i].req = None
  <2>1. q.items + 1 \in Nat
    BY <1>3, RequestFields
  <2> QED BY <1>3, <2>1, PieceType
<1>8. OutputFilter(r, new, in, rc) /\ Becomes(<<g>>)
  BY <1>5
<1>9. g \in CallType /\ IsWork(g) /\ g.r = r /\ (rc = "error" => g = Call("finalize", r, "error"))
      /\ (rc = "ok" => g.fn = Frame.fn)
  BY <1>1, <1>3 DEF CallType, Call, IsWork, IsDone, WorkFns, Codes, r
<1> HIDE DEF new, in, g
<1>10. PICK p \in RequestType :
           /\ Changes(r, p) /\ req'[r] = p
           /\ p.wh = new.wh /\ p.rh = new.rh /\ p.uri = new.uri /\ p.upstream = new.upstream
           /\ p.done = new.done /\ p.discard = new.discard
           /\ rc = "ok" => c'.error = c.error
           /\ rc = "error" => c'.error
  BY <1>0, <1>3, <1>4, <1>6, <1>7, <1>8, OutputChanges DEF q, Outputs
<1>11. HandlerOK(r, p)
  BY <1>3, <1>6, <1>10
<1>12. ASSUME Frame' = g, NEW l \in {0, 1}, CallOK(l) PROVE CallOK(l)'
  <2>1. ~q.done /\ (Frame.fn = "upstream" => l = 1) /\ (Frame.fn = "content" => ~q.upstream) /\ q.wh # "handler"
    BY <1>1, <1>12 DEF CallOK, q, r
  <2>2. CASE rc = "ok"
    BY <1>1, <1>6, <1>9, <1>10, <1>12, <2>1, <2>2 DEF CallOK
  <2>3. CASE rc = "error"
    BY <1>6, <1>9, <1>10, <1>12, <2>1, <2>3, FinalizeLive
  <2> QED BY <2>2, <2>3
<1>13. c'.error => g.fn = "finalize" \/ (c.error /\ Frame.fn # "finalize")
  <2>1. Frame.fn # "finalize"
    BY <1>1
  <2>2. rc = "error" => g.fn = "finalize"
    BY <1>9 DEF Call
  <2>3. rc = "ok" => c'.error = c.error
    BY <1>10
  <2> QED BY <2>1, <2>2, <2>3
<1>14. p.uri = q.uri /\ (p.upstream => q.upstream) /\ p.wh \in {q.wh, "empty"}
  BY <1>6, <1>10
<1> QED BY <1>1, <1>2, <1>4, <1>8, <1>9, <1>10, <1>11, <1>12, <1>13, <1>14, WorkBecomes DEF q, r

\* A request is finalised with what its last output returned.
LEMMA LastOutput ==
  ASSUME RequestInv, stack # <<>>, IsWork(Frame), NEW r, r = Frame.r, Goes(r), Frame.fn # "finalize",
         req[r].wh # "handler", made' = made, count' = count, NEW new \in RequestType,
         new.postponed = req[r].postponed, new.parent = req[r].parent, new.done = req[r].done,
         new.discard = req[r].discard, new.items = req[r].items, new.wh = req[r].wh, new.rh = req[r].rh,
         new.uri = req[r].uri, ~new.upstream,
         NEW in \in Seq(ItemType), \A i \in DOMAIN in : in[i].req = None,
         NEW rc \in {"ok", "error"}, OutputFilter(r, new, in, rc), Becomes(<<Call("finalize", r, rc)>>),
         req[r].done => rc = "ok" /\ r # Main /\ (Terminated \/ ~c.error)
  PROVE  RequestInv'
<1> DEFINE g == Call("finalize", r, rc)
<1>0. LifeTypeOK
  BY DEF RequestInv
<1>1. /\ r \in Requests /\ req[r] \in RequestType
      /\ \A p : p.wh \in {req[r].wh, "empty"} /\ p.rh = req[r].rh /\ p.done = req[r].done /\ p.discard = req[r].discard
                /\ (p.upstream => req[r].upstream /\ p.wh = req[r].wh)
                => HandlerOK(r, p)
  BY MainGoes
<1>2. new.items >= req[r].items
  BY <1>1, RequestFields
<1>3. PICK p \in RequestType :
           /\ Changes(r, p) /\ req'[r] = p
           /\ p.wh = new.wh /\ p.rh = new.rh /\ p.uri = new.uri /\ p.upstream = new.upstream
           /\ p.done = new.done /\ p.discard = new.discard
           /\ rc = "ok" => c'.error = c.error
           /\ rc = "error" => c'.error
  BY <1>0, <1>1, <1>2, OutputChanges DEF Outputs
<1>4. HandlerOK(r, p)
  BY <1>1, <1>3
<1>5. g \in CallType /\ IsWork(g) /\ g.r = r /\ g.fn = "finalize" /\ g.rc = rc
  BY <1>1 DEF CallType, Call, IsWork, IsDone, WorkFns, Codes
<1>6. ASSUME Frame' = g, NEW l \in {0, 1} PROVE CallOK(l)'
  <2>1. CASE ~req[r].done
    BY <1>3, <1>6, <2>1, FinalizeLive
  <2>2. CASE req[r].done
    <3>1. rc = "ok" /\ r # Main /\ (Terminated' \/ ~c'.error) /\ ~req'[r].upstream /\ req'[r].wh # "handler"
      <4>1. Main \in Requests /\ req \in [Requests -> RequestType]
        BY <1>0, HttpBounds DEF LifeTypeOK
      <4>2. r # Main => Terminated' = Terminated
        BY <1>1, <1>3, <4>1 DEF Terminated, Changes
      <4> QED BY <1>3, <2>2, <4>2
    <3>2. Frame'.fn = "finalize" /\ Frame'.r = r /\ Frame'.rc = "ok"
      BY <1>5, <1>6, <3>1
    <3> QED BY <3>1, <3>2 DEF CallOK
  <2> QED BY <2>1, <2>2
<1>7. p.uri = req[r].uri /\ (p.upstream => req[r].upstream) /\ p.wh \in {req[r].wh, "empty"}
  BY <1>3
<1>8. Becomes(<<g>>)
  OBVIOUS
<1> HIDE DEF g
<1>9. c'.error => g.fn = "finalize" \/ (c.error /\ Frame.fn # "finalize")
  BY <1>5
<1> QED BY <1>3, <1>4, <1>5, <1>6, <1>7, <1>8, <1>9, WorkBecomes

\* What a call that works for a live request may rely on.
LEMMA LiveCall ==
  ASSUME RequestInv, stack # <<>>, Frame.fn \in {"content", "upstream", "special", "ends"}
  PROVE  /\ IsWork(Frame) /\ Goes(Frame.r) /\ ~req[Frame.r].done
         /\ Frame.fn # "upstream" => ~req[Frame.r].upstream
         /\ req[Frame.r].wh # "handler"
         /\ Frame.r \in Requests /\ req[Frame.r] \in RequestType /\ Frame \in CallType
<1>1. IsWork(Frame) /\ Goes(Frame.r)
  BY DEF IsWork, IsDone, WorkFns, Goes
<1>2. PICK d \in Nat, l \in {0, 1} : CallsOK("work", d, l)
  BY <1>1, WorkCall
<1>3. CallOK(l) /\ Frame.r \in Requests /\ req[Frame.r] \in RequestType /\ Frame \in CallType
  BY <1>2, WorkFacts DEF RequestInv
<1> QED BY <1>1, <1>3 DEF CallOK

\* The response is complete.
LEMMA KeepsContentEnds ==
  ASSUME RequestInv, ContentEnds
  PROVE  RequestInv'
<1> DEFINE r == Frame.r
           q == [req[r] EXCEPT !.upstream = FALSE]
           new == [q EXCEPT !.last = TRUE]
<1>1. stack # <<>> /\ Frame.fn \in {"content", "upstream", "ends"} /\ made' = made /\ count' = count
  BY DEF ContentEnds, In, Content
<1>2. IsWork(Frame) /\ Goes(r) /\ ~req[r].done /\ req[r].wh # "handler" /\ r \in Requests /\ req[r] \in RequestType
  BY <1>1, LiveCall
<1>3. /\ q \in RequestType /\ new \in RequestType
      /\ q.postponed = req[r].postponed /\ q.parent = req[r].parent /\ q.done = req[r].done
      /\ q.discard = req[r].discard /\ q.items = req[r].items /\ q.wh = req[r].wh /\ q.rh = req[r].rh
      /\ q.uri = req[r].uri /\ ~q.upstream /\ q.path = req[r].path
      /\ new.postponed = req[r].postponed /\ new.parent = req[r].parent /\ new.done = req[r].done
      /\ new.discard = req[r].discard /\ new.items = req[r].items /\ new.wh = req[r].wh /\ new.rh = req[r].rh
      /\ new.uri = req[r].uri /\ ~new.upstream
  <2> HIDE DEF r
  <2> QED BY <1>2 DEF RequestType
<1>4. \/ \E rc \in {"ok", "error"} : OutputFilter(r, new, LastPiece(q), rc) /\ Becomes(<<Call("finalize", r, rc)>>)
      \/ /\ Becomes(<<Call("finalize", r, "ok")>>)
         /\ req' = [req EXCEPT ![r] = q]
         /\ UNCHANGED <<c, posted, wire>>
  BY DEF ContentEnds
<1>5. LastPiece(q) \in Seq(ItemType) /\ \A i \in DOMAIN LastPiece(q) : LastPiece(q)[i].req = None
  <2> HIDE DEF q
  <2>1. MaxItems + 1 \in Nat
    BY HttpBounds
  <2> QED BY <1>3, <2>1, PieceType DEF LastPiece
<1> HIDE DEF r, q, new
<1>6. CASE \E rc \in {"ok", "error"} : OutputFilter(r, new, LastPiece(q), rc) /\ Becomes(<<Call("finalize", r, rc)>>)
  BY <1>1, <1>2, <1>3, <1>5, <1>6, LastOutput DEF r
<1>7. CASE /\ Becomes(<<Call("finalize", r, "ok")>>)
           /\ req' = [req EXCEPT ![r] = q]
           /\ UNCHANGED <<c, posted, wire>>
  <2>1. Changes(r, q)
    <3>1. LifeTypeOK /\ c \in ConnectionType
      BY DEF RequestInv, LifeTypeOK
    <3> QED BY <1>1, <1>2, <1>3, <1>7, <3>1, QuietChange
  <2>2. HandlerOK(r, q)
    <3>1. \A p : p.wh \in {req[r].wh, "empty"} /\ p.rh = req[r].rh /\ p.done = req[r].done /\ p.discard = req[r].discard
                /\ (p.upstream => req[r].upstream /\ p.wh = req[r].wh)
                => HandlerOK(r, p)
      BY <1>1, <1>2, MainGoes DEF r
    <3> QED BY <1>3, <3>1
  <2> DEFINE g == Call("finalize", r, "ok")
  <2>3. g \in CallType /\ IsWork(g) /\ g.r = r /\ g.fn = "finalize"
    BY <1>2 DEF CallType, Call, IsWork, IsDone, WorkFns, Codes
  <2>4. req'[r] = q
    BY <1>2, <1>7 DEF RequestInv, LifeTypeOK
  <2>5. ASSUME Frame' = g, NEW l \in {0, 1} PROVE CallOK(l)'
    BY <1>2, <1>3, <2>4, <2>5, FinalizeLive
  <2>6. q.uri = req[r].uri /\ (q.upstream => req[r].upstream) /\ q.wh \in {req[r].wh, "empty"}
    BY <1>3
  <2>7. Becomes(<<g>>)
    BY <1>7
  <2> HIDE DEF g
  <2> QED BY <1>1, <1>2, <2>1, <2>2, <2>3, <2>5, <2>6, <2>7, WorkBecomes DEF r
<1> QED BY <1>4, <1>6, <1>7

\* An error page is sent (ngx_http_send_special_response).
LEMMA KeepsSendSpecial ==
  ASSUME RequestInv, SendSpecial
  PROVE  RequestInv'
<1> DEFINE r == Frame.r
           q == req[r]
           new == [q EXCEPT !.last = TRUE]
<1>1. stack # <<>> /\ Frame.fn = "special" /\ made' = made /\ count' = count
  BY DEF SendSpecial, In
<1>2. IsWork(Frame) /\ Goes(r) /\ ~q.done /\ q.wh # "handler" /\ r \in Requests /\ q \in RequestType /\ ~q.upstream
  BY <1>1, LiveCall
<1>3. /\ new \in RequestType
      /\ new.postponed = q.postponed /\ new.parent = q.parent /\ new.done = q.done
      /\ new.discard = q.discard /\ new.items = q.items /\ new.wh = q.wh /\ new.rh = q.rh
      /\ new.uri = q.uri /\ ~new.upstream
  <2> HIDE DEF r, q
  <2> QED BY <1>2 DEF RequestType
<1>4. PICK rc \in {"ok", "error"} : OutputFilter(r, new, LastPiece(q), rc) /\ Becomes(<<Call("finalize", r, rc)>>)
  BY DEF SendSpecial
<1>5. LastPiece(q) \in Seq(ItemType) /\ \A i \in DOMAIN LastPiece(q) : LastPiece(q)[i].req = None
  <2> HIDE DEF q
  <2>1. MaxItems + 1 \in Nat
    BY HttpBounds
  <2> QED BY <1>2, <2>1, PieceType DEF LastPiece
<1> HIDE DEF new
<1> QED BY <1>1, <1>2, <1>3, <1>4, <1>5, LastOutput

\* The request is finalised without output.
LEMMA FinalizeQuietly ==
  ASSUME RequestInv, stack # <<>>, IsWork(Frame), NEW r, r = Frame.r, Goes(r), Frame.fn # "finalize",
         NEW p \in RequestType, req' = [req EXCEPT ![r] = p], UNCHANGED <<made, c, count, posted>>,
         p.postponed = req[r].postponed, p.parent = req[r].parent, p.done = req[r].done, p.discard = req[r].discard,
         p.items = req[r].items, p.wh = req[r].wh, p.rh = req[r].rh, p.uri = req[r].uri, ~p.upstream,
         req[r].wh # "handler",
         NEW rc \in {"ok", "special", "error", "timeout", "closed"}, Becomes(<<Call("finalize", r, rc)>>),
         req[r].done => rc = "ok" /\ r # Main /\ (Terminated \/ ~c.error)
  PROVE  RequestInv'
<1> DEFINE g == Call("finalize", r, rc)
<1>0. LifeTypeOK /\ c \in ConnectionType
  BY DEF RequestInv, LifeTypeOK
<1>1. /\ r \in Requests /\ req[r] \in RequestType
      /\ HandlerOK(r, p)
  BY MainGoes
<1>2. Changes(r, p) /\ req'[r] = p
  BY <1>0, <1>1, QuietChange
<1>3. g \in CallType /\ IsWork(g) /\ g.r = r /\ g.fn = "finalize" /\ g.rc = rc
  BY <1>1 DEF CallType, Call, IsWork, IsDone, WorkFns, Codes
<1>4. ASSUME Frame' = g, NEW l \in {0, 1} PROVE CallOK(l)'
  <2>1. CASE ~req[r].done
    BY <1>2, <1>4, <2>1, FinalizeLive
  <2>2. CASE req[r].done
    <3>1. rc = "ok" /\ r # Main /\ (Terminated' \/ ~c'.error) /\ ~req'[r].upstream /\ req'[r].wh # "handler"
      <4>1. Main \in Requests /\ req \in [Requests -> RequestType]
        BY <1>0, HttpBounds DEF LifeTypeOK
      <4>2. r # Main => Terminated' = Terminated
        BY <1>1, <1>2, <4>1 DEF Terminated, Changes
      <4> QED BY <1>2, <2>2, <4>2
    <3>2. Frame'.fn = "finalize" /\ Frame'.r = r /\ Frame'.rc = "ok"
      BY <1>3, <1>4, <3>1
    <3> QED BY <3>1, <3>2 DEF CallOK
  <2> QED BY <2>1, <2>2
<1>5. Becomes(<<g>>) /\ p.wh \in {req[r].wh, "empty"} /\ (p.upstream => req[r].upstream) /\ count' = count
  OBVIOUS
<1> HIDE DEF g
<1>6. c'.error => g.fn = "finalize" \/ (c.error /\ Frame.fn # "finalize")
  BY <1>3
<1> QED BY <1>1, <1>2, <1>3, <1>4, <1>5, <1>6, WorkBecomes

\* A handler fails, or asks for an error page.
LEMMA KeepsContentFails ==
  ASSUME RequestInv, ContentFails
  PROVE  RequestInv'
<1> DEFINE r == Frame.r
           p == [req[r] EXCEPT !.upstream = FALSE]
<1>1. stack # <<>> /\ Frame.fn \in {"content", "upstream"} /\ UNCHANGED <<made, c, count, posted>>
  BY DEF ContentFails, In, Content
<1>2. IsWork(Frame) /\ Goes(r) /\ ~req[r].done /\ req[r].wh # "handler" /\ r \in Requests /\ req[r] \in RequestType
  BY <1>1, LiveCall
<1>3. PICK rc \in {"error", "special"} : Becomes(<<Call("finalize", r, rc)>>)
  BY DEF ContentFails
<1>4. req' = [req EXCEPT ![r] = p]
  BY DEF ContentFails
<1>5. /\ p \in RequestType
      /\ p.postponed = req[r].postponed /\ p.parent = req[r].parent /\ p.done = req[r].done /\ p.discard = req[r].discard
      /\ p.items = req[r].items /\ p.wh = req[r].wh /\ p.rh = req[r].rh /\ p.uri = req[r].uri /\ ~p.upstream
  <2> HIDE DEF r
  <2> QED BY <1>2 DEF RequestType
<1> HIDE DEF p
<1> QED BY <1>1, <1>2, <1>3, <1>4, <1>5, FinalizeQuietly

\* An upstream is to send more.
LEMMA KeepsUpstreamWaits ==
  ASSUME RequestInv, UpstreamWaits
  PROVE  RequestInv'
<1> DEFINE r == Frame.r
<1>1. stack # <<>> /\ Frame.fn = "upstream" /\ UNCHANGED <<req, made, c, count, posted>> /\ Return
  BY DEF UpstreamWaits, In
<1>2. IsWork(Frame) /\ Goes(r) /\ ~req[r].done /\ req[r].wh # "handler" /\ r \in Requests /\ req[r] \in RequestType
  BY <1>1, LiveCall
<1>3. Changes(r, req[r])
  <2>1. LifeTypeOK /\ c \in ConnectionType
    BY DEF RequestInv, LifeTypeOK
  <2> QED BY <1>1, <1>2, <2>1, NoChange
<1>4. HandlerOK(r, req[r])
  BY <1>1, <1>2, MainGoes
<1> QED BY <1>1, <1>2, <1>3, <1>4, WorkReturns

-----------------------------------------------------------------------------
(* ngx_http_finalize_request() and write handlers that leave the count alone *)

\* What ngx_http_finalize_request() may rely on when it does not terminate the request.
LEMMA FinalizeCall ==
  ASSUME RequestInv, stack # <<>>, Frame.fn = "finalize", Frame.rc # "done", ~Fatal(Frame.rc)
  PROVE  /\ IsWork(Frame) /\ Goes(Frame.r) /\ ~c.error
         /\ Frame.r \in Requests /\ Frame.r \in 0..made /\ req[Frame.r] \in RequestType /\ Frame \in CallType
         /\ ~req[Frame.r].upstream /\ req[Frame.r].wh # "handler"
         /\ Frame.r = Main \/ Frame.rc = "special" => ~req[Frame.r].done
         /\ Frame.r = Main => ~Terminated
<1> DEFINE r == Frame.r
<1>1. IsWork(Frame) /\ Goes(r) /\ ~c.error
  BY DEF IsWork, IsDone, WorkFns, Goes, Fatal
<1>2. PICK d \in Nat, l \in {0, 1} : CallsOK("work", d, l)
  BY <1>1, WorkCall
<1>3. /\ CallOK(l) /\ r \in Requests /\ r \in 0..made /\ req[r] \in RequestType /\ Frame \in CallType
      /\ Terminated => Cleanups = {} /\ r # Main
  BY <1>1, <1>2, WorkFacts DEF RequestInv
<1>4. ~Terminated => \/ ~req[r].done /\ ~req[r].upstream
                     \/ Frame.rc = "ok" /\ r # Main /\ ~req[r].upstream
  BY <1>3 DEF CallOK
<1>5. req[r].wh # "handler" /\ (Frame.rc = "special" => ~req[r].done /\ ~req[r].upstream)
  BY <1>3 DEF CallOK
<1>6. Terminated => ~req[r].upstream
  BY <1>3 DEF Cleanups
<1> QED BY <1>1, <1>3, <1>4, <1>5, <1>6

\* A request is finalised with the code of an error page.
LEMMA KeepsFinalizeSpecial ==
  ASSUME RequestInv, FinalizeSpecial
  PROVE  RequestInv'
<1> DEFINE r == Frame.r
           g == Call("special", r, "ok")
<1>1. /\ stack # <<>> /\ Frame.fn = "finalize" /\ Frame.rc = "special" /\ ~Fatal(Frame.rc)
      /\ UNCHANGED <<req, made, count, posted>> /\ Becomes(<<g>>)
      /\ c' = [c EXCEPT !.wtimer = @ /\ r # Main]
  BY DEF FinalizeSpecial, Finalizing, In
<1>2. /\ IsWork(Frame) /\ Goes(r) /\ ~c.error /\ r \in Requests /\ req[r] \in RequestType
      /\ ~req[r].done /\ ~req[r].upstream /\ req[r].wh # "handler"
  BY <1>1, FinalizeCall
<1>3. LifeTypeOK /\ c \in ConnectionType
  BY DEF RequestInv, LifeTypeOK
<1>4. /\ c' \in ConnectionType /\ c'.data = c.data /\ c'.state = c.state /\ c'.resolver = c.resolver /\ c'.error = c.error
  <2> DEFINE w == c.wtimer /\ r # Main
  <2>1. c' = [c EXCEPT !.wtimer = w] /\ w \in BOOLEAN
    BY <1>1, <1>3 DEF ConnectionType
  <2> HIDE DEF w
  <2> QED BY <1>3, <2>1 DEF ConnectionType
<1>5. Changes(r, req[r]) /\ req'[r] = req[r]
  BY <1>1, <1>2, <1>3, <1>4, NoChange
<1>6. HandlerOK(r, req[r])
  BY <1>1, <1>2, MainGoes
<1>7. g \in CallType /\ IsWork(g) /\ g.r = r /\ g.fn = "special"
  BY <1>2 DEF CallType, Call, IsWork, IsDone, WorkFns, Codes
<1>8. ASSUME Frame' = g, NEW l \in {0, 1} PROVE CallOK(l)'
  BY <1>2, <1>5, <1>7, <1>8 DEF CallOK
<1> HIDE DEF g
<1>9. c'.error => g.fn = "finalize" \/ (c.error /\ Frame.fn # "finalize")
  BY <1>2, <1>4
<1> QED BY <1>1, <1>2, <1>5, <1>6, <1>7, <1>8, <1>9, WorkBecomes

\* A request whose output waits is not over (ngx_http_set_write_handler).
LEMMA KeepsFinalizePending ==
  ASSUME RequestInv, FinalizePending
  PROVE  RequestInv'
<1> DEFINE r == Frame.r
           p == [req[r] EXCEPT !.wh = "writer", !.rh = IF req[r].discard THEN "discard" ELSE "test"]
<1>1. /\ stack # <<>> /\ Frame.fn = "finalize" /\ Frame.rc = "ok" /\ ~Fatal(Frame.rc)
      /\ UNCHANGED <<made, count, posted>> /\ Return
      /\ c' = [c EXCEPT !.wtimer = TRUE]
      /\ req' = SetWriteHandler(r)
  BY DEF FinalizePending, FinalizingOk, Finalizing, In
<1>2. /\ IsWork(Frame) /\ Goes(r) /\ ~c.error /\ r \in Requests /\ req[r] \in RequestType
      /\ ~req[r].upstream /\ (r = Main => ~req[r].done)
  BY <1>1, FinalizeCall
<1>3. LifeTypeOK /\ c \in ConnectionType /\ req \in [Requests -> RequestType]
  BY DEF RequestInv, LifeTypeOK
<1>4. /\ c' \in ConnectionType /\ c'.data = c.data /\ c'.state = c.state /\ c'.resolver = c.resolver /\ c'.error = c.error
  BY <1>1, <1>3 DEF ConnectionType
<1>5. req' = [req EXCEPT ![r] = p]
  <2> HIDE DEF r
  <2> QED BY <1>1, <1>2, <1>3 DEF SetWriteHandler, RequestType
<1>6. /\ p \in RequestType
      /\ p.postponed = req[r].postponed /\ p.parent = req[r].parent /\ p.done = req[r].done /\ p.discard = req[r].discard
      /\ p.items = req[r].items /\ p.wh = "writer" /\ ~p.upstream
  <2> HIDE DEF r
  <2> QED BY <1>2 DEF RequestType, Handlers
<1> HIDE DEF p
<1>7. Changes(r, p)
  BY <1>1, <1>2, <1>3, <1>4, <1>5, <1>6, QuietChange
<1>8. HandlerOK(r, p)
  BY <1>2, <1>6 DEF HandlerOK
<1>9. ~c'.error
  BY <1>2, <1>4
<1> QED BY <1>1, <1>2, <1>7, <1>8, <1>9, WorkReturns

\* What a write handler may rely on.
LEMMA WriteCall ==
  ASSUME RequestInv, stack # <<>>, Frame.fn = "write"
  PROVE  /\ IsWork(Frame) /\ Frame.r \in Requests /\ Frame.r \in 0..made /\ req[Frame.r] \in RequestType /\ Frame \in CallType
         /\ Frame.rc \in {"ok", "timeout"} /\ (Frame.rc = "timeout" => Frame.r = c.data)
         /\ c.error /\ ~Terminated => ~req[Frame.r].done \/ Frame.r = Main
         /\ req[Frame.r].wh \notin {"empty", "terminate"} /\ (req[Frame.r].wh = "upstream" => req[Frame.r].upstream) => Goes(Frame.r)
         /\ req[Frame.r].upstream => ~req[Frame.r].done /\ req[Frame.r].wh = "upstream"
         /\ req[Frame.r].wh = "handler" => ~req[Frame.r].done
         /\ Frame.r = Main /\ req[Main].done => req[Main].wh \in {"empty", "terminate"}
<1> DEFINE r == Frame.r
<1>1. IsWork(Frame)
  BY DEF IsWork, IsDone, WorkFns
<1>2. PICK d \in Nat, l \in {0, 1} : CallsOK("work", d, l)
  BY <1>1, WorkCall
<1>3. /\ CallOK(l) /\ r \in Requests /\ r \in 0..made /\ req[r] \in RequestType /\ Frame \in CallType
  BY <1>1, <1>2, WorkFacts DEF RequestInv
<1>4. /\ Frame.rc \in {"ok", "timeout"} /\ (Frame.rc = "timeout" => r = c.data)
      /\ c.error /\ ~Terminated => ~req[r].done \/ r = Main
  BY <1>3 DEF CallOK
<1>5. req[r].wh \notin {"empty", "terminate"} /\ (req[r].wh = "upstream" => req[r].upstream) => Goes(r)
  BY DEF Goes
<1>6. HandlersOK
  BY DEF RequestInv
<1> QED BY <1>1, <1>3, <1>4, <1>5, <1>6 DEF HandlersOK

\* ngx_http_writer runs.
LEMMA KeepsWriter ==
  ASSUME RequestInv, Writer
  PROVE  RequestInv'
<1> DEFINE r == Frame.r
           q == req[r]
<1>0. LifeTypeOK /\ TreeOK /\ HandlersOK /\ req \in [Requests -> RequestType]
  BY DEF RequestInv, LifeTypeOK
<1>1. /\ stack # <<>> /\ Frame.fn = "write" /\ q.wh = "writer" /\ made' = made /\ count' = count
  BY DEF Writer, In
<1>2. /\ IsWork(Frame) /\ Goes(r) /\ r \in Requests /\ r \in 0..made /\ q \in RequestType /\ Frame \in CallType
      /\ Frame.rc = "timeout" => r = c.data
      /\ c.error /\ ~Terminated => ~q.done \/ r = Main
      /\ ~q.upstream /\ (r = Main => ~q.done)
  BY <1>1, WriteCall
<1>3. c.data = r => ~q.done
  <2>1. r # Main /\ c.data = r => ~q.done
    BY <1>0, ActiveIsLive
  <2> QED BY <1>2, <2>1
<1>4. req' = req => req' = [req EXCEPT ![r] = q]
  BY <1>0
<1>5. CASE Frame.rc = "timeout" /\ Becomes(<<Call("finalize", r, "timeout")>>) /\ UNCHANGED <<req, c, posted, wire>>
  BY <1>1, <1>2, <1>3, <1>4, <1>5, FinalizeQuietly
<1>6. ASSUME NEW rc \in {"ok", "error"}, OutputFilter(r, q, <<>>, rc),
             IF rc = "error"
             THEN Becomes(<<Call("finalize", r, "error")>>)
             ELSE IF req'[r].buffered \/ req'[r].postponed # <<>> \/ (r = Main /\ c'.buffered)
                  THEN Return
                  ELSE Becomes(<<Call("finalize", r, "ok")>>)
      PROVE  RequestInv'
  <2>1. rc = "error" => c.data = r
    BY <1>6 DEF OutputFilter, Holds
  <2>2. CASE Becomes(<<Call("finalize", r, rc)>>)
    <3>1. q.done => rc = "ok" /\ r # Main /\ (Terminated \/ ~c.error)
      BY <1>2, <1>3, <2>1
    <3> QED BY <1>1, <1>2, <1>6, <2>2, <3>1, NoPieces, LastOutput
  <2>3. CASE rc = "ok" /\ Return
    <3>1. q = req[r]
      OBVIOUS
    <3>2. PICK p \in RequestType :
           /\ Changes(r, p) /\ req'[r] = p
           /\ p.wh = q.wh /\ p.rh = q.rh /\ p.uri = q.uri /\ p.upstream = q.upstream
           /\ p.done = q.done /\ p.discard = q.discard
           /\ rc = "ok" => c'.error = c.error
           /\ rc = "error" => c'.error
      <4>1. Outputs(r, q, rc)
        BY <1>0, <1>1, <1>2, <1>6, OutputGoesOn
      <4> QED BY <4>1 DEF Outputs
    <3>3. HandlerOK(r, p)
      BY <1>1, <1>2, <3>2, MainGoes
    <3>4. c'.error => c.error /\ Frame.fn # "finalize"
      BY <1>1, <2>3, <3>2
    <3> QED BY <1>1, <1>2, <2>3, <3>2, <3>3, <3>4, WorkReturns
  <2> QED BY <1>6, <2>2, <2>3
<1> QED BY <1>5, <1>6 DEF Writer

\* The write handler of an upstream runs.
LEMMA KeepsUpstreamWrite ==
  ASSUME RequestInv, UpstreamWrite
  PROVE  RequestInv'
<1> DEFINE r == Frame.r
           q == req[r]
           ends == [req[r] EXCEPT !.upstream = FALSE]
<1>0. LifeTypeOK /\ TreeOK /\ HandlersOK /\ req \in [Requests -> RequestType] /\ c \in ConnectionType
  BY DEF RequestInv, LifeTypeOK
<1>1. /\ stack # <<>> /\ Frame.fn = "write" /\ q.wh = "upstream" /\ made' = made /\ count' = count
  BY DEF UpstreamWrite, In
<1>2. /\ IsWork(Frame) /\ (q.upstream => Goes(r)) /\ r \in Requests /\ r \in 0..made /\ q \in RequestType /\ Frame \in CallType
      /\ q.upstream => ~q.done
  BY <1>1, WriteCall
<1>3. /\ ends \in RequestType
      /\ ends.postponed = q.postponed /\ ends.parent = q.parent /\ ends.done = q.done /\ ends.discard = q.discard
      /\ ends.items = q.items /\ ends.wh = q.wh /\ ends.rh = q.rh /\ ends.uri = q.uri /\ ~ends.upstream
  <2> HIDE DEF r
  <2> QED BY <1>2 DEF RequestType
<1> HIDE DEF ends
<1>4. CASE /\ q.upstream /\ (c.error \/ Frame.rc = "timeout")
           /\ req' = [req EXCEPT ![r] = ends]
           /\ Becomes(<<IF c.error THEN Call("finalize", r, "closed") ELSE Call("ends", r, "none")>>)
           /\ UNCHANGED <<c, posted, wire>>
  <2>1. CASE c.error
    <3>1. Becomes(<<Call("finalize", r, "closed")>>)
      BY <1>4, <2>1
    <3> QED BY <1>1, <1>2, <1>3, <1>4, <3>1, FinalizeQuietly
  <2>2. CASE ~c.error
    <3> DEFINE g == Call("ends", r, "none")
    <3>1. Becomes(<<g>>)
      BY <1>4, <2>2
    <3>2. Changes(r, ends) /\ req'[r] = ends
      BY <1>0, <1>1, <1>2, <1>3, <1>4, QuietChange
    <3>3. HandlerOK(r, ends)
      BY <1>1, <1>2, <1>3, <1>4, MainGoes
    <3>4. g \in CallType /\ IsWork(g) /\ g.r = r /\ g.fn = "ends"
      BY <1>2 DEF CallType, Call, IsWork, IsDone, WorkFns, Codes
    <3>5. ASSUME Frame' = g, NEW l \in {0, 1} PROVE CallOK(l)'
      BY <1>1, <1>2, <1>3, <1>4, <3>2, <3>4, <3>5 DEF CallOK
    <3>6. c'.error => g.fn = "finalize" \/ (c.error /\ Frame.fn # "finalize")
      BY <1>4, <2>2
    <3> HIDE DEF g
    <3> QED BY <1>1, <1>2, <1>3, <1>4, <3>1, <3>2, <3>3, <3>4, <3>5, <3>6, WorkBecomes
  <2> QED BY <2>1, <2>2
<1>5. ASSUME q.upstream, NEW rc \in {"ok", "error"}, OutputFilter(r, IF rc = "ok" THEN req[r] ELSE ends, <<>>, rc),
             IF rc = "ok" THEN Return ELSE Becomes(<<Call("finalize", r, "error")>>)
      PROVE  RequestInv'
  <2>1. CASE rc = "error"
    <3>1. OutputFilter(r, ends, <<>>, rc) /\ Becomes(<<Call("finalize", r, rc)>>)
      BY <1>5, <2>1
    <3> QED BY <1>1, <1>2, <1>3, <1>5, <3>1, NoPieces, LastOutput
  <2>2. CASE rc = "ok"
    <3>1. q = req[r]
      OBVIOUS
    <3>2. OutputFilter(r, q, <<>>, rc) /\ Return
      BY <1>5, <2>2
    <3>3. PICK p \in RequestType :
           /\ Changes(r, p) /\ req'[r] = p
           /\ p.wh = q.wh /\ p.rh = q.rh /\ p.uri = q.uri /\ p.upstream = q.upstream
           /\ p.done = q.done /\ p.discard = q.discard
           /\ rc = "ok" => c'.error = c.error
           /\ rc = "error" => c'.error
      <4>1. Outputs(r, q, rc)
        BY <1>0, <1>1, <1>2, <3>2, OutputGoesOn
      <4> QED BY <4>1 DEF Outputs
    <3>4. HandlerOK(r, p)
      BY <1>1, <1>2, <1>5, <3>3, MainGoes
    <3>5. c'.error => c.error /\ Frame.fn # "finalize"
      BY <1>1, <2>2, <3>3
    <3> QED BY <1>1, <1>2, <1>5, <3>2, <3>3, <3>4, <3>5, WorkReturns
  <2> QED BY <2>1, <2>2
<1>6. CASE Return /\ UNCHANGED <<req, c, posted, wire>>
  <2>1. Changes(r, q)
    BY <1>0, <1>1, <1>2, <1>6, NoChange
  <2>2. HandlerOK(r, q)
    BY <1>1, <1>2, MainGoes
  <2> QED BY <1>1, <1>2, <1>6, <2>1, <2>2, WorkReturns
<1> QED BY <1>4, <1>5, <1>6 DEF UpstreamWrite, ends

\* The other write handlers run, but for ngx_http_terminate_handler.
LEMMA KeepsWriteHandler ==
  ASSUME RequestInv, WriteHandler, req[Frame.r].wh # "terminate"
  PROVE  RequestInv'
<1> DEFINE r == Frame.r
           q == req[r]
           p == [req[r] EXCEPT !.wh = "empty"]
<1>0. LifeTypeOK /\ req \in [Requests -> RequestType] /\ c \in ConnectionType
  BY DEF RequestInv, LifeTypeOK
<1>1. /\ stack # <<>> /\ Frame.fn = "write" /\ UNCHANGED <<made, c, posted, wire>>
  BY DEF WriteHandler, In
<1>2. /\ IsWork(Frame) /\ r \in Requests /\ q \in RequestType /\ Frame \in CallType
      /\ q.wh \notin {"empty", "terminate", "upstream"} => Goes(r)
      /\ c.error /\ ~Terminated => ~q.done \/ r = Main
      /\ q.upstream => q.wh = "upstream"
      /\ q.wh = "handler" => ~q.done
      /\ r = Main /\ q.done => q.wh \in {"empty", "terminate"}
  BY <1>1, WriteCall
<1>3. CASE /\ q.wh = "handler"
           /\ req' = [req EXCEPT ![r].wh = "empty"]
           /\ Becomes(<<Call("content", r, "none")>>)
           /\ UNCHANGED count
  <2> DEFINE g == Call("content", r, "none")
  <2>1. req' = [req EXCEPT ![r] = p]
    <3> HIDE DEF r
    <3> QED BY <1>0, <1>2, <1>3 DEF RequestType
  <2>2. /\ p \in RequestType
        /\ p.postponed = q.postponed /\ p.parent = q.parent /\ p.done = q.done /\ p.discard = q.discard
        /\ p.items = q.items /\ p.wh = "empty" /\ p.rh = q.rh /\ p.uri = q.uri /\ p.upstream = q.upstream
    <3> HIDE DEF r
    <3> QED BY <1>2 DEF RequestType, Handlers
  <2> HIDE DEF p
  <2>3. Changes(r, p) /\ req'[r] = p
    BY <1>0, <1>1, <1>2, <2>1, <2>2, QuietChange
  <2>4. HandlerOK(r, p)
    BY <1>2, <1>3, <2>2 DEF HandlerOK
  <2>5. g \in CallType /\ IsWork(g) /\ g.r = r /\ g.fn = "content"
    BY <1>2 DEF CallType, Call, IsWork, IsDone, WorkFns, Codes
  <2>6. ASSUME Frame' = g, NEW l \in {0, 1} PROVE CallOK(l)'
    BY <1>2, <1>3, <2>2, <2>3, <2>5, <2>6 DEF CallOK
  <2>7. c'.error => g.fn = "finalize" \/ (c.error /\ Frame.fn # "finalize")
    BY <1>1
  <2>8. Becomes(<<g>>) /\ count' = count
    BY <1>3
  <2> HIDE DEF g
  <2> QED BY <1>1, <1>2, <1>3, <2>2, <2>3, <2>4, <2>5, <2>6, <2>7, <2>8, WorkBecomes
<1>4. CASE q.wh = "finalizer" /\ Becomes(<<Call("finalize", r, "ok")>>) /\ UNCHANGED <<req, count>>
  <2>1. req' = [req EXCEPT ![r] = q]
    BY <1>0, <1>2, <1>4
  <2>2. ~q.upstream /\ (q.done => r # Main /\ (Terminated \/ ~c.error))
    BY <1>2, <1>4
  <2> QED BY <1>1, <1>2, <1>4, <2>1, <2>2, FinalizeQuietly
<1>5. CASE q.wh = "empty" /\ Return /\ UNCHANGED <<req, count>>
  <2>1. Changes(r, q)
    BY <1>0, <1>1, <1>2, <1>5, NoChange
  <2>2. HandlerOK(r, q)
    BY <1>1, <1>2, <1>5, MainGoes
  <2> QED BY <1>1, <1>2, <1>5, <2>1, <2>2, WorkReturns
<1> QED BY <1>3, <1>4, <1>5 DEF WriteHandler

-----------------------------------------------------------------------------
(* Handlers that count on the request *)

\* A handler waits for an upstream, and the request is counted for it.
LEMMA KeepsGoUpstream ==
  ASSUME RequestInv, GoUpstream
  PROVE  RequestInv'
<1> DEFINE r == Frame.r
           q == req[r]
           p == [q EXCEPT !.upstream = TRUE, !.wh = "upstream", !.rh = "check", !.left = IF q.discard THEN q.left ELSE 0]
           g == Call("finalize", r, "done")
<1>0. LifeTypeOK /\ TreeOK /\ HandlersOK /\ req \in [Requests -> RequestType] /\ c \in ConnectionType
  BY DEF RequestInv, LifeTypeOK
<1>1. stack # <<>> /\ Frame.fn = "content" /\ UNCHANGED <<made, c, posted>> /\ Becomes(<<g>>) /\ count' = count + 1
  BY DEF GoUpstream, In
<1>2. IsWork(Frame) /\ Goes(r) /\ ~q.done /\ r \in Requests /\ q \in RequestType
  BY <1>1, LiveCall
<1>3. PICK d \in Nat, l \in {0, 1} : CallsOK("work", d, l)
  BY <1>1, <1>2, WorkCall
<1>4. /\ Frame \in CallType /\ r \in 0..made /\ Shape(stack, "work", d, l)
      /\ l = 0 => c.state = "request"
      /\ Terminated => r # Main
  BY <1>0, <1>1, <1>2, <1>3, WorkFacts
<1>5. req' = [req EXCEPT ![r] = p]
  <2> HIDE DEF r
  <2> QED BY <1>0, <1>2 DEF GoUpstream, RequestType, r
<1>6. /\ p \in RequestType
      /\ p.postponed = q.postponed /\ p.parent = q.parent /\ p.done = q.done /\ p.discard = q.discard
      /\ p.items = q.items /\ p.wh = "upstream" /\ p.rh = "check"
  <2> HIDE DEF r, q
  <2> QED BY <1>2 DEF RequestType, Handlers
<1> HIDE DEF p
<1>7. Changes(r, p)
  BY <1>0, <1>1, <1>2, <1>5, <1>6, QuietChange
<1>8. HandlerOK(r, p)
  BY <1>2, <1>6 DEF HandlerOK
<1>9. g \in CallType /\ IsDone(g) /\ g.r = r
  BY <1>2 DEF CallType, Call, IsDone, WorkFns, Codes
<1> HIDE DEF g
<1>10. StackTypes /\ Shape(stack', "none", d + 1, l)
  <2>1. made' \in Nat /\ made <= made' /\ g.r <= made'
    BY <1>0, <1>1, <1>4, <1>9, MadeAreRequests
  <2> QED BY <1>0, <1>1, <1>4, <1>9, <2>1, BecomesOne DEF Kinds
<1>11. PICK k2 \in {"none", "work"}, e \in {0, 1} : k2 = "none" /\ e = 1
  OBVIOUS
<1>12. count' = count + e /\ Shape(stack', k2, d + e, l) /\ k2 # "work"
  BY <1>1, <1>10, <1>11
<1>13. c'.error => c.error /\ Frame.fn # "finalize"
  BY <1>1
<1>14. /\ k2 = "work" => Frame'.r = r /\ p.uri + e <= req[r].uri /\ CallOK(l)'
       /\ k2 = "work" /\ l = 0 => ~p.upstream /\ p.wh \in {"empty", "upstream"}
       /\ k2 = "work" /\ p.upstream => req[r].upstream
       /\ Terminated => k2 = "none" \/ (r # Main /\ count >= 2 + d)
  BY <1>11, <1>12
<1>15. (r = Main => ~Terminated) /\ (e = 1 => ~req[r].done)
  BY <1>2, <1>4
<1> QED BY <1>0, <1>3, <1>4, <1>7, <1>8, <1>10, <1>12, <1>13, <1>14, <1>15, RequestGoesOn

\* A request is redirected: it is counted, and the caller owes a call with NGX_DONE.
LEMMA KeepsInternalRedirect ==
  ASSUME RequestInv, InternalRedirect
  PROVE  RequestInv'
<1> DEFINE r == Frame.r
           q == req[r]
           p == [q EXCEPT !.uri = q.uri - 1, !.upstream = FALSE, !.wh = "empty",
                          !.errorPage = q.errorPage \/ Frame.fn = "special"]
           f == IF p.uri = 0 THEN Call("finalize", r, "special") ELSE Call("content", r, "none")
           g == Call("finalize", r, "done")
<1>0. LifeTypeOK /\ TreeOK /\ HandlersOK /\ req \in [Requests -> RequestType] /\ c \in ConnectionType
  BY DEF RequestInv, LifeTypeOK
<1>1. /\ stack # <<>> /\ Frame.fn \in {"content", "upstream", "special"} /\ UNCHANGED <<made, c, posted>>
      /\ count' = count + 1 /\ q.uri > 0
  BY DEF InternalRedirect, In, RedirectCount
<1>2. IsWork(Frame) /\ Goes(r) /\ ~q.done /\ r \in Requests /\ q \in RequestType
  BY <1>1, LiveCall
<1>3. PICK d \in Nat, l \in {0, 1} : CallsOK("work", d, l)
  BY <1>1, <1>2, WorkCall
<1>4. /\ Frame \in CallType /\ r \in 0..made /\ Shape(stack, "work", d, l)
      /\ l = 0 => c.state = "request"
      /\ Terminated => r # Main /\ count >= 2 + d
  BY <1>0, <1>1, <1>2, <1>3, WorkFacts
<1>5. q.uri \in 0..(MaxUri + 1) /\ q.uri \in Nat /\ q.uri - 1 \in 0..(MaxUri + 1)
  BY <1>1, <1>2, RequestFields, HttpBounds
<1>6. req' = [req EXCEPT ![r] = p]
  <2> HIDE DEF r
  <2> QED BY <1>0, <1>2 DEF InternalRedirect, RequestType, r
<1>7. /\ p \in RequestType
      /\ p.postponed = q.postponed /\ p.parent = q.parent /\ p.done = q.done /\ p.discard = q.discard
      /\ p.items = q.items /\ p.wh = "empty" /\ p.uri = q.uri - 1 /\ ~p.upstream
  <2>1. (q.errorPage \/ Frame.fn = "special") \in BOOLEAN
    OBVIOUS
  <2> HIDE DEF r, q
  <2> QED BY <1>2, <1>5, <2>1 DEF RequestType, Handlers
<1>8. Becomes(<<f, g>>)
  <2>1. req'[r] = p
    BY <1>0, <1>2, <1>6
  <2> HIDE DEF p
  <2> QED BY <2>1 DEF InternalRedirect
<1> HIDE DEF p
<1>9. Changes(r, p) /\ req'[r] = p
  BY <1>0, <1>1, <1>2, <1>6, <1>7, QuietChange
<1>10. HandlerOK(r, p)
  BY <1>2, <1>7 DEF HandlerOK
<1>11. g \in CallType /\ IsDone(g) /\ g.r = r /\ f \in CallType /\ IsWork(f) /\ f.r = r
       /\ (f.fn = "content" \/ f = Call("finalize", r, "special"))
  BY <1>2 DEF CallType, Call, IsDone, IsWork, WorkFns, Codes
<1> HIDE DEF f, g
<1>12. StackTypes /\ Frame' = f /\ Shape(stack', "work", d + 1, l)
  <2>1. g.r <= made /\ f.r <= made
    BY <1>0, <1>4, <1>11, MadeAreRequests
  <2> QED BY <1>0, <1>1, <1>4, <1>8, <1>11, <2>1, BecomesTwo
<1>13. CallOK(l)'
  <2>1. CASE f.fn = "content"
    BY <1>2, <1>7, <1>9, <1>11, <1>12, <2>1 DEF CallOK
  <2>2. CASE f = Call("finalize", r, "special")
    BY <1>2, <1>7, <1>9, <1>12, <2>2, FinalizeLive
  <2> QED BY <1>11, <2>1, <2>2
<1>14. PICK k2 \in {"none", "work"}, e \in {0, 1} : k2 = "work" /\ e = 1
  OBVIOUS
<1>15. count' = count + e /\ Shape(stack', k2, d + e, l)
  BY <1>1, <1>12, <1>14
<1>16. c'.error => c.error /\ Frame.fn # "finalize"
  BY <1>1
<1>17. /\ k2 = "work" => Frame'.r = r /\ p.uri + e <= req[r].uri /\ CallOK(l)'
       /\ k2 = "work" /\ l = 0 => ~p.upstream /\ p.wh \in {"empty", "upstream"}
       /\ k2 = "work" /\ p.upstream => req[r].upstream
       /\ Terminated => k2 = "none" \/ (r # Main /\ count >= 2 + d)
  <2>1. Frame'.r = r
    BY <1>11, <1>12
  <2>2. p.uri + e <= req[r].uri
    BY <1>5, <1>7, <1>14
  <2> QED BY <1>4, <1>7, <1>13, <2>1, <2>2
<1>18. (r = Main => ~Terminated) /\ (e = 1 => ~req[r].done)
  BY <1>2, <1>4
<1> QED BY <1>0, <1>3, <1>4, <1>9, <1>10, <1>12, <1>15, <1>16, <1>17, <1>18, RequestGoesOn

-----------------------------------------------------------------------------
(* The end of a request *)

\* Calls and counts change, the requests do not.
LEMMA RequestsKept ==
  ASSUME LifeTypeOK, TreeOK, HandlersOK, UNCHANGED <<req, made>>, c' \in ConnectionType, c'.data = c.data,
         count' \in Nat, StackTypes, PostedTypes
  PROVE  /\ LifeTypeOK' /\ TreeOK' /\ HandlersOK' /\ Live' = Live /\ Discarding' = Discarding
         /\ Terminated' = Terminated /\ Cleanups' = Cleanups
<1>1. LifeTypeOK'
  BY DEF LifeTypeOK, StackTypes, PostedTypes
<1>2. TreeOK'
  <2>1. \A x \in Requests : /\ req'[x].parent = req[x].parent /\ req'[x].done = req[x].done
                            /\ req'[x].postponed = req[x].postponed /\ req'[x].items >= req[x].items
    BY RequestFields DEF LifeTypeOK
  <2>2. made' = made /\ req' \in [Requests -> RequestType]
    BY DEF LifeTypeOK
  <2> QED BY <2>1, <2>2, TreeKept
<1>3. HandlersOK' /\ Live' = Live /\ Discarding' = Discarding /\ Terminated' = Terminated /\ Cleanups' = Cleanups
  BY DEF HandlersOK, Live, Discarding, Terminated, Cleanups
<1> QED BY <1>1, <1>2, <1>3

\* Nothing is posted.
LEMMA SamePosted ==
  ASSUME LifeTypeOK, made' = made, posted' = posted
  PROVE  PostedTypes
BY DEF LifeTypeOK, PostedTypes

\* Fewer upstreams are left than requests count.
LEMMA FewerCleanups ==
  ASSUME LifeTypeOK, HandlersOK, NEW S, S \subseteq Live, S \cap Cleanups = {}, IsFiniteSet(S)
  PROVE  Cardinality(Cleanups) + Cardinality(S) <= Cardinality(Live)
<1>1. IsFiniteSet(Live) /\ IsFiniteSet(Cleanups) /\ Cleanups \subseteq Live
  BY LiveFacts
<1>2. Cardinality(Cleanups \cup S) = Cardinality(Cleanups) + Cardinality(S) - Cardinality(Cleanups \cap S)
  BY <1>1, FS_Union
<1>3. Cardinality(Cleanups \cap S) = 0
  <2>1. Cleanups \cap S = {}
    OBVIOUS
  <2> QED BY <2>1, FS_EmptySet
<1>4. Cardinality(Cleanups \cup S) <= Cardinality(Live)
  BY <1>1, FS_Subset
<1>5. Cardinality(Cleanups) \in Nat /\ Cardinality(S) \in Nat /\ Cardinality(Live) \in Nat
  BY <1>1, FS_CardinalityType
<1>6. Cardinality(Cleanups \cup S) = Cardinality(Cleanups) + Cardinality(S)
  <2> DEFINE a == Cardinality(Cleanups \cup S) b == Cardinality(Cleanups) e == Cardinality(S) f == Cardinality(Cleanups \cap S)
  <2>1. a = b + e - f /\ f = 0 /\ b \in Nat /\ e \in Nat
    BY <1>2, <1>3, <1>5
  <2> HIDE DEF a, b, e, f
  <2>2. a = b + e
    BY <2>1
  <2> QED BY <2>2 DEF a, b, e
<1> QED BY <1>4, <1>6

\* A request is finalised with an error.
LEMMA KeepsFinalizeError ==
  ASSUME RequestInv, FinalizeError
  PROVE  RequestInv'
<1> DEFINE r == Frame.r
           g == Call("terminate", r, "ok")
<1>0. LifeTypeOK /\ TreeOK /\ HandlersOK /\ req \in [Requests -> RequestType] /\ c \in ConnectionType /\ count \in Nat
  BY DEF RequestInv, LifeTypeOK
<1>1. /\ stack # <<>> /\ Frame.fn = "finalize" /\ Frame.rc # "done" /\ Fatal(Frame.rc)
      /\ UNCHANGED <<req, made, c, count, posted>> /\ Becomes(<<g>>)
  BY DEF FinalizeError, Finalizing, In
<1>2. IsWork(Frame)
  BY <1>1 DEF IsWork, IsDone, WorkFns
<1>3. PICK d \in Nat, l \in {0, 1} : CallsOK("work", d, l)
  BY <1>1, <1>2, WorkCall
<1>4. /\ Frame \in CallType /\ r \in Requests /\ r \in 0..made /\ req[r] \in RequestType
      /\ Allocated /\ CallOK(l) /\ Shape(stack, "work", d, l)
      /\ l = 0 => AloneOK /\ c.state = "request"
      /\ Terminated => Cleanups = {} /\ l = 1 /\ c.state = "request"
      /\ c.state = "linger" => Live = {} /\ req[r].done /\ l = 1
  BY <1>0, <1>1, <1>3, WorkFacts
<1>5. /\ OwedOK("work", d) /\ CountOK("work", d, l) /\ TerminatedOK("work", d, l)
      /\ LingerOK("work", d, l) /\ PostedOK("work", d, l)
  BY <1>3 DEF CallsOK
<1>6. ~Terminated => (~req[r].done /\ ~req[r].upstream) \/ req[Main].discard
  BY <1>1, <1>4 DEF CallOK, Fatal
<1>7. c.state = "request"
  <2>1. c.state = "linger" => ~Terminated /\ ~req[Main].discard
    BY <1>5 DEF LingerOK
  <2> QED BY <1>4, <1>6, <2>1 DEF Allocated
<1>8. g \in CallType /\ g.fn = "terminate" /\ g.r = r
  BY <1>4 DEF CallType, Call, Codes
<1> HIDE DEF g
<1>9. StackTypes /\ stack' # <<>> /\ Shape(stack', "terminate", d, l)
  <2>1. made' \in Nat /\ made <= made' /\ g.r <= made'
    BY <1>0, <1>1, <1>4, <1>8, MadeAreRequests
  <2> QED BY <1>0, <1>1, <1>4, <1>8, <2>1, BecomesOne DEF Kinds
<1>10. /\ LifeTypeOK' /\ TreeOK' /\ HandlersOK' /\ Live' = Live /\ Discarding' = Discarding
       /\ Terminated' = Terminated /\ Cleanups' = Cleanups
  BY <1>0, <1>1, <1>9, RequestsKept, SamePosted
<1>11. /\ Cardinality(Live) \in Nat /\ Cardinality(Cleanups) \in Nat /\ Discarding \in {0, 1}
       /\ TopOwed("work") = 0 /\ TopOwed("terminate") = 0
  BY <1>0, LiveFacts DEF TopOwed
<1>12. count >= 1 + Cardinality(Cleanups) + d + Waiting(l)
  <2>1. CASE Terminated
    <3>1. count >= 1 + d + TopOwed("work") + Waiting(l)
      BY <1>1, <1>5, <1>7, <2>1 DEF TerminatedOK
    <3>2. Cardinality(Cleanups) = 0 /\ Waiting(l) = 0
      BY <1>4, <2>1, FS_EmptySet DEF Waiting
    <3> QED BY <1>11, <3>1, <3>2
  <2>2. CASE ~Terminated
    <3>1. count = Cardinality(Live) + Discarding + d
      BY <1>5, <1>7, <1>11, <2>2 DEF CountOK, Normal
    <3>2. CASE ~req[r].done /\ ~req[r].upstream
      <4>1. r \in Live /\ r \notin Cleanups
        BY <1>4, <3>2 DEF Live, Cleanups
      <4>2. Cardinality(Cleanups) + 1 <= Cardinality(Live)
        <5>1. {r} \subseteq Live /\ {r} \cap Cleanups = {} /\ IsFiniteSet({r}) /\ Cardinality({r}) = 1
          BY <4>1, FS_Singleton
        <5> QED BY <1>0, <5>1, FewerCleanups
      <4>3. CASE l = 0 /\ Finishing(c.data)
        <5>1. c.data # Main /\ c.data \in 1..made /\ ~req[c.data].done
          BY <1>0, <4>3, ActiveIsLive DEF Finishing
        <5>2. c.data \in Live /\ c.data \notin Cleanups
          <6>1. c.data \in Requests /\ c.data \in 0..made
            BY <1>0, <5>1, MadeAreRequests DEF ConnectionType
          <6> QED BY <1>0, <4>3, <5>1, <6>1 DEF Live, Cleanups, HandlersOK, Finishing
        <5>3. c.data # r
          BY <1>4, <4>3 DEF AloneOK, Finishing
        <5>4. {r, c.data} \subseteq Live /\ {r, c.data} \cap Cleanups = {}
          BY <4>1, <5>2
        <5>5. IsFiniteSet({r, c.data}) /\ Cardinality({r, c.data}) = 2
          <6>1. IsFiniteSet({c.data}) /\ Cardinality({c.data}) = 1 /\ r \notin {c.data}
            BY <5>3, FS_Singleton
          <6>2. {r, c.data} = {c.data} \cup {r}
            OBVIOUS
          <6> QED BY <6>1, <6>2, FS_AddElement
        <5>6. Cardinality(Cleanups) + 2 <= Cardinality(Live)
          BY <1>0, <5>4, <5>5, FewerCleanups
        <5>7. Waiting(l) = Discarding + 1
          BY <4>3 DEF Waiting
        <5> QED BY <1>11, <3>1, <5>6, <5>7
      <4>4. CASE ~(l = 0 /\ Finishing(c.data))
        <5>1. Waiting(l) \in {0, Discarding}
          BY <1>11, <4>4 DEF Waiting
        <5> QED BY <1>11, <3>1, <4>2, <5>1
      <4> QED BY <4>3, <4>4
    <3>3. CASE req[Main].discard /\ ~(~req[r].done /\ ~req[r].upstream)
      <4>1. l = 1 /\ Waiting(l) = 0 /\ Discarding = 1
        BY <1>4, <3>3 DEF AloneOK, Waiting, Discarding
      <4>2. Cardinality(Cleanups) <= Cardinality(Live)
        BY <1>0, LiveFacts
      <4> QED BY <1>11, <3>1, <4>1, <4>2
    <3> QED BY <1>6, <2>2, <3>2, <3>3
  <2> QED BY <2>1, <2>2
<1>13. OwedOK("terminate", d)'
  <2>1. d <= MaxUri + 1 - req[r].uri /\ req[r].uri \in Nat /\ MaxUri \in Nat
    BY <1>4, <1>5, RequestFields, HttpBounds DEF OwedOK
  <2> QED BY <1>11, <2>1 DEF OwedOK
<1>14. CountOK("terminate", d, l)'
  <2>1. count >= 1 /\ count <= Cardinality(Live) + Discarding + d
    BY <1>5, <1>7, <1>11 DEF CountOK
  <2>2. Waiting(l)' = Waiting(l)
    BY <1>1, <1>10 DEF Waiting, Finishing
  <2> QED BY <1>1, <1>10, <1>11, <1>12, <2>1, <2>2 DEF CountOK, Normal
<1>15. PostedOK("terminate", d, l)'
  BY <1>1, <1>5, <1>7 DEF PostedOK, Normal, Allocated
<1>16. CallsOK("terminate", d, l)'
  BY <1>1, <1>4, <1>7, <1>9, <1>13, <1>14, <1>15 DEF CallsOK, TerminatedOK, LingerOK, FreedOK, Allocated
<1> QED BY <1>10, <1>16 DEF RequestInv, Kinds

\* ngx_http_close_request gives a count back, or frees the request.
LEMMA KeepsClose ==
  ASSUME RequestInv, Close
  PROVE  RequestInv'
<1>0. LifeTypeOK /\ TreeOK /\ HandlersOK /\ req \in [Requests -> RequestType] /\ c \in ConnectionType /\ count \in Nat
  BY DEF RequestInv, LifeTypeOK
<1>1. /\ stack # <<>> /\ Frame.fn = "close" /\ count' = count - 1
      /\ c' = IF count = 1 THEN [c EXCEPT !.state = "closed"] ELSE c
      /\ UNCHANGED <<req, made, posted>> /\ Return
  BY DEF Close, In
<1>2. PICK k \in Kinds, d \in Nat, l \in {0, 1} : CallsOK(k, d, l)
  BY DEF RequestInv
<1>3. /\ Shape(stack, k, d, l) /\ OwedOK(k, d) /\ CountOK(k, d, l) /\ TerminatedOK(k, d, l)
      /\ LingerOK(k, d, l) /\ FreedOK(k, d) /\ PostedOK(k, d, l)
  BY <1>2 DEF CallsOK
<1>4. k \in {"close", "cleanup"}
  BY <1>0, <1>1, <1>3, TopCall
<1>5. c.state \in {"request", "linger"}
  BY <1>3, <1>4 DEF FreedOK, Allocated
<1>6. /\ StackTypes
      /\ k = "close" => Shape(stack', "none", d, l)
      /\ k = "cleanup" => Shape(stack', "terminate", d, l)
  BY <1>0, <1>1, <1>3, Returns
<1>7. /\ Cardinality(Live) \in Nat /\ Cardinality(Cleanups) \in Nat /\ Discarding \in {0, 1} /\ Waiting(l) \in {0, 1, 2}
      /\ TopOwed("close") = 1 /\ TopOwed("cleanup") = 1 /\ TopOwed("none") = 0 /\ TopOwed("terminate") = 0 /\ MaxUri \in Nat
  BY <1>0, LiveFacts, HttpBounds DEF TopOwed, Waiting
<1>8. count >= 1
  BY <1>3, <1>5 DEF CountOK, LingerOK
<1>9. /\ c' \in ConnectionType /\ c'.data = c.data /\ c'.error = c.error /\ c'.resolver = c.resolver
      /\ c'.state = IF count = 1 THEN "closed" ELSE c.state
  BY <1>0, <1>1 DEF ConnectionType
<1>10. /\ LifeTypeOK' /\ TreeOK' /\ HandlersOK' /\ Live' = Live /\ Discarding' = Discarding
       /\ Terminated' = Terminated /\ Cleanups' = Cleanups
  <2>1. count' \in Nat
    BY <1>0, <1>1, <1>8
  <2> QED BY <1>0, <1>1, <1>6, <1>9, <2>1, RequestsKept, SamePosted
<1>11. Waiting(l)' = Waiting(l)
  BY <1>1, <1>9, <1>10 DEF Waiting, Finishing
<1>12. CASE k = "cleanup"
  <2>1. c.state = "request"
    BY <1>3, <1>5, <1>12 DEF LingerOK
  <2>2. /\ count >= 1 + Cardinality(Cleanups) + d + 1 + Waiting(l)
        /\ count <= Cardinality(Live) + Discarding + d + 1
    BY <1>3, <1>7, <1>12, <2>1 DEF CountOK
  <2>3. count # 1 /\ c'.state = "request" /\ count' >= 1 /\ count' <= Cardinality(Live) + Discarding + d
        /\ count' >= 1 + Cardinality(Cleanups) + d + Waiting(l)
    BY <1>0, <1>1, <1>7, <1>9, <2>1, <2>2
  <2>4. CountOK("terminate", d, l)'
    BY <1>7, <1>10, <1>11, <2>3 DEF CountOK, Normal
  <2>5. OwedOK("terminate", d)'
    BY <1>3, <1>7, <1>12 DEF OwedOK
  <2>6. PostedOK("terminate", d, l)'
    BY <1>1, <1>3, <1>9, <1>12, <2>1 DEF PostedOK, Normal, Allocated
  <2>7. CallsOK("terminate", d, l)'
    BY <1>6, <1>12, <2>3, <2>4, <2>5, <2>6 DEF CallsOK, TerminatedOK, LingerOK, FreedOK, Allocated
  <2> QED BY <1>10, <2>7 DEF RequestInv, Kinds
<1>13. CASE k = "close"
  <2>1. OwedOK("none", d)'
    BY <1>3, <1>7, <1>13 DEF OwedOK
  <2>2. CASE count = 1
    <3>1. d = 0
      <4>1. CASE c.state = "linger"
        BY <1>3, <4>1 DEF LingerOK
      <4>2. CASE c.state = "request" /\ ~Terminated
        <5>1. count = Cardinality(Live) + Discarding + d + 1
          BY <1>3, <1>7, <1>13, <4>2 DEF CountOK, Normal
        <5> QED BY <1>7, <2>2, <5>1
      <4>3. CASE c.state = "request" /\ Terminated
        <5>1. d = 0 \/ count >= 1 + d + 1 + Waiting(l)
          BY <1>3, <1>7, <1>13, <4>3 DEF TerminatedOK
        <5> QED BY <1>7, <2>2, <5>1
      <4> QED BY <1>5, <4>1, <4>2, <4>3
    <3>2. c'.state = "closed" /\ count' = 0
      BY <1>1, <1>9, <2>2
    <3>3. CallsOK("none", d, l)'
      BY <1>6, <1>13, <2>1, <3>1, <3>2 DEF CallsOK, CountOK, TerminatedOK, LingerOK, FreedOK, PostedOK, Allocated
    <3> QED BY <1>10, <3>3 DEF RequestInv, Kinds
  <2>3. CASE count # 1
    <3>1. c.state = "request" /\ c'.state = "request"
      BY <1>3, <1>5, <1>9, <2>3 DEF LingerOK
    <3>2. CountOK("none", d, l)'
      <4>1. /\ count <= Cardinality(Live) + Discarding + d + 1
            /\ ~Terminated => count = Cardinality(Live) + Discarding + d + 1
        BY <1>3, <1>7, <1>13, <3>1 DEF CountOK, Normal
      <4>2. /\ count' >= 1 /\ count' <= Cardinality(Live) + Discarding + d
            /\ ~Terminated => count' = Cardinality(Live) + Discarding + d
        BY <1>0, <1>1, <1>7, <1>8, <2>3, <4>1
      <4> QED BY <1>7, <1>10, <4>2 DEF CountOK, Normal
    <3>3. TerminatedOK("none", d, l)'
      <4> SUFFICES ASSUME Terminated
                   PROVE  /\ posted' # <<>> /\ posted'[1] = Main
                          /\ count' >= 1 + d + Waiting(l)
                          /\ l = 0 => Cleanups = {}
        BY <1>7, <1>10, <1>11 DEF TerminatedOK
      <4>1. /\ posted # <<>> /\ posted[1] = Main /\ count >= 1 + d + 1 + Waiting(l)
            /\ l = 0 => Cleanups = {}
        BY <1>3, <1>7, <1>13, <2>3, <3>1 DEF TerminatedOK
      <4> QED BY <1>0, <1>1, <1>7, <4>1
    <3>4. PostedOK("none", d, l)'
      BY <1>1, <1>3, <1>9, <1>10, <1>13, <3>1 DEF PostedOK, Normal, Allocated
    <3>5. CallsOK("none", d, l)'
      BY <1>6, <1>13, <2>1, <3>1, <3>2, <3>3, <3>4 DEF CallsOK, LingerOK, FreedOK, Allocated
    <3> QED BY <1>10, <3>5 DEF RequestInv, Kinds
  <2> QED BY <2>2, <2>3
<1> QED BY <1>4, <1>12, <1>13

\* The loop over posted requests runs the first of them, or ends.
LEMMA KeepsRunPostedRequests ==
  ASSUME RequestInv, RunPostedRequests
  PROVE  RequestInv'
<1>0. LifeTypeOK /\ TreeOK /\ HandlersOK /\ req \in [Requests -> RequestType] /\ c \in ConnectionType /\ count \in Nat
      /\ posted \in Seq(Requests)
  BY DEF RequestInv, LifeTypeOK
<1>1. stack # <<>> /\ Frame.fn = "run_posted" /\ UNCHANGED <<req, made, c, count>>
  BY DEF RunPostedRequests, In
<1>2. PICK k \in Kinds, d \in Nat, l \in {0, 1} : CallsOK(k, d, l)
  BY DEF RequestInv
<1>3. /\ Shape(stack, k, d, l) /\ CountOK(k, d, l) /\ TerminatedOK(k, d, l)
      /\ LingerOK(k, d, l) /\ FreedOK(k, d) /\ PostedOK(k, d, l)
  BY <1>2 DEF CallsOK
<1>4. k = "none" /\ d = 0 /\ l = 1
  BY <1>0, <1>1, <1>3, TopCall
<1>5. TopOwed("none") = 0 /\ TopOwed("work") = 0 /\ MaxUri \in Nat
  BY HttpBounds DEF TopOwed
<1>6. CASE Stops
  <2>1. Return /\ posted' = posted
    BY <1>6 DEF RunPostedRequests
  <2>2. StackTypes /\ Shape(stack', "none", 0, 0)
    BY <1>0, <1>1, <1>3, <1>4, <2>1, Returns
  <2>3. /\ LifeTypeOK' /\ TreeOK' /\ HandlersOK' /\ Live' = Live /\ Discarding' = Discarding
        /\ Terminated' = Terminated /\ Cleanups' = Cleanups
    BY <1>0, <1>1, <2>1, <2>2, RequestsKept, SamePosted
  <2>4. CountOK("none", 0, 0)' /\ LingerOK("none", 0, 0)' /\ FreedOK("none", 0)'
    BY <1>1, <1>3, <1>4, <1>5, <2>3 DEF CountOK, LingerOK, FreedOK, Normal, Allocated
  <2>5. TerminatedOK("none", 0, 0)'
    BY <1>1, <1>3, <1>4, <1>6, <2>3 DEF TerminatedOK, Stops, Allocated
  <2>6. PostedOK("none", 0, 0)'
    <3>1. Allocated' => posted' = <<>>
      BY <1>1, <1>6, <2>1 DEF Stops, Allocated
    <3>2. ToSet(<<>>) = {}
      BY DEF ToSet, Range
    <3> QED BY <3>1, <3>2 DEF PostedOK
  <2>7. OwedOK("none", 0)'
    BY <1>5 DEF OwedOK
  <2>8. CallsOK("none", 0, 0)'
    BY <2>2, <2>4, <2>5, <2>6, <2>7 DEF CallsOK
  <2> QED BY <2>3, <2>8 DEF RequestInv, Kinds
<1>7. CASE ~Stops
  <2> DEFINE h == Head(posted)
             f == Call("write", h, "ok")
  <2>1. Allocated /\ posted # <<>> /\ posted' = Tail(posted) /\ stack' = <<f>> \o stack
    BY <1>7 DEF RunPostedRequests, Stops
  <2>2. /\ 1 \in DOMAIN posted /\ h = posted[1] /\ h \in Requests /\ h \in ToSet(posted) /\ h <= made
        /\ Tail(posted) \in Seq(Requests) /\ Len(Tail(posted)) = Len(posted) - 1
        /\ \A i \in 1..(Len(posted) - 1) : Tail(posted)[i] = posted[i + 1]
    <3>1. posted # <<>> /\ 1 \in DOMAIN posted
      BY <1>0, <2>1, PostedFacts
    <3>2. h = posted[1] /\ Tail(posted) \in Seq(Requests) /\ Len(Tail(posted)) = Len(posted) - 1
          /\ \A i \in 1..(Len(posted) - 1) : Tail(posted)[i] = posted[i + 1]
      BY <1>0, <3>1, HeadTailProperties
    <3>3. posted[1] \in Requests
      BY <1>0, <3>1
    <3>4. posted[1] \in ToSet(posted)
      BY <1>0, <3>1, PostedFacts
    <3> QED BY <1>0, <3>1, <3>2, <3>3, <3>4 DEF LifeTypeOK
  <2> HIDE DEF h
  <2>3. f \in CallType /\ IsWork(f) /\ f.fn = "write" /\ f.r = h /\ f.rc = "ok"
    BY <2>2 DEF CallType, Call, IsWork, IsDone, WorkFns, Codes
  <2> HIDE DEF f
  <2>4. Shape(stack', "work", 0, 1) /\ stack' # <<>> /\ Frame' = f
    <3>1. stack \in Seq(CallType)
      BY <1>0 DEF LifeTypeOK
    <3>2. Shape(stack, "none", 0, 1)
      BY <1>3, <1>4
    <3>3. LET q == <<f>> \o stack IN q # <<>> /\ Head(q) = f /\ Shape(q, "work", 0, 1)
      <4>1. /\ <<f>> \o stack # <<>> /\ Head(<<f>> \o stack) = f
            /\ Shape(stack, "none", 0, 1) /\ IsWork(f) => Shape(<<f>> \o stack, "work", 0, 1)
        BY <2>3, <3>1, Pushed
      <4> QED BY <2>3, <3>2, <4>1
    <3> QED BY <2>1, <3>3 DEF Frame
  <2>5. StackTypes
    <3>1. stack \in Seq(CallType) /\ made \in Nat /\ \A i \in DOMAIN stack : stack[i].r <= made
      BY <1>0, MadeAreRequests DEF LifeTypeOK
    <3> QED BY <1>1, <2>1, <2>2, <2>3, <3>1, OneMoreCall DEF StackTypes
  <2>6. PostedTypes /\ \A x \in ToSet(posted') : x \in ToSet(posted)
    <3>1. DOMAIN posted = 1..Len(posted) /\ Len(posted) \in Nat /\ DOMAIN Tail(posted) = 1..Len(Tail(posted))
      BY <1>0, <2>2, LenProperties
    <3>2. \A i \in DOMAIN posted' : i + 1 \in DOMAIN posted /\ posted'[i] = posted[i + 1]
      BY <2>1, <2>2, <3>1
    <3>3. \A x \in ToSet(posted') : \E i \in DOMAIN posted' : posted'[i] = x
      BY DEF ToSet, Range
    <3> QED BY <1>0, <1>1, <2>1, <2>2, <3>2, <3>3, PostedFacts DEF PostedTypes, LifeTypeOK
  <2>7. /\ LifeTypeOK' /\ TreeOK' /\ HandlersOK' /\ Live' = Live /\ Discarding' = Discarding
        /\ Terminated' = Terminated /\ Cleanups' = Cleanups
    BY <1>0, <1>1, <2>5, <2>6, RequestsKept
  <2>8. WorkOK(1)'
    <3>1. c.error /\ ~Terminated => ~req[h].done
      BY <1>3, <1>4, <2>1, <2>2 DEF PostedOK, Normal
    <3> QED BY <1>1, <2>3, <2>4, <2>7, <3>1 DEF WorkOK, CallOK
  <2>9. OwedOK("work", 0)'
    <3>1. req[h].uri \in Nat /\ req[h].uri <= MaxUri + 1
      BY <1>0, <1>5, <2>2, RequestFields
    <3> QED BY <1>1, <1>5, <2>3, <2>4, <3>1 DEF OwedOK
  <2>10. CountOK("work", 0, 1)' /\ LingerOK("work", 0, 1)' /\ FreedOK("work", 0)'
    BY <1>1, <1>3, <1>4, <1>5, <2>1, <2>7 DEF CountOK, LingerOK, FreedOK, Normal, Allocated
  <2>11. TerminatedOK("work", 0, 1)'
    BY <1>1, <1>3, <1>4, <2>2, <2>3, <2>4, <2>7 DEF TerminatedOK
  <2>12. PostedOK("work", 0, 1)'
    BY <1>1, <1>3, <1>4, <2>1, <2>6, <2>7 DEF PostedOK, Normal
  <2>13. CallsOK("work", 0, 1)'
    BY <2>4, <2>8, <2>9, <2>10, <2>11, <2>12 DEF CallsOK
  <2> QED BY <2>7, <2>13 DEF RequestInv, Kinds
<1> QED BY <1>6, <1>7

\* ngx_http_terminate_handler closes the request for everybody.
LEMMA KeepsTerminateHandler ==
  ASSUME RequestInv, WriteHandler, req[Frame.r].wh = "terminate"
  PROVE  RequestInv'
<1> DEFINE r == Frame.r
           g == Call("close", r, "ok")
<1>0. LifeTypeOK /\ TreeOK /\ HandlersOK /\ req \in [Requests -> RequestType] /\ c \in ConnectionType /\ count \in Nat
  BY DEF RequestInv, LifeTypeOK
<1>1. /\ stack # <<>> /\ Frame.fn = "write" /\ UNCHANGED <<req, made, c, posted>> /\ count' = 1 /\ Becomes(<<g>>)
  BY DEF WriteHandler, In
<1>2. IsWork(Frame)
  BY <1>1, WriteCall, <1>0
<1>3. PICK d \in Nat, l \in {0, 1} : CallsOK("work", d, l)
  BY <1>1, <1>2, WorkCall
<1>4. /\ r \in Requests /\ r \in 0..made /\ CallOK(l) /\ Shape(stack, "work", d, l)
      /\ Terminated => c.state = "request"
  BY <1>0, <1>1, <1>3, WorkFacts
<1>5. r = Main /\ Terminated /\ l = 1 /\ c.state = "request"
  BY <1>0, <1>1, <1>4 DEF HandlersOK, Terminated, CallOK
<1>6. d = 0
  BY <1>1, <1>3, <1>5 DEF CallsOK, TerminatedOK, Terminated
<1>7. g \in CallType /\ g.fn = "close" /\ g.r = r
  BY <1>4 DEF CallType, Call, Codes
<1> HIDE DEF g
<1>8. StackTypes /\ Shape(stack', "close", 0, 1)
  <2>1. made' \in Nat /\ made <= made' /\ g.r <= made'
    BY <1>0, <1>1, <1>4, <1>7, MadeAreRequests
  <2> QED BY <1>0, <1>1, <1>4, <1>5, <1>6, <1>7, <2>1, BecomesOne DEF Kinds
<1>9. /\ LifeTypeOK' /\ TreeOK' /\ HandlersOK' /\ Live' = Live /\ Discarding' = Discarding
      /\ Terminated' = Terminated /\ Cleanups' = Cleanups
  BY <1>0, <1>1, <1>8, RequestsKept, SamePosted
<1>10. TopOwed("close") = 1 /\ Cardinality(Live) \in Nat /\ Discarding \in {0, 1} /\ MaxUri \in Nat
  BY <1>0, LiveFacts, HttpBounds DEF TopOwed
<1>11. CountOK("close", 0, 1)' /\ OwedOK("close", 0)'
  BY <1>1, <1>5, <1>9, <1>10 DEF CountOK, Normal, OwedOK
<1>12. TerminatedOK("close", 0, 1)' /\ PostedOK("close", 0, 1)'
  BY <1>1, <1>5, <1>9 DEF TerminatedOK, PostedOK, Normal
<1>13. CallsOK("close", 0, 1)'
  BY <1>1, <1>5, <1>8, <1>11, <1>12 DEF CallsOK, LingerOK, FreedOK, Allocated
<1> QED BY <1>9, <1>13 DEF RequestInv, Kinds

\* ngx_http_terminate_request runs a cleanup handler, or posts its own handler.
LEMMA KeepsTerminate ==
  ASSUME RequestInv, Terminate
  PROVE  RequestInv'
<1>0. LifeTypeOK /\ TreeOK /\ HandlersOK /\ req \in [Requests -> RequestType] /\ c \in ConnectionType /\ count \in Nat
      /\ made \in 0..MaxSubs /\ stack \in Seq(CallType)
  BY DEF RequestInv, LifeTypeOK
<1>1. stack # <<>> /\ Frame.fn = "terminate" /\ UNCHANGED <<made, c, count>>
  BY DEF Terminate, In
<1>2. PICK k \in Kinds, d \in Nat, l \in {0, 1} : CallsOK(k, d, l)
  BY DEF RequestInv
<1>3. k = "terminate"
  BY <1>0, <1>1, <1>2, TopCall DEF CallsOK
<1>4. /\ Shape(stack, "terminate", d, l) /\ OwedOK("terminate", d) /\ CountOK("terminate", d, l)
      /\ LingerOK("terminate", d, l) /\ FreedOK("terminate", d) /\ PostedOK("terminate", d, l)
  BY <1>2, <1>3 DEF CallsOK
<1>5. c.state = "request"
  BY <1>4 DEF FreedOK, LingerOK, Allocated
<1>6. /\ Cardinality(Live) \in Nat /\ Discarding \in {0, 1} /\ Waiting(l) \in {0, 1, 2} /\ MaxUri \in Nat
      /\ TopOwed("terminate") = 0 /\ TopOwed("cleanup") = 1 /\ TopOwed("none") = 0
  BY <1>0, LiveFacts, HttpBounds DEF TopOwed, Waiting
<1>7. /\ count >= 1 /\ count <= Cardinality(Live) + Discarding + d
      /\ count >= 1 + Cardinality(Cleanups) + d + Waiting(l)
  <2>1. Cardinality(Cleanups) \in Nat
    BY <1>0, LiveFacts
  <2> QED BY <1>4, <1>5, <1>6, <2>1 DEF CountOK
<1>8. IsFiniteSet(Cleanups) /\ Cardinality(Cleanups) \in Nat /\ 0..made \subseteq Requests /\ made \in Nat /\ Main \in 0..made
  BY <1>0, LiveFacts, MadeAreRequests
<1>9. ASSUME NEW s \in Cleanups, req' = [req EXCEPT ![s].upstream = FALSE],
             stack' = <<Call("finalize", s, "done")>> \o stack, posted' = posted
      PROVE  RequestInv'
  <2> DEFINE p == [req[s] EXCEPT !.upstream = FALSE]
             f == Call("finalize", s, "done")
  <2>1. s \in Requests /\ s \in 0..made /\ req[s].upstream /\ req[s] \in RequestType /\ req' = [req EXCEPT ![s] = p]
    BY <1>0, <1>9, LiveFacts DEF Cleanups, Live
  <2>2. /\ p \in RequestType
        /\ p.parent = req[s].parent /\ p.done = req[s].done /\ p.postponed = req[s].postponed /\ p.items = req[s].items
        /\ p.wh = req[s].wh /\ p.rh = req[s].rh /\ p.discard = req[s].discard /\ ~p.upstream
    BY <2>1 DEF RequestType
  <2> HIDE DEF p
  <2>3. req' \in [Requests -> RequestType] /\ req'[s] = p /\ \A x \in Requests : x # s => req'[x] = req[x]
    BY <1>0, <2>1, <2>2, Put
  <2>4. f \in CallType /\ IsDone(f) /\ f.r = s
    BY <2>1 DEF CallType, Call, IsDone, WorkFns, Codes
  <2>5. stack' = <<f>> \o stack
    BY <1>9
  <2> HIDE DEF f
  <2>6. StackTypes /\ Shape(stack', "cleanup", d, l)
    <3>1. <<f>> \o stack \in Seq(CallType) /\ \A i \in DOMAIN (<<f>> \o stack) : (<<f>> \o stack)[i].r <= made
      <4>1. \A i \in DOMAIN stack : stack[i].r <= made
        BY <1>0 DEF LifeTypeOK
      <4> QED BY <1>0, <1>8, <2>1, <2>4, <4>1, OneMoreCall
    <3>2. Shape(stack, "terminate", d, l) /\ (f.fn = "close" \/ IsDone(f)) => Shape(<<f>> \o stack, "cleanup", d, l)
      BY <1>0, <2>4, Pushed
    <3> QED BY <1>1, <1>4, <2>4, <2>5, <3>1, <3>2 DEF StackTypes
  <2>7. LifeTypeOK'
    BY <1>0, <1>1, <1>9, <2>3, <2>6 DEF LifeTypeOK, StackTypes
  <2>8. TreeOK'
    <3>1. \A x \in Requests : /\ req'[x].parent = req[x].parent /\ req'[x].done = req[x].done
                              /\ req'[x].postponed = req[x].postponed /\ req'[x].items >= req[x].items
      <4>1. \A x \in Requests : req[x].items >= req[x].items
        BY <1>0, RequestFields
      <4> QED BY <2>2, <2>3, <4>1
    <3> QED BY <1>0, <1>1, <2>3, <3>1, TreeKept
  <2>9. \A x \in Requests : /\ req'[x].wh = req[x].wh /\ req'[x].rh = req[x].rh /\ req'[x].done = req[x].done
                            /\ req'[x].discard = req[x].discard /\ (req'[x].upstream => req[x].upstream)
    BY <2>2, <2>3
  <2>10. HandlersOK' /\ Terminated' = Terminated /\ Discarding' = Discarding /\ Waiting(l)' = Waiting(l) /\ Live' = Live
    <3>1. Main \in Requests /\ c.data \in Requests
      BY <1>0, HttpBounds DEF ConnectionType
    <3>2. HandlersOK'
      BY <1>0, <1>1, <2>9, <3>1 DEF HandlersOK
    <3>3. Terminated' = Terminated /\ Discarding' = Discarding /\ Waiting(l)' = Waiting(l)
      BY <1>1, <2>9, <3>1 DEF Terminated, Discarding, Waiting, Finishing
    <3>4. Live' = Live
      BY <1>1, <1>8, <2>9 DEF Live
    <3> QED BY <3>2, <3>3, <3>4
  <2>11. Cardinality(Cleanups') = Cardinality(Cleanups) - 1 /\ Cardinality(Cleanups') \in Nat
    <3>1. Cleanups' = Cleanups \ {s}
      BY <1>9, <2>1, <2>2, <2>3 DEF Cleanups
    <3> QED BY <1>8, <1>9, <3>1, FS_RemoveElement, FS_CardinalityType
  <2>12. CountOK("cleanup", d, l)'
    <3>1. count' >= 1 /\ count' <= Cardinality(Live') + Discarding' + d + 1
          /\ count' >= 1 + Cardinality(Cleanups') + d + 1 + Waiting(l)'
      <4> DEFINE n == Cardinality(Cleanups) m == Cardinality(Cleanups') a == Cardinality(Live) w == Waiting(l)
      <4>1. /\ n \in Nat /\ m = n - 1 /\ a \in Nat /\ w \in {0, 1, 2} /\ Discarding \in {0, 1}
            /\ count >= 1 /\ count <= a + Discarding + d /\ count >= 1 + n + d + w
        BY <1>6, <1>7, <1>8, <2>11
      <4>2. Cardinality(Live') = a /\ Discarding' = Discarding /\ Waiting(l)' = w /\ count' = count
        BY <1>1, <2>10
      <4> HIDE DEF n, m, a, w
      <4>3. count >= 1 /\ count <= a + Discarding + d + 1 /\ count >= 1 + m + d + 1 + w
        BY <1>0, <4>1
      <4> QED BY <4>2, <4>3 DEF m
    <3> QED BY <1>6, <3>1 DEF CountOK, Normal
  <2>13. OwedOK("cleanup", d)' /\ PostedOK("cleanup", d, l)'
    BY <1>1, <1>4, <1>5, <1>6, <1>9 DEF OwedOK, PostedOK, Normal, Allocated
  <2>14. CallsOK("cleanup", d, l)'
    BY <1>1, <1>5, <2>6, <2>12, <2>13 DEF CallsOK, TerminatedOK, LingerOK, FreedOK, Allocated
  <2> QED BY <2>7, <2>8, <2>10, <2>14 DEF RequestInv, Kinds
<1>10. ASSUME Cleanups = {}, req' = [req EXCEPT ![Main].wh = "terminate"], posted' = <<Main>>, Return
       PROVE  RequestInv'
  <2> DEFINE p == [req[Main] EXCEPT !.wh = "terminate"]
  <2>1. Main \in Requests /\ req[Main] \in RequestType /\ req' = [req EXCEPT ![Main] = p] /\ ~req[Main].upstream
    BY <1>0, <1>10, HttpBounds DEF Cleanups
  <2>2. /\ p \in RequestType
        /\ p.parent = req[Main].parent /\ p.done = req[Main].done /\ p.postponed = req[Main].postponed
        /\ p.items = req[Main].items /\ p.discard = req[Main].discard /\ p.wh = "terminate" /\ p.upstream = req[Main].upstream
    BY <2>1 DEF RequestType, Handlers
  <2> HIDE DEF p
  <2>3. req' \in [Requests -> RequestType] /\ req'[Main] = p /\ \A x \in Requests : x # Main => req'[x] = req[x]
    BY <1>0, <2>1, <2>2, Put
  <2>4. StackTypes /\ Shape(stack', "none", d, l)
    BY <1>0, <1>1, <1>4, <1>10, Returns DEF Kinds
  <2>5. posted' \in Seq(Requests) /\ posted' # <<>> /\ posted'[1] = Main /\ \A i \in DOMAIN posted' : posted'[i] <= made
    BY <1>8, <1>10, <2>1 DEF Main
  <2>6. LifeTypeOK'
    BY <1>0, <1>1, <2>3, <2>4, <2>5 DEF LifeTypeOK, StackTypes
  <2>7. TreeOK'
    <3>1. \A x \in Requests : /\ req'[x].parent = req[x].parent /\ req'[x].done = req[x].done
                              /\ req'[x].postponed = req[x].postponed /\ req'[x].items >= req[x].items
      <4>1. \A x \in Requests : req[x].items >= req[x].items
        BY <1>0, RequestFields
      <4> QED BY <2>2, <2>3, <4>1
    <3> QED BY <1>0, <1>1, <2>3, <3>1, TreeKept
  <2>8. \A x \in Requests : req'[x].upstream = req[x].upstream /\ req'[x].done = req[x].done
    BY <2>2, <2>3
  <2>9. Cleanups' = {} /\ Live' = Live
    BY <1>1, <1>8, <1>10, <2>8 DEF Cleanups, Live
  <2>10. Terminated' /\ Discarding' = Discarding /\ Waiting(l)' = Waiting(l)
    <3>1. c.data \in Requests
      BY <1>0 DEF ConnectionType
    <3> QED BY <1>1, <2>2, <2>3, <3>1 DEF Terminated, Discarding, Waiting, Finishing
  <2>11. HandlersOK'
    <3>1. \A x \in Requests : ~req'[x].upstream
      BY <1>10, <2>8 DEF Cleanups
    <3>2. \A x \in Requests : req'[x].wh = "handler" => x # Main /\ req'[x] = req[x]
      BY <2>2, <2>3
    <3>3. req'[Main].wh = "terminate" /\ \A x \in Requests \ {Main} : req'[x].wh # "terminate"
      BY <1>0, <2>2, <2>3 DEF HandlersOK
    <3> QED BY <1>0, <3>1, <3>2, <3>3 DEF HandlersOK
  <2>12. count' >= 1 /\ count' >= 1 + d + Waiting(l)' /\ count' <= Cardinality(Live') + Discarding' + d
    <3>1. Cardinality(Cleanups) = 0
      BY <1>10, FS_EmptySet
    <3> QED BY <1>1, <1>6, <1>7, <2>9, <2>10, <3>1
  <2>13. CountOK("none", d, l)' /\ TerminatedOK("none", d, l)'
    BY <1>6, <2>5, <2>9, <2>10, <2>12 DEF CountOK, TerminatedOK, Normal
  <2>14. OwedOK("none", d)' /\ PostedOK("none", d, l)'
    BY <1>1, <1>4, <1>5, <1>6, <2>10 DEF OwedOK, PostedOK, Normal, Allocated
  <2>15. CallsOK("none", d, l)'
    BY <1>1, <1>5, <2>4, <2>13, <2>14 DEF CallsOK, LingerOK, FreedOK, Allocated
  <2> QED BY <2>6, <2>7, <2>11, <2>15 DEF RequestInv, Kinds
<1> QED BY <1>9, <1>10 DEF Terminate

\* ngx_http_finalize_connection() goes on with ngx_http_close_request().
LEMMA ConnectionCloses ==
  ASSUME RequestInv, stack # <<>>, IsDone(Frame), UNCHANGED <<made, c, count, posted>>,
         NEW r, r = Frame.r, Becomes(<<Call("close", r, "ok")>>), NEW p \in RequestType, req' = [req EXCEPT ![r] = p],
         p.parent = req[r].parent, p.done = req[r].done, p.postponed = req[r].postponed, p.items = req[r].items,
         p.wh = req[r].wh, p.upstream = req[r].upstream, p.discard = req[r].discard,
         p.rh = req[r].rh \/ (p.rh = "discard" /\ p.wh # "handler")
  PROVE  RequestInv'
<1> DEFINE g == Call("close", r, "ok")
<1>0. LifeTypeOK /\ TreeOK /\ HandlersOK /\ req \in [Requests -> RequestType] /\ c \in ConnectionType /\ count \in Nat
      /\ made \in 0..MaxSubs
  BY DEF RequestInv, LifeTypeOK
<1>1. PICK k \in Kinds, d \in Nat, l \in {0, 1} : CallsOK(k, d, l)
  BY DEF RequestInv
<1>2. /\ Shape(stack, k, d, l) /\ OwedOK(k, d) /\ CountOK(k, d, l) /\ TerminatedOK(k, d, l)
      /\ LingerOK(k, d, l) /\ FreedOK(k, d) /\ PostedOK(k, d, l)
  BY <1>1 DEF CallsOK
<1>3. /\ k = "cleanup" \/ (k = "none" /\ d > 0)
      /\ r \in Requests /\ r \in 0..made
  BY <1>0, <1>2, TopCall
<1>4. c.state = "request"
  BY <1>2, <1>3 DEF FreedOK, LingerOK, Allocated
<1>5. req[r] \in RequestType /\ req' \in [Requests -> RequestType] /\ req'[r] = p /\ \A x \in Requests : x # r => req'[x] = req[x]
  BY <1>0, <1>3, Put
<1>6. \A x \in Requests : /\ req'[x].wh = req[x].wh /\ req'[x].done = req[x].done /\ req'[x].upstream = req[x].upstream
                          /\ req'[x].discard = req[x].discard /\ req'[x].postponed = req[x].postponed
                          /\ req'[x].parent = req[x].parent /\ req'[x].items = req[x].items
                          /\ req'[x].rh = req[x].rh \/ (req'[x].rh = "discard" /\ req[x].wh # "handler")
  BY <1>5
<1>7. Main \in Requests /\ c.data \in Requests /\ 0..made \subseteq Requests /\ made \in Nat
  BY <1>0, MadeAreRequests DEF ConnectionType
<1>8. /\ HandlersOK' /\ Terminated' = Terminated /\ Discarding' = Discarding /\ Waiting(l)' = Waiting(l)
      /\ Live' = Live /\ Cleanups' = Cleanups
  <2>1. HandlersOK'
    BY <1>0, <1>6, <1>7 DEF HandlersOK
  <2>2. Terminated' = Terminated /\ Discarding' = Discarding /\ Waiting(l)' = Waiting(l)
    BY <1>6, <1>7 DEF Terminated, Discarding, Waiting, Finishing
  <2>3. Live' = Live /\ Cleanups' = Cleanups
    BY <1>6, <1>7 DEF Live, Cleanups
  <2> QED BY <2>1, <2>2, <2>3
<1>9. TreeOK'
  <2>1. \A x \in Requests : req[x].items >= req[x].items
    BY <1>0, RequestFields
  <2> QED BY <1>0, <1>5, <1>6, <2>1, TreeKept
<1>10. g \in CallType /\ g.fn = "close" /\ g.r = r
  BY <1>3 DEF CallType, Call, Codes
<1> HIDE DEF g
<1>11. /\ StackTypes
       /\ k = "cleanup" => Shape(stack', "cleanup", d, l)
       /\ k = "none" => Shape(stack', "close", d - 1, l)
  <2>1. made' \in Nat /\ made <= made' /\ g.r <= made'
    BY <1>3, <1>7, <1>10
  <2>2. Becomes(<<g>>)
    BY DEF g
  <2> QED BY <1>0, <1>2, <1>3, <1>10, <2>1, <2>2, BecomesOne
<1>12. LifeTypeOK'
  BY <1>0, <1>5, <1>11 DEF LifeTypeOK, StackTypes
<1>13. /\ Cardinality(Live) \in Nat /\ Discarding \in {0, 1} /\ Waiting(l) \in {0, 1, 2} /\ MaxUri \in Nat
       /\ TopOwed("close") = 1 /\ TopOwed("cleanup") = 1 /\ TopOwed("none") = 0
  BY <1>0, LiveFacts, HttpBounds DEF TopOwed, Waiting
<1>14. CASE k = "cleanup"
  <2>1. CountOK("cleanup", d, l)'
    BY <1>2, <1>4, <1>8, <1>14 DEF CountOK, Normal
  <2>2. OwedOK("cleanup", d)' /\ PostedOK("cleanup", d, l)'
    BY <1>2, <1>4, <1>14 DEF OwedOK, PostedOK, Normal, Allocated
  <2>3. CallsOK("cleanup", d, l)'
    BY <1>4, <1>11, <1>14, <2>1, <2>2 DEF CallsOK, TerminatedOK, LingerOK, FreedOK, Allocated
  <2> QED BY <1>8, <1>9, <1>12, <2>3 DEF RequestInv, Kinds
<1>15. CASE k = "none" /\ d > 0
  <2>1. CountOK("close", d - 1, l)'
    <3>1. /\ count >= 1 /\ count <= Cardinality(Live) + Discarding + d
          /\ ~Terminated => count = Cardinality(Live) + Discarding + d
      BY <1>2, <1>4, <1>13, <1>15 DEF CountOK, Normal
    <3>2. /\ count >= 1 /\ count <= Cardinality(Live) + Discarding + (d - 1) + 1
          /\ ~Terminated => count = Cardinality(Live) + Discarding + (d - 1) + 1
      BY <1>13, <3>1
    <3> QED BY <1>8, <1>13, <3>2 DEF CountOK, Normal
  <2>2. OwedOK("close", d - 1)'
    BY <1>2, <1>13, <1>15 DEF OwedOK
  <2>3. TerminatedOK("close", d - 1, l)'
    <3> SUFFICES ASSUME Terminated
                 PROVE  /\ posted # <<>> /\ posted[1] = Main /\ count >= 1 + (d - 1) + 1 + Waiting(l)
                        /\ l = 0 => Cleanups = {}
      BY <1>8, <1>13 DEF TerminatedOK
    <3>1. posted # <<>> /\ posted[1] = Main /\ count >= 1 + d + Waiting(l) /\ (l = 0 => Cleanups = {})
      BY <1>2, <1>4, <1>13, <1>15 DEF TerminatedOK
    <3> QED BY <1>0, <1>13, <3>1
  <2>4. PostedOK("close", d - 1, l)'
    <3>1. ToSet(posted) \subseteq Requests
      BY <1>0, <1>7, PostedFacts
    <3> QED BY <1>2, <1>4, <1>6, <1>8, <1>15, <3>1 DEF PostedOK, Normal, Allocated
  <2>5. CallsOK("close", d - 1, l)'
    BY <1>4, <1>11, <1>15, <2>1, <2>2, <2>3, <2>4 DEF CallsOK, LingerOK, FreedOK, Allocated
  <2>6. d - 1 \in Nat
    BY <1>15
  <2> QED BY <1>8, <1>9, <1>12, <2>5, <2>6 DEF RequestInv, Kinds
<1> QED BY <1>3, <1>14, <1>15

\* NGX_DONE: somebody has finished; the last one finishes the connection.
LEMMA KeepsFinalizeConnection ==
  ASSUME RequestInv, FinalizeConnection, BodyNotCopied
  PROVE  RequestInv'
<1> DEFINE r == Frame.r
<1>0. LifeTypeOK /\ TreeOK /\ HandlersOK /\ req \in [Requests -> RequestType] /\ c \in ConnectionType /\ count \in Nat
  BY DEF RequestInv, LifeTypeOK
<1>1. stack # <<>> /\ IsDone(Frame) /\ UNCHANGED <<made, count, posted>>
  BY DEF FinalizeConnection, In, IsDone
<1>2. PICK k \in Kinds, d \in Nat, l \in {0, 1} : CallsOK(k, d, l)
  BY DEF RequestInv
<1>3. /\ Shape(stack, k, d, l) /\ OwedOK(k, d) /\ CountOK(k, d, l) /\ TerminatedOK(k, d, l)
      /\ LingerOK(k, d, l) /\ FreedOK(k, d) /\ PostedOK(k, d, l)
  BY <1>2 DEF CallsOK
<1>4. /\ k = "cleanup" \/ (k = "none" /\ d > 0)
      /\ r \in Requests /\ r \in 0..made
  BY <1>0, <1>1, <1>3, TopCall
<1>5. c.state = "request"
  BY <1>3, <1>4 DEF FreedOK, LingerOK, Allocated
<1>6. req[r] \in RequestType
  BY <1>0, <1>4
<1>7. req[r].discard => r = Main
  BY <1>4 DEF BodyNotCopied
<1>8. /\ Cardinality(Live) \in Nat /\ Cardinality(Cleanups) \in Nat /\ Discarding \in {0, 1} /\ Waiting(l) \in {0, 1, 2}
      /\ MaxUri \in Nat /\ TopOwed("cleanup") = 1 /\ TopOwed("none") = 0
  BY <1>0, LiveFacts, HttpBounds DEF TopOwed, Waiting
<1>9. ASSUME LastOne
      PROVE  k = "none" /\ d = 1 /\ ~Terminated /\ Cardinality(Live) = 0 /\ Discarding = 0
  <2>1. count = 1
    BY <1>9 DEF LastOne
  <2>2. k # "cleanup"
    <3>1. k = "cleanup" => count >= 1 + Cardinality(Cleanups) + d + 1 + Waiting(l)
      BY <1>3, <1>5, <1>8 DEF CountOK
    <3> QED BY <1>8, <2>1, <3>1
  <2>3. ~Terminated
    <3>1. Terminated => count >= 1 + d + Waiting(l)
      BY <1>3, <1>4, <1>5, <1>8, <2>2 DEF TerminatedOK
    <3> QED BY <1>4, <1>8, <2>1, <2>2, <3>1
  <2>4. count = Cardinality(Live) + Discarding + d
    BY <1>3, <1>4, <1>5, <1>8, <2>2, <2>3 DEF CountOK, Normal
  <2> QED BY <1>4, <1>8, <2>1, <2>2, <2>3, <2>4
<1>10. ASSUME ~LastOne, req' = [req EXCEPT ![r].rh = IF req[r].discard THEN "discard" ELSE @],
              Becomes(<<Call("close", r, "ok")>>), UNCHANGED c
       PROVE  RequestInv'
  <2> DEFINE q == req[r]
             p == [q EXCEPT !.rh = IF q.discard THEN "discard" ELSE q.rh]
  <2>1. q.wh = "handler" => ~q.discard
    BY <1>0, <1>4, <1>7 DEF HandlersOK
  <2>2. req' = [req EXCEPT ![r] = p]
    <3> HIDE DEF r
    <3> QED BY <1>6, <1>10, <1>0 DEF RequestType
  <2>3. /\ p \in RequestType
        /\ p.parent = q.parent /\ p.done = q.done /\ p.postponed = q.postponed /\ p.items = q.items
        /\ p.wh = q.wh /\ p.upstream = q.upstream /\ p.discard = q.discard
        /\ p.rh = q.rh \/ (p.rh = "discard" /\ q.discard)
    <3> HIDE DEF r, q
    <3> QED BY <1>6 DEF RequestType, q
  <2> HIDE DEF p
  <2>4. p.rh = q.rh \/ (p.rh = "discard" /\ p.wh # "handler")
    BY <2>1, <2>3
  <2> QED BY <1>1, <1>10, <2>2, <2>3, <2>4, ConnectionCloses
<1>11. ASSUME LastOne, req[r].discard PROVE FALSE
  <2>1. Discarding = 0
    BY <1>9, <1>11
  <2> QED BY <1>7, <1>11, <2>1 DEF Discarding
<1>12. ASSUME LastOne, NEW s \in {"keepalive", "linger"}, c' = [c EXCEPT !.state = s], Return, UNCHANGED req
       PROVE  RequestInv'
  <2>1. k = "none" /\ d = 1 /\ ~Terminated /\ Live = {} /\ ~req[Main].discard /\ count = 1
    <3>1. Discarding = 0 /\ Cardinality(Live) = 0 /\ IsFiniteSet(Live)
      BY <1>0, <1>9, <1>12, LiveFacts
    <3>2. Live = {}
      BY <3>1, FS_EmptySet
    <3>3. ~req[Main].discard
      BY <3>1 DEF Discarding
    <3> QED BY <1>9, <1>12, <3>2, <3>3 DEF LastOne
  <2>2. StackTypes /\ Shape(stack', "none", 0, l)
    <3>1. StackTypes /\ Shape(stack', "none", d - 1, l)
      BY <1>0, <1>1, <1>3, <1>12, <2>1, Returns
    <3>2. d - 1 = 0
      BY <2>1
    <3> QED BY <3>1, <3>2
  <2>3. c' \in ConnectionType /\ c'.data = c.data /\ c'.error = c.error /\ c'.resolver = c.resolver /\ c'.state = s
    BY <1>0, <1>12 DEF ConnectionType
  <2>4. /\ LifeTypeOK' /\ TreeOK' /\ HandlersOK' /\ Live' = Live /\ Discarding' = Discarding
        /\ Terminated' = Terminated /\ Cleanups' = Cleanups
    BY <1>0, <1>1, <1>12, <2>2, <2>3, RequestsKept, SamePosted
  <2>5. PostedOK("none", 0, l)'
    BY <1>1, <1>3, <1>5, <1>12, <2>1, <2>3, <2>4 DEF PostedOK, Normal, Allocated
  <2>6. OwedOK("none", 0)' /\ LingerOK("none", 0, l)' /\ FreedOK("none", 0)'
    BY <1>1, <1>8, <1>12, <2>1, <2>3, <2>4 DEF OwedOK, LingerOK, FreedOK
  <2>7. CallsOK("none", 0, l)'
    BY <2>2, <2>3, <2>5, <2>6 DEF CallsOK, CountOK, TerminatedOK
  <2> QED BY <2>4, <2>7 DEF RequestInv, Kinds
<1>13. ASSUME Becomes(<<Call("close", r, "ok")>>), UNCHANGED <<req, c>>
       PROVE  RequestInv'
  <2>1. req' = [req EXCEPT ![r] = req[r]]
    BY <1>0, <1>4, <1>13
  <2>2. UNCHANGED <<made, c, count, posted>>
    BY <1>1, <1>13
  <2> QED BY <1>1, <1>6, <1>13, <2>1, <2>2, ConnectionCloses
<1> QED BY <1>10, <1>11, <1>12, <1>13 DEF FinalizeConnection

\* The main request is over.
LEMMA KeepsFinalizeMain ==
  ASSUME RequestInv, FinalizeMain
  PROVE  RequestInv'
<1>0. LifeTypeOK /\ TreeOK /\ HandlersOK /\ req \in [Requests -> RequestType] /\ c \in ConnectionType /\ count \in Nat
  BY DEF RequestInv, LifeTypeOK
<1>1. /\ stack # <<>> /\ Frame.fn = "finalize" /\ Frame.rc = "ok" /\ ~Fatal(Frame.rc) /\ Frame.r = Main
      /\ req[Main].postponed = <<>> /\ UNCHANGED <<made, count, posted>>
  BY DEF FinalizeMain, FinalizingOk, Finalizing, In, Pending
<1>2. /\ IsWork(Frame) /\ Goes(Main) /\ ~c.error
      /\ Main \in Requests /\ Main \in 0..made /\ req[Main] \in RequestType
      /\ ~req[Main].upstream /\ req[Main].wh # "handler" /\ ~req[Main].done /\ ~Terminated
  BY <1>1, FinalizeCall
<1>3. CASE c.data # Main
  <2>1. Return /\ UNCHANGED <<req, c>>
    BY <1>3 DEF FinalizeMain
  <2>2. Changes(Main, req[Main])
    BY <1>0, <1>1, <1>2, <2>1, NoChange
  <2>3. HandlerOK(Main, req[Main])
    BY <1>0, <1>2 DEF HandlerOK, Terminated
  <2>4. c'.error => c.error /\ Frame.fn # "finalize"
    BY <1>2, <2>1
  <2> QED BY <1>1, <1>2, <2>1, <2>2, <2>3, <2>4, WorkReturns
<1>4. CASE c.data = Main
  <2> DEFINE q == req[Main]
             p == [q EXCEPT !.done = TRUE, !.wh = "empty"]
  <2>1. PICK d \in Nat, l \in {0, 1} : CallsOK("work", d, l)
    BY <1>1, <1>2, WorkCall
  <2>2. /\ Shape(stack, "work", d, l) /\ OwedOK("work", d) /\ CountOK("work", d, l) /\ PostedOK("work", d, l)
    BY <2>1 DEF CallsOK
  <2>3. /\ Allocated /\ (l = 0 => AloneOK) /\ (c.state = "linger" => q.done)
    BY <1>0, <1>1, <2>1, WorkFacts
  <2>4. c.state = "request"
    BY <1>2, <2>3 DEF Allocated
  <2>5. made \in Nat /\ 0..made \subseteq Requests
    BY <1>0, MadeAreRequests
  <2>6. \A s \in 1..made : req[s].done
    BY <1>0, <1>1, <1>4, NoneWaits
  <2>7. Live = {Main} /\ Cardinality(Live) = 1
    <3>1. \A s \in 0..made : s = Main \/ s \in 1..made
      BY <2>5 DEF Main
    <3>2. Live = {Main}
      BY <1>2, <2>6, <3>1 DEF Live
    <3> QED BY <3>2, FS_Singleton
  <2>8. req' = [req EXCEPT ![Main] = p]
    BY <1>0, <1>2, <1>4 DEF FinalizeMain, RequestType
  <2>9. /\ p \in RequestType /\ p.done /\ p.wh = "empty" /\ p.upstream = q.upstream /\ p.discard = q.discard
        /\ p.parent = q.parent /\ p.items = q.items /\ p.postponed = q.postponed
    BY <1>2 DEF RequestType, Handlers
  <2> HIDE DEF p
  <2>10. req' \in [Requests -> RequestType] /\ req'[Main] = p /\ \A x \in Requests : x # Main => req'[x] = req[x]
    BY <1>0, <1>2, <2>8, <2>9, Put
  <2>11. c' \in ConnectionType /\ c'.data = c.data /\ c'.error = c.error /\ c'.resolver = c.resolver /\ c'.state = c.state
    BY <1>0, <1>4 DEF FinalizeMain, ConnectionType
  <2>12. TreeOK'
    <3>1. \A x \in Requests : req'[x].parent = req[x].parent /\ req'[x].items = req[x].items
                              /\ req'[x].postponed = req[x].postponed /\ (req[x].done => req'[x].done)
      BY <2>9, <2>10
    <3> QED BY <1>0, <1>1, <1>4, <2>6, <2>10, <2>11, <3>1, TreeMainDone
  <2>13. HandlersOK'
    <3>1. \A x \in Requests : req'[x].upstream => x # Main /\ req'[x] = req[x]
      BY <1>2, <2>9, <2>10
    <3>2. \A x \in Requests : req'[x].wh = "handler" => x # Main /\ req'[x] = req[x]
      BY <2>9, <2>10
    <3>3. req'[Main].wh = "empty" /\ \A x \in Requests \ {Main} : req'[x].wh # "terminate"
      BY <1>0, <2>9, <2>10 DEF HandlersOK
    <3> QED BY <1>0, <1>1, <3>1, <3>2, <3>3 DEF HandlersOK
  <2>14. Live' = {} /\ Cardinality(Live') = 0 /\ ~Terminated' /\ Discarding' = Discarding
    <3>1. Live' = {}
      <4> SUFFICES ASSUME NEW x \in 0..made, ~req'[x].done PROVE FALSE
        BY <1>1 DEF Live
      <4>1. x # Main
        BY <2>9, <2>10
      <4>2. x \in 1..made /\ x \in Requests
        BY <2>5, <4>1 DEF Main
      <4> QED BY <2>6, <2>10, <4>1, <4>2
    <3>2. ~Terminated' /\ Discarding' = Discarding
      BY <2>9, <2>10 DEF Terminated, Discarding
    <3> QED BY <3>1, <3>2, FS_EmptySet
  <2>15. Discarding \in {0, 1} /\ MaxUri \in Nat /\ q.uri \in Nat /\ TopOwed("work") = 0 /\ TopOwed("none") = 0 /\ TopOwed("close") = 1
    BY <1>0, <1>2, LiveFacts, HttpBounds, RequestFields DEF TopOwed
  <2>16. count = 1 + Discarding + d
    BY <1>2, <2>2, <2>4, <2>7, <2>15 DEF CountOK, Normal
  <2>17. d <= MaxUri + 1
    BY <1>1, <2>2, <2>15 DEF OwedOK
  <2>18. l = 0 => ToSet(posted) = {}
    <3> SUFFICES ASSUME l = 0, NEW x \in ToSet(posted) PROVE FALSE
      OBVIOUS
    <3>1. ~req[x].done
      BY <1>2, <2>2, <2>3 DEF PostedOK, Normal
    <3>2. x \in 0..made
      BY <1>0, PostedFacts
    <3>3. x = Main
      BY <2>5, <2>6, <3>1, <3>2 DEF Main
    <3> QED BY <1>1, <2>3, <3>3 DEF AloneOK
  <2>19. ASSUME NEW k \in {"none", "close"}, NEW n \in Nat PROVE PostedOK(k, n, l)'
    BY <1>1, <1>2, <2>2, <2>4, <2>11, <2>18 DEF PostedOK, Normal, Allocated
  <2>20. \E eof \in BOOLEAN : Becomes(<<IF eof THEN Call("close", Main, "ok") ELSE Call("finalize", Main, "done")>>)
    BY <1>4 DEF FinalizeMain
  <2>21. ASSUME NEW k \in {"none", "close"}, NEW n \in Nat, n + TopOwed(k) = d + 1, StackTypes, Shape(stack', k, n, l)
         PROVE  RequestInv'
    <3>1. LifeTypeOK'
      BY <1>0, <1>1, <2>10, <2>11, <2>21 DEF LifeTypeOK, StackTypes
    <3>2. TopOwed(k) \in {0, 1}
      BY DEF TopOwed
    <3>3. count >= 1 /\ count = 0 + Discarding + n + TopOwed(k) /\ n + TopOwed(k) <= MaxUri + 2
      BY <1>0, <2>15, <2>16, <2>17, <2>21, <3>2
    <3>4. CountOK(k, n, l)' /\ OwedOK(k, n)'
      BY <1>1, <2>14, <3>3 DEF CountOK, OwedOK, Normal
    <3>5. CallsOK(k, n, l)'
      BY <2>4, <2>11, <2>14, <2>19, <2>21, <3>4 DEF CallsOK, TerminatedOK, LingerOK, FreedOK, Allocated
    <3> QED BY <2>12, <2>13, <3>1, <3>5 DEF RequestInv, Kinds
  <2>22. CASE Becomes(<<Call("close", Main, "ok")>>)
    <3> DEFINE g == Call("close", Main, "ok")
    <3>1. g \in CallType /\ g.fn = "close" /\ g.r = Main
      BY <1>2 DEF CallType, Call, Codes
    <3> HIDE DEF g
    <3>2. made' \in Nat /\ made <= made' /\ g.r <= made' /\ Becomes(<<g>>)
      BY <1>1, <1>2, <2>5, <2>22, <3>1 DEF g
    <3>3. StackTypes /\ Shape(stack', "close", d, l)
      BY <1>0, <1>1, <2>2, <3>1, <3>2, BecomesOne DEF Kinds
    <3> QED BY <2>15, <2>21, <3>3
  <2>23. CASE Becomes(<<Call("finalize", Main, "done")>>)
    <3> DEFINE g == Call("finalize", Main, "done")
    <3>1. g \in CallType /\ IsDone(g) /\ g.r = Main
      BY <1>2 DEF CallType, Call, Codes, IsDone, WorkFns
    <3> HIDE DEF g
    <3>2. made' \in Nat /\ made <= made' /\ g.r <= made' /\ Becomes(<<g>>)
      BY <1>1, <1>2, <2>5, <2>23, <3>1 DEF g
    <3>3. StackTypes /\ Shape(stack', "none", d + 1, l)
      BY <1>0, <1>1, <2>2, <3>1, <3>2, BecomesOne DEF Kinds
    <3>4. d + 1 \in Nat /\ (d + 1) + TopOwed("none") = d + 1
      BY <2>15
    <3> QED BY <2>21, <3>3, <3>4
  <2> QED BY <2>20, <2>22, <2>23
<1> QED BY <1>3, <1>4

\* A subrequest is over, or waits until it is the active one.
LEMMA KeepsFinalizeSub ==
  ASSUME RequestInv, FinalizeSub
  PROVE  RequestInv'
<1> DEFINE r == Frame.r
           q == req[r]
           par == q.parent
<1>0. LifeTypeOK /\ TreeOK /\ HandlersOK /\ req \in [Requests -> RequestType] /\ c \in ConnectionType /\ count \in Nat
  BY DEF RequestInv, LifeTypeOK
<1>1. /\ stack # <<>> /\ Frame.fn = "finalize" /\ Frame.rc = "ok" /\ ~Fatal(Frame.rc) /\ r # Main
      /\ q.postponed = <<>> /\ UNCHANGED made /\ Return /\ Posts(par)
  BY DEF FinalizeSub, FinalizingOk, Finalizing, In, Pending, Posts, Posted
<1>2. /\ IsWork(Frame) /\ Goes(r) /\ ~c.error
      /\ r \in Requests /\ r \in 0..made /\ q \in RequestType /\ ~q.upstream /\ q.wh # "handler"
  BY <1>1, FinalizeCall
<1>3. PICK d \in Nat, l \in {0, 1} : CallsOK("work", d, l)
  BY <1>1, <1>2, WorkCall
<1>4. /\ Shape(stack, "work", d, l) /\ OwedOK("work", d) /\ CountOK("work", d, l) /\ PostedOK("work", d, l)
      /\ WorkOK(l) /\ TerminatedOK("work", d, l)
  BY <1>3 DEF CallsOK
<1>5. /\ Allocated /\ (l = 0 => AloneOK /\ c.state = "request")
      /\ Terminated => Cleanups = {} /\ l = 1 /\ c.state = "request" /\ count >= 2 + d
      /\ c.state = "linger" => Live = {} /\ q.done
  BY <1>0, <1>1, <1>2, <1>3, WorkFacts
<1>6. made \in Nat /\ 0..made \subseteq Requests /\ Main \in Requests
  BY <1>0, MadeAreRequests
<1>7. /\ r \in 1..made /\ par \in 0..made /\ par \in Requests /\ par # r /\ req[par].items > 0
      /\ ~q.done => ~req[par].done
  <2>1. r \in 1..made
    BY <1>1, <1>2, <1>6 DEF Main
  <2>2. /\ par \in 0..(r - 1) /\ req[par].items > 0
        /\ ~q.done => ~req[par].done
    BY <1>0, <2>1 DEF TreeOK, ParentsOK
  <2> QED BY <1>6, <2>1, <2>2
<1>8. StackTypes /\ Shape(stack', "none", d, l)
  BY <1>0, <1>1, <1>4, Returns DEF Kinds
<1>9. /\ Cardinality(Live) \in Nat /\ Discarding \in {0, 1} /\ MaxUri \in Nat /\ q.uri \in Nat
      /\ TopOwed("work") = 0 /\ TopOwed("none") = 0
  BY <1>0, <1>2, LiveFacts, HttpBounds, RequestFields DEF TopOwed
<1>10. OwedOK("none", d)'
  <2>1. d <= MaxUri + 1 - q.uri
    BY <1>4 DEF OwedOK
  <2> QED BY <1>9, <2>1 DEF OwedOK
  \* what both branches do
<1>11. ASSUME req' \in [Requests -> RequestType], c' \in ConnectionType, c'.state = c.state, c'.resolver = c.resolver,
              c'.error = c.error, c'.data <= made,
              \A x \in Requests : /\ req'[x].items = req[x].items /\ req'[x].discard = req[x].discard
                                  /\ req'[x].upstream = req[x].upstream /\ req'[x].rh = req[x].rh
                                  /\ (x # r => req'[x].done = req[x].done /\ req'[x].wh = req[x].wh),
              req'[r].wh \in {q.wh, "finalizer"}, TreeOK', Cardinality(Live') \in Nat, count' \in Nat,
              c.state = "request" =>
                count' >= 1 /\ count' + Cardinality(Live) = count + Cardinality(Live'),
              Terminated => count' >= 1 + d,
              c.state = "linger" => Live' = Live /\ count' = count
       PROVE  RequestInv'
  <2>1. HandlersOK'
    <3>1. \A x \in Requests : req'[x].upstream => x # r
      BY <1>2, <1>11
    <3>2. \A x \in Requests : req'[x].wh = "handler" => x # r
      BY <1>2, <1>11
    <3>3. q.wh # "terminate"
      BY <1>0, <1>1, <1>2 DEF HandlersOK
    <3>4. \A x \in Requests \ {Main} : req'[x].wh # "terminate"
      BY <1>0, <1>11, <3>3 DEF HandlersOK
    <3>5. \A x \in Requests : req'[x].upstream => x <= made' /\ ~req'[x].done /\ req'[x].wh = "upstream" /\ req'[x].rh # "test"
      BY <1>0, <1>1, <1>11, <3>1 DEF HandlersOK
    <3>6. \A x \in Requests : req'[x].wh = "handler" => ~req'[x].done /\ req'[x].rh \in {"block", "empty"} /\ (x = Main => ~req'[x].discard)
      BY <1>0, <1>11, <3>2 DEF HandlersOK
    <3>7. req'[Main].done => req'[Main].wh \in {"empty", "terminate"}
      BY <1>0, <1>1, <1>6, <1>11 DEF HandlersOK
    <3> QED BY <3>4, <3>5, <3>6, <3>7 DEF HandlersOK
  <2>2. Terminated' = Terminated /\ Discarding' = Discarding /\ Cleanups' = Cleanups
    BY <1>1, <1>6, <1>11 DEF Terminated, Discarding, Cleanups
  <2>3. /\ PostedOK("none", d, l)' /\ PostedTypes /\ (posted # <<>> => posted' # <<>> /\ posted'[1] = posted[1])
    <3>1. l = 0 => ~req'[par].done /\ req'[par].items > 0
      <4>1. l = 0 => ~q.done
        BY <1>5 DEF AloneOK
      <4> QED BY <1>7, <1>11, <4>1
    <3>2. posted' = posted \/ \E s \in 0..made' : /\ s \in Requests /\ Posts(s) /\ (c'.error \/ l = 0 => ~req'[s].done)
                                                  /\ l = 0 => req'[s].items > 0 \/ req'[s].wh = "handler"
      BY <1>1, <1>2, <1>7, <1>11, <3>1
    <3>3. \A x \in 0..made : x # Frame.r => req'[x].done = req[x].done /\ req'[x].items = req[x].items /\ req'[x].wh = req[x].wh
      BY <1>6, <1>11
    <3>4. PICK k \in {"none", "work", "close"} : k = "none"
      OBVIOUS
    <3>5. /\ made' \in Nat /\ made <= made' /\ l = 0 => WorkOK(l) /\ c.state = "request"
          /\ ~c'.error
      BY <1>1, <1>2, <1>4, <1>5, <1>6, <1>11
    <3>6. PostedOK(k, d, l)' /\ PostedTypes /\ (posted # <<>> => posted' # <<>> /\ posted'[1] = posted[1])
      <4>1. made' \in Nat /\ made <= made' /\ (l = 0 => WorkOK(l) /\ c.state = "request")
        BY <1>1, <1>4, <1>5, <1>6
      <4>2. ~c'.error
        BY <1>2, <1>11
      <4> QED BY <1>0, <1>4, <1>5, <1>11, <2>2, <3>2, <3>3, <4>1, <4>2, PostedGoesOn
    <3> QED BY <3>4, <3>6
  <2>4. ASSUME c.state = "request", Terminated PROVE TerminatedOK("none", d, l)'
    <3>1. posted # <<>> /\ posted[1] = Main
      BY <1>1, <1>4, <2>4 DEF TerminatedOK
    <3>2. l = 1 /\ Waiting(l)' = 0 /\ Cleanups' = {}
      BY <1>5, <2>2, <2>4 DEF Waiting
    <3>3. count' >= 1 + d + TopOwed("none") + Waiting(l)'
      BY <1>9, <1>11, <2>4, <3>2
    <3> QED BY <2>3, <3>1, <3>2, <3>3 DEF TerminatedOK
  <2>5. CallsOK("none", d, l)'
    <3>1. PICK k \in {"none", "work", "close"} : k = "none"
      OBVIOUS
    <3>2. /\ Shape(stack', k, d, l) /\ OwedOK(k, d)' /\ PostedOK(k, d, l)' /\ k # "work"
          /\ c.state = "request" /\ Terminated => TerminatedOK(k, d, l)'
      BY <1>8, <1>10, <2>3, <2>4, <3>1
    <3>3. c.state = "request" => /\ count' >= 1
                                 /\ count' + Cardinality(Live) + Discarding + d =
                                      count + Cardinality(Live') + Discarding' + d + TopOwed(k)
      <4>1. TopOwed(k) = 0 /\ Discarding' = Discarding
        BY <1>9, <2>2, <3>1
      <4> QED BY <1>0, <1>9, <1>11, <4>1
    <3>4. c.state = "linger" => /\ Live' = Live /\ req'[Main].discard = req[Main].discard /\ count' = count
                                /\ d = d /\ k # "close"
      BY <1>6, <1>11, <3>1
    <3>5. CallsOK(k, d, l)'
      <4>1. Discarding' \in {0, 1}
        BY <1>9, <2>2
      <4> QED BY <1>0, <1>3, <1>9, <1>11, <2>2, <3>2, <3>3, <3>4, <4>1, WorkGoesOn
    <3> QED BY <3>1, <3>5
  <2>6. LifeTypeOK'
    BY <1>0, <1>1, <1>8, <1>11, <2>3 DEF LifeTypeOK, StackTypes, PostedTypes
  <2> QED BY <1>11, <2>1, <2>5, <2>6 DEF RequestInv, Kinds
<1>12. CASE c.data = r
  <2> DEFINE p == [q EXCEPT !.done = TRUE]
             up == [req[par] EXCEPT !.postponed = IF @ # <<>> /\ Head(@).req = r THEN Tail(@) ELSE @]
  <2>1. ~q.done /\ ~req[par].done
    BY <1>0, <1>1, <1>7, <1>12, ActiveIsLive
  <2>2. req' = [req EXCEPT ![r] = p, ![par] = up] /\ count' = count - 1 /\ c' = [c EXCEPT !.data = par]
    <3>1. req' = [req EXCEPT ![r].done = TRUE,
                             ![par].postponed = IF @ # <<>> /\ Head(@).req = r THEN Tail(@) ELSE @]
          /\ count' = count - 1 /\ c' = [c EXCEPT !.data = par]
      BY <1>12 DEF FinalizeSub, ParentActive
    <3> HIDE DEF r, q, par
    <3> QED BY <1>0, <1>2, <1>7, <3>1 DEF RequestType, q
  <2>3. /\ p \in RequestType /\ p.done /\ p.wh = q.wh /\ p.rh = q.rh /\ p.upstream = q.upstream /\ p.discard = q.discard
        /\ p.parent = q.parent /\ p.items = q.items /\ p.postponed = q.postponed
    <3> HIDE DEF r, q
    <3> QED BY <1>2 DEF RequestType
  <2>4. /\ up \in RequestType /\ up.done = req[par].done /\ up.wh = req[par].wh /\ up.rh = req[par].rh
        /\ up.upstream = req[par].upstream /\ up.discard = req[par].discard /\ up.parent = req[par].parent
        /\ up.items = req[par].items
        /\ up.postponed = IF req[par].postponed # <<>> /\ Head(req[par].postponed).req = r
                          THEN Tail(req[par].postponed) ELSE req[par].postponed
    <3> DEFINE u == req[par]
    <3>1. u \in RequestType /\ u.postponed \in Seq(ItemType)
      BY <1>0, <1>7, RequestFields
    <3>2. u.postponed # <<>> => Tail(u.postponed) \in Seq(ItemType)
      BY <3>1, HeadTailProperties
    <3>3. up = [u EXCEPT !.postponed = IF u.postponed # <<>> /\ Head(u.postponed).req = r THEN Tail(u.postponed) ELSE u.postponed]
      <4> HIDE DEF par, r
      <4> QED BY <3>1 DEF RequestType
    <3> HIDE DEF u, r, up
    <3>4. /\ up \in RequestType /\ up.done = u.done /\ up.wh = u.wh /\ up.rh = u.rh
          /\ up.upstream = u.upstream /\ up.discard = u.discard /\ up.parent = u.parent
          /\ up.items = u.items
          /\ up.postponed = IF u.postponed # <<>> /\ Head(u.postponed).req = r THEN Tail(u.postponed) ELSE u.postponed
      BY <3>1, <3>2, <3>3 DEF RequestType
    <3> QED BY <3>4 DEF u
  <2> HIDE DEF p, up
  <2>5. /\ req' \in [Requests -> RequestType] /\ req'[r] = p /\ req'[par] = up
        /\ \A x \in Requests : x # r /\ x # par => req'[x] = req[x]
    BY <1>0, <1>2, <1>7, <2>2, <2>3, <2>4
  <2>6. c' \in ConnectionType /\ c'.data = par /\ c'.state = c.state /\ c'.resolver = c.resolver /\ c'.error = c.error
    <3> HIDE DEF par
    <3> QED BY <1>0, <1>7, <2>2 DEF ConnectionType
  <2>7. \A x \in Requests : /\ req'[x].parent = req[x].parent /\ req'[x].items = req[x].items /\ req'[x].discard = req[x].discard
                            /\ req'[x].upstream = req[x].upstream /\ req'[x].rh = req[x].rh /\ req'[x].wh = req[x].wh
                            /\ req'[x].done = (IF x = r THEN TRUE ELSE req[x].done)
                            /\ x # par => req'[x].postponed = req[x].postponed
    <3> SUFFICES ASSUME NEW x \in Requests
                 PROVE  /\ req'[x].parent = req[x].parent /\ req'[x].items = req[x].items /\ req'[x].discard = req[x].discard
                        /\ req'[x].upstream = req[x].upstream /\ req'[x].rh = req[x].rh /\ req'[x].wh = req[x].wh
                        /\ req'[x].done = (IF x = r THEN TRUE ELSE req[x].done)
                        /\ x # par => req'[x].postponed = req[x].postponed
      OBVIOUS
    <3>1. CASE x = r
      BY <1>7, <2>3, <2>5, <3>1
    <3>2. CASE x = par
      BY <1>7, <2>4, <2>5, <3>2
    <3>3. CASE x # r /\ x # par
      BY <2>5, <3>3
    <3> QED BY <3>1, <3>2, <3>3
  <2>8. TreeOK'
    <3>1. r = c.data /\ c'.data = par /\ par = req[r].parent /\ req[r].postponed = <<>> /\ r # Main /\ made' = made
      BY <1>1, <1>12, <2>6
    <3>2. req'[par].postponed = IF req[par].postponed # <<>> /\ Head(req[par].postponed).req = r
                                THEN Tail(req[par].postponed) ELSE req[par].postponed
      BY <2>4, <2>5
    <3>3. \A x \in Requests : /\ req'[x].parent = req[x].parent /\ req'[x].items = req[x].items
                              /\ x # r => req'[x].done = req[x].done
                              /\ x # par => req'[x].postponed = req[x].postponed
      BY <2>7
    <3>4. req' \in [Requests -> RequestType] /\ req'[r].done
      BY <1>2, <2>5, <2>7
    <3> HIDE DEF par, q, r
    <3> QED BY <1>0, <3>1, <3>2, <3>3, <3>4, TreeSubDone
  <2>9. Live' = Live \ {r} /\ r \in Live /\ par \in Live
    <3>1. Live' = Live \ {r}
      BY <1>1, <1>6, <2>7 DEF Live
    <3>2. r \in Live /\ par \in Live
      BY <1>2, <1>7, <2>1 DEF Live
    <3> QED BY <3>1, <3>2
  <2>10. Cardinality(Live') = Cardinality(Live) - 1 /\ Cardinality(Live) >= 2
    <3>1. IsFiniteSet(Live)
      BY <1>0, LiveFacts
    <3>2. Cardinality(Live') = Cardinality(Live) - 1
      BY <2>9, <3>1, FS_RemoveElement
    <3>3. par \in Live' /\ IsFiniteSet(Live')
      BY <1>7, <2>9, <3>1, FS_Subset
    <3>4. Cardinality(Live') # 0 /\ Cardinality(Live') \in Nat
      BY <3>3, FS_EmptySet, FS_CardinalityType
    <3> QED BY <1>9, <3>2, <3>4
  <2>11. c.state = "request"
    BY <1>5, <2>9 DEF Allocated
  <2>12. count >= 2 /\ count' >= 1 /\ count' \in Nat
    <3>1. Terminated => count >= 2
      BY <1>0, <1>3, <1>5
    <3>2. ~Terminated => count = Cardinality(Live) + Discarding + d
      BY <1>4, <1>9, <2>11 DEF CountOK, Normal
    <3>3. count >= 2
      BY <1>0, <1>9, <2>10, <3>1, <3>2
    <3> QED BY <1>0, <2>2, <3>3
  <2>13. count' + Cardinality(Live) = count + Cardinality(Live') /\ Cardinality(Live') \in Nat
    BY <1>0, <1>9, <2>2, <2>10
  <2>14. Terminated => count' >= 1 + d
    BY <1>0, <1>5, <2>2
  <2>15. c'.data <= made
    BY <1>6, <1>7, <2>6
  <2>16. req'[r].wh \in {q.wh, "finalizer"}
    BY <1>2, <2>7
  <2> QED BY <1>11, <2>5, <2>6, <2>7, <2>8, <2>11, <2>12, <2>13, <2>14, <2>15, <2>16
<1>13. CASE c.data # r
  <2> DEFINE p == [q EXCEPT !.wh = "finalizer"]
  <2>1. req' = [req EXCEPT ![r] = p] /\ UNCHANGED <<count, c>>
    <3>1. req' = [req EXCEPT ![r].wh = "finalizer"] /\ UNCHANGED <<count, c>>
      BY <1>13 DEF FinalizeSub
    <3> HIDE DEF r
    <3> QED BY <1>0, <1>2, <3>1 DEF RequestType
  <2>2. /\ p \in RequestType /\ p.done = q.done /\ p.wh = "finalizer" /\ p.rh = q.rh /\ p.upstream = q.upstream
        /\ p.discard = q.discard /\ p.parent = q.parent /\ p.items = q.items /\ p.postponed = q.postponed
    <3> HIDE DEF r, q
    <3> QED BY <1>2 DEF RequestType, Handlers
  <2> HIDE DEF p
  <2>3. req' \in [Requests -> RequestType] /\ req'[r] = p /\ \A x \in Requests : x # r => req'[x] = req[x]
    BY <1>0, <1>2, <2>1, <2>2, Put
  <2>4. \A x \in Requests : /\ req'[x].parent = req[x].parent /\ req'[x].done = req[x].done
                            /\ req'[x].postponed = req[x].postponed /\ req'[x].items = req[x].items
                            /\ req'[x].discard = req[x].discard /\ req'[x].upstream = req[x].upstream
                            /\ req'[x].rh = req[x].rh /\ (x # r => req'[x].wh = req[x].wh)
    BY <2>2, <2>3
  <2>5. TreeOK'
    <3>1. \A x \in Requests : req[x].items >= req[x].items
      BY <1>0, RequestFields
    <3> QED BY <1>0, <1>1, <2>1, <2>3, <2>4, <3>1, TreeKept
  <2>6. Live' = Live
    BY <1>0, <1>1, <2>4, SameLive
  <2>7. c.state = "request" => count >= 1
    BY <1>4 DEF CountOK
  <2>8. c'.data <= made /\ req'[r].wh \in {q.wh, "finalizer"} /\ count' \in Nat /\ (Terminated => count' >= 1 + d)
    BY <1>0, <1>5, <2>1, <2>2, <2>3 DEF LifeTypeOK
  <2>9. c.state = "request" => count' >= 1 /\ count' + Cardinality(Live) = count + Cardinality(Live')
    BY <2>1, <2>6, <2>7
  <2> QED BY <1>0, <1>9, <1>11, <2>1, <2>3, <2>4, <2>5, <2>6, <2>8, <2>9
<1> QED BY <1>12, <1>13

\* A subrequest is made.
LEMMA KeepsSubrequest ==
  ASSUME RequestInv, Subrequest
  PROVE  RequestInv'
<1> DEFINE r == Frame.r
           q == req[r]
           t == made + 1
           p == [q EXCEPT !.postponed = Append(q.postponed, Requested(t)), !.items = q.items + 1]
           n == [Fresh EXCEPT !.parent = r, !.rh = "empty", !.path = Append(q.path, q.items + 1),
                              !.discard = q.discard, !.left = q.left]
           g == [Frame EXCEPT !.rc = "some"]
<1>0. LifeTypeOK /\ TreeOK /\ HandlersOK /\ req \in [Requests -> RequestType] /\ c \in ConnectionType /\ count \in Nat
  BY DEF RequestInv, LifeTypeOK
<1>1. /\ stack # <<>> /\ Frame.fn \in {"content", "upstream"} /\ made < MaxSubs /\ q.items < MaxItems
      /\ made' = t /\ count' = count + 1 /\ Posts(t) /\ Becomes(<<g>>)
      /\ c' = [c EXCEPT !.data = IF @ = r /\ q.postponed = <<>> THEN t ELSE @]
  BY DEF Subrequest, In, Content, SubrequestCount, Posts, Posted
<1>2. IsWork(Frame) /\ Goes(r) /\ ~q.done /\ r \in Requests /\ q \in RequestType /\ q.wh # "handler"
      /\ (Frame.fn # "upstream" => ~q.upstream) /\ Frame \in CallType
  BY <1>1, LiveCall
<1>3. PICK d \in Nat, l \in {0, 1} : CallsOK("work", d, l)
  BY <1>1, <1>2, WorkCall
<1>4. /\ Shape(stack, "work", d, l) /\ OwedOK("work", d) /\ CountOK("work", d, l) /\ PostedOK("work", d, l)
      /\ WorkOK(l) /\ TerminatedOK("work", d, l)
  BY <1>3 DEF CallsOK
<1>5. /\ r \in 0..made /\ Allocated /\ CallOK(l) /\ (l = 0 => AloneOK)
      /\ Terminated => Cleanups = {} /\ l = 1 /\ r # Main /\ count >= 2 + d
      /\ c.state = "linger" => q.done
  BY <1>0, <1>1, <1>2, <1>3, WorkFacts
<1>6. c.state = "request"
  BY <1>2, <1>5 DEF Allocated
<1>7. /\ made \in Nat /\ 0..made \subseteq Requests /\ Main \in Requests /\ MaxSubs \in Nat
      /\ t \in Requests /\ t \in 1..MaxSubs /\ t # r /\ t # Main /\ t \notin 0..made /\ 0..t = 0..made \cup {t}
  <2>1. made \in Nat /\ MaxSubs \in Nat /\ 0..made \subseteq Requests /\ Main \in Requests
    BY <1>0, MadeAreRequests, HttpBounds
  <2> QED BY <1>1, <1>5, <2>1 DEF Requests, Main
<1>8. req' = [req EXCEPT ![r] = p, ![t] = n]
  <2>1. req' = [req EXCEPT ![r].postponed = Append(@, Requested(t)), ![r].items = @ + 1, ![t] = n]
    BY DEF Subrequest
  <2> HIDE DEF r, t, n
  <2> QED BY <1>0, <1>2, <1>7, <2>1 DEF RequestType
<1>9. /\ q.postponed \in Seq(ItemType) /\ q.items \in 0..MaxItems /\ q.path \in Seq(Nat) /\ q.discard \in BOOLEAN /\ q.left \in {0, 1}
      /\ q.uri \in Nat /\ MaxUri \in Nat /\ MaxItems \in Nat
  BY <1>2, RequestFields, HttpBounds
<1>10. /\ Append(q.postponed, Requested(t)) \in Seq(ItemType)
       /\ q.items + 1 \in 0..MaxItems
       /\ Append(q.path, q.items + 1) \in Seq(Nat)
  <2>1. Requested(t) \in ItemType
    BY <1>7, EmptySeq DEF Requested, ItemType
  <2>2. q.items + 1 \in 0..MaxItems /\ q.items + 1 \in Nat
    BY <1>1, <1>9
  <2> QED BY <1>9, <2>1, <2>2, AppendProperties
<1>11. /\ p \in RequestType /\ p.parent = q.parent /\ p.wh = q.wh /\ p.rh = q.rh /\ p.uri = q.uri /\ p.upstream = q.upstream
       /\ p.discard = q.discard /\ p.done = q.done /\ p.items = q.items + 1
       /\ p.postponed = Append(q.postponed, Requested(t))
  <2> HIDE DEF q, r, t
  <2> QED BY <1>2, <1>10 DEF RequestType
<1>12. /\ n \in RequestType /\ n.parent = r /\ n.wh = "handler" /\ n.rh = "empty" /\ ~n.upstream /\ ~n.done
       /\ n.postponed = <<>>
  <2>1. <<>> \in Seq(ItemType) /\ MaxUri + 1 \in 0..(MaxUri + 1) /\ 0 \in 0..MaxItems
    BY <1>9, EmptySeq
  <2> HIDE DEF q, r
  <2> QED BY <1>2, <1>9, <1>10, <2>1 DEF RequestType, Fresh, Handlers
<1> HIDE DEF p, n
<1>13. /\ req' \in [Requests -> RequestType] /\ req'[r] = p /\ req'[t] = n
       /\ \A x \in Requests : x # r /\ x # t => req'[x] = req[x]
  BY <1>0, <1>2, <1>7, <1>8, <1>11, <1>12
<1>14. /\ c' \in ConnectionType /\ c'.state = c.state /\ c'.error = c.error /\ c'.resolver = c.resolver
       /\ c'.data = (IF c.data = r /\ q.postponed = <<>> THEN t ELSE c.data) /\ c'.data <= made'
  <2>1. c.data \in 0..made
    BY <1>0, <1>7 DEF LifeTypeOK, ConnectionType, Requests
  <2>2. /\ c' \in ConnectionType /\ c'.state = c.state /\ c'.error = c.error /\ c'.resolver = c.resolver
        /\ c'.data = (IF c.data = r /\ q.postponed = <<>> THEN t ELSE c.data)
    <3> HIDE DEF r, q, t
    <3> QED BY <1>0, <1>1, <1>7 DEF ConnectionType
  <2> QED BY <1>1, <1>7, <2>1, <2>2
<1>15. TreeOK'
  <2>1. /\ req'[r].parent = req[r].parent /\ req'[r].done = req[r].done /\ req'[r].items = req[r].items + 1
        /\ req'[r].postponed = Append(req[r].postponed, Requested(t))
        /\ req'[t].parent = r /\ ~req'[t].done /\ req'[t].postponed = <<>>
    BY <1>11, <1>12, <1>13
  <2>2. t = made + 1 /\ made < MaxSubs /\ made' = t
    BY <1>1
  <2> HIDE DEF t, q, r
  <2>3. ~req[r].done /\ r \in 0..made
    BY <1>2, <1>5 DEF q
  <2> QED BY <1>0, <1>13, <1>14, <2>1, <2>2, <2>3, TreeSubrequest DEF q
<1>16. HandlersOK' /\ Terminated' = Terminated /\ Discarding' = Discarding /\ Cleanups' = Cleanups
  <2>1. \A x \in Requests : x # t => /\ req'[x].upstream = req[x].upstream /\ req'[x].wh = req[x].wh /\ req'[x].rh = req[x].rh
                                     /\ req'[x].done = req[x].done /\ req'[x].discard = req[x].discard
    BY <1>11, <1>13
  <2>2. ~req'[t].upstream /\ req'[t].wh = "handler" /\ req'[t].rh = "empty" /\ ~req'[t].done
    BY <1>12, <1>13
  <2>3. \A x \in Requests : req[x].upstream => x # t /\ x <= made'
    <3>1. \A x \in Requests : req[x].upstream => x <= made
      BY <1>0 DEF HandlersOK
    <3> QED BY <1>1, <1>7, <3>1 DEF Requests
  <2>4. \A x \in Requests : req'[x].upstream => x <= made' /\ ~req'[x].done /\ req'[x].wh = "upstream" /\ req'[x].rh # "test"
    BY <1>0, <2>1, <2>2, <2>3 DEF HandlersOK
  <2>5. \A x \in Requests : req'[x].wh = "handler" =>
          ~req'[x].done /\ req'[x].rh \in {"block", "empty"} /\ (x = Main => ~req'[x].discard)
    BY <1>0, <1>7, <2>1, <2>2 DEF HandlersOK
  <2>6. (req'[Main].done => req'[Main].wh \in {"empty", "terminate"}) /\ \A x \in Requests \ {Main} : req'[x].wh # "terminate"
    BY <1>0, <1>7, <2>1, <2>2 DEF HandlersOK
  <2>7. Terminated' = Terminated /\ Discarding' = Discarding
    BY <1>7, <2>1 DEF Terminated, Discarding
  <2>8. Cleanups' = Cleanups
    BY <2>1, <2>2, <2>3 DEF Cleanups
  <2> QED BY <2>4, <2>5, <2>6, <2>7, <2>8 DEF HandlersOK
<1>17. /\ Cardinality(Live) \in Nat /\ Discarding \in {0, 1} /\ Cardinality(Live') = Cardinality(Live) + 1
       /\ Cardinality(Live') \in Nat
  <2>1. IsFiniteSet(Live) /\ Cardinality(Live) \in Nat /\ Discarding \in {0, 1}
    BY <1>0, LiveFacts
  <2>2. t \notin Live
    BY <1>7 DEF Live
  <2>3. Live' = Live \cup {t}
    <3>1. \A x \in 0..made : x \in Requests /\ x # t /\ req'[x].done = req[x].done
      BY <1>7, <1>11, <1>13
    <3>2. ~req'[t].done
      BY <1>12, <1>13
    <3>3. 0..made' = 0..made \cup {t}
      BY <1>1, <1>7
    <3> QED BY <3>1, <3>2, <3>3 DEF Live
  <2> QED BY <2>1, <2>2, <2>3, FS_AddElement
<1>18. g \in CallType /\ IsWork(g) /\ g.r = r /\ g.fn = Frame.fn
  <2> HIDE DEF r
  <2> QED BY <1>1, <1>2 DEF CallType, IsWork, IsDone, WorkFns, Codes, r
<1> HIDE DEF g
<1>19. StackTypes /\ Frame' = g /\ Shape(stack', "work", d, l)
  <2>1. made' \in Nat /\ made <= made' /\ g.r <= made'
    BY <1>1, <1>5, <1>7, <1>18
  <2> QED BY <1>0, <1>1, <1>4, <1>18, <2>1, BecomesOne DEF Kinds
<1>20. PICK k2 \in {"none", "work", "close"} : k2 = "work"
  OBVIOUS
<1>21. /\ PostedOK(k2, d, l)' /\ PostedTypes /\ (posted # <<>> => posted' # <<>> /\ posted'[1] = posted[1])
  <2>1. posted' = posted \/ \E s \in 0..made' : /\ s \in Requests /\ Posts(s) /\ (c'.error \/ l = 0 => ~req'[s].done)
                                                /\ l = 0 => req'[s].items > 0 \/ req'[s].wh = "handler"
    <3>1. t \in 0..made' /\ t \in Requests /\ ~req'[t].done /\ req'[t].wh = "handler"
      BY <1>1, <1>7, <1>12, <1>13
    <3> QED BY <1>1, <3>1
  <2>2. \A x \in 0..made : x # Frame.r => req'[x].done = req[x].done /\ req'[x].items = req[x].items /\ req'[x].wh = req[x].wh
    <3>1. \A x \in 0..made : x \in Requests /\ x # t
      BY <1>7
    <3> QED BY <1>13, <3>1
  <2>3. made' \in Nat /\ made <= made' /\ (l = 0 => WorkOK(l) /\ c.state = "request")
    BY <1>1, <1>4, <1>6, <1>7
  <2>4. c'.error /\ ~(k2 = "work" /\ Frame'.fn = "finalize") =>
           c.error /\ Frame.fn # "finalize" /\ req'[Frame.r].done = req[Frame.r].done
    BY <1>1, <1>11, <1>13, <1>14
  <2> QED BY <1>0, <1>4, <1>5, <1>14, <1>16, <2>1, <2>2, <2>3, <2>4, PostedGoesOn
<1>22. LifeTypeOK'
  <2>1. made' \in 0..MaxSubs /\ count' \in Nat
    BY <1>0, <1>1, <1>7
  <2> QED BY <1>13, <1>14, <1>19, <1>21, <2>1 DEF LifeTypeOK, StackTypes, PostedTypes
<1>23. WorkOK(l)'
  <2>1. CallOK(l)'
    BY <1>1, <1>2, <1>5, <1>11, <1>13, <1>18, <1>19 DEF CallOK
  <2>2. l = 0 => AloneOK'
    <3> SUFFICES ASSUME l = 0 PROVE AloneOK'
      OBVIOUS
    <3>1. ~q.done /\ ~q.upstream /\ q.wh \in {"empty", "upstream"} /\ r \notin ToSet(posted)
          /\ \A s \in 1..made : Entry(r, s) => req[s].wh = "handler"
      BY <1>5 DEF AloneOK
    <3>2. r \notin ToSet(posted')
      <4>1. \A x \in ToSet(posted') : x \in ToSet(posted) \/ Posts(x)
        <5>1. made' \in Nat /\ made <= made' /\ (posted' = posted \/ \E s \in 0..made' : s \in Requests /\ Posts(s))
          BY <1>1, <1>7
        <5> QED BY <1>0, <5>1, OnePosted
      <4>2. Posts(r) => r = t
        BY <1>0, <1>1, <1>2, <1>7, OnlyOnePosted
      <4> QED BY <1>7, <3>1, <4>1, <4>2
    <3>3. \A s \in 1..made' : (\E i \in DOMAIN req'[r].postponed : req'[r].postponed[i].req = s) => req'[s].wh = "handler"
      <4> SUFFICES ASSUME NEW s \in 1..made', NEW i \in DOMAIN p.postponed, p.postponed[i].req = s
                   PROVE  req'[s].wh = "handler"
        BY <1>13
      <4>1. DOMAIN q.postponed = 1..Len(q.postponed) /\ Len(q.postponed) \in Nat
        BY <1>9, LenProperties
      <4>2. /\ Len(p.postponed) = Len(q.postponed) + 1 /\ p.postponed \in Seq(ItemType)
            /\ \A j \in 1..Len(q.postponed) : p.postponed[j] = q.postponed[j]
            /\ p.postponed[Len(q.postponed) + 1] = Requested(t)
        <5>1. Requested(t) \in ItemType
          BY <1>7, EmptySeq DEF Requested, ItemType
        <5> HIDE DEF q, t
        <5> QED BY <1>9, <1>11, <5>1, AppendProperties
      <4>3. DOMAIN p.postponed = 1..(Len(q.postponed) + 1)
        BY <4>2, LenProperties
      <4>4. CASE i = Len(q.postponed) + 1
        <5>1. s = t
          BY <4>2, <4>4 DEF Requested
        <5> QED BY <1>12, <1>13, <5>1
      <4>5. CASE i \in 1..Len(q.postponed)
        <5>1. q.postponed[i].req = s /\ i \in DOMAIN q.postponed
          BY <4>1, <4>2, <4>5
        <5>2. s # None
          BY <1>1, <1>7 DEF None
        <5>3. s \in 1..made
          BY <1>0, <1>5, <5>1, <5>2 DEF TreeOK, ListsOK
        <5>4. req[s].wh = "handler"
          BY <3>1, <5>1, <5>3 DEF Entry
        <5>5. s # r
          BY <3>1, <5>4
        <5>6. s \in Requests /\ s # t
          BY <1>7, <5>3
        <5> QED BY <1>13, <5>4, <5>5, <5>6
      <4> QED BY <4>1, <4>3, <4>4, <4>5
    <3>4. Frame'.r = r /\ ~req'[r].done /\ ~req'[r].upstream /\ req'[r].wh \in {"empty", "upstream"}
      BY <1>11, <1>13, <1>18, <1>19, <3>1
    <3>5. \A s \in 1..made' : Entry(Frame.r, s)' => req'[s].wh = "handler"
      BY <3>3, <3>4 DEF Entry
    <3> QED BY <3>2, <3>4, <3>5 DEF AloneOK
  <2> QED BY <2>1, <2>2 DEF WorkOK
<1>24. OwedOK("work", d)'
  <2>1. Frame'.r = r /\ req'[r].uri = q.uri
    BY <1>11, <1>13, <1>18, <1>19
  <2>2. d <= MaxUri + 1 - q.uri /\ TopOwed("work") = 0
    BY <1>4 DEF OwedOK, TopOwed
  <2> QED BY <1>9, <2>1, <2>2 DEF OwedOK
<1>25. ASSUME Terminated PROVE TerminatedOK("work", d, l)'
  <2>1. posted # <<>> /\ posted[1] = Main
    BY <1>1, <1>4, <1>6, <1>25 DEF TerminatedOK
  <2>2. Cleanups' = {} /\ l = 1 /\ Waiting(l)' = 0 /\ TopOwed("work") = 0
    BY <1>5, <1>16, <1>25 DEF Waiting, TopOwed
  <2>3. Frame'.r # Main /\ count' >= 2 + d
    BY <1>0, <1>1, <1>5, <1>18, <1>19, <1>25
  <2>4. count' >= 1 + d + TopOwed("work") + Waiting(l)'
    BY <1>0, <1>1, <2>2, <2>3
  <2> QED BY <1>21, <2>1, <2>2, <2>3, <2>4 DEF TerminatedOK
<1>26. CallsOK("work", d, l)'
  <2>1. Shape(stack', k2, d, l) /\ OwedOK(k2, d)' /\ (k2 = "work" => WorkOK(l)')
        /\ (c.state = "request" /\ Terminated => TerminatedOK(k2, d, l)')
    BY <1>19, <1>20, <1>23, <1>24, <1>25
  <2>2. TopOwed(k2) = 0 /\ Discarding' = Discarding /\ Discarding' \in {0, 1} /\ count' \in Nat
    BY <1>0, <1>1, <1>16, <1>17, <1>20 DEF TopOwed
  <2>3. c.state = "request" => /\ count' >= 1
                               /\ count' + Cardinality(Live) + Discarding + d =
                                    count + Cardinality(Live') + Discarding' + d + TopOwed(k2)
    BY <1>0, <1>1, <1>17, <2>2
  <2>4. c.state # "linger"
    BY <1>6
  <2>5. CallsOK(k2, d, l)'
    BY <1>0, <1>3, <1>14, <1>16, <1>17, <1>21, <2>1, <2>2, <2>3, <2>4, WorkGoesOn
  <2> QED BY <1>20, <2>5
<1> QED BY <1>15, <1>16, <1>22, <1>26 DEF RequestInv, Kinds

\* The body of the main request is discarded.
LEMMA KeepsDiscard ==
  ASSUME RequestInv, Discard
  PROVE  RequestInv'
<1> DEFINE q == req[Main]
<1>0. LifeTypeOK /\ TreeOK /\ HandlersOK /\ req \in [Requests -> RequestType] /\ c \in ConnectionType /\ count \in Nat
  BY DEF RequestInv, LifeTypeOK
<1>1. /\ stack # <<>> /\ Frame.fn \in {"content", "special"} /\ Frame.r = Main /\ ~q.discard
      /\ UNCHANGED <<made, c, posted, stack>>
  BY DEF Discard, In
<1>2. IsWork(Frame) /\ Goes(Main) /\ ~q.done /\ ~q.upstream /\ Main \in Requests /\ q \in RequestType /\ q.wh # "handler"
  BY <1>1, LiveCall
<1>3. PICK d \in Nat, l \in {0, 1} : CallsOK("work", d, l)
  BY <1>1, <1>2, WorkCall
<1>4. /\ Shape(stack, "work", d, l) /\ OwedOK("work", d) /\ CountOK("work", d, l) /\ PostedOK("work", d, l) /\ WorkOK(l)
  BY <1>3 DEF CallsOK
<1>5. Allocated /\ CallOK(l) /\ (l = 0 => AloneOK) /\ ~Terminated /\ (c.state = "linger" => q.done)
  BY <1>0, <1>1, <1>2, <1>3, WorkFacts
<1>6. c.state = "request"
  BY <1>2, <1>5 DEF Allocated
<1>7. PICK p \in RequestType, e \in {0, 1} :
        /\ req' = [req EXCEPT ![Main] = p] /\ count' = count + e
        /\ p.parent = q.parent /\ p.wh = q.wh /\ p.uri = q.uri /\ p.postponed = q.postponed /\ p.items = q.items
        /\ p.upstream = q.upstream /\ p.done = q.done /\ (p.discard <=> e = 1)
  <2>1. CASE req' = [req EXCEPT ![Main].left = 0] /\ UNCHANGED count
    <3> DEFINE p == [q EXCEPT !.left = 0]
    <3>1. req' = [req EXCEPT ![Main] = p] /\ count' = count + 0
      BY <1>0, <1>2, <2>1 DEF RequestType
    <3>2. /\ p \in RequestType
          /\ p.parent = q.parent /\ p.wh = q.wh /\ p.uri = q.uri /\ p.postponed = q.postponed /\ p.items = q.items
          /\ p.upstream = q.upstream /\ p.done = q.done /\ p.discard = q.discard
      BY <1>2 DEF RequestType
    <3> HIDE DEF p
    <3>3. p.discard <=> 0 = 1
      BY <1>1, <3>2
    <3> QED BY <3>1, <3>2, <3>3
  <2>2. CASE req' = [req EXCEPT ![Main].discard = TRUE, ![Main].rh = "discard"] /\ count' = count + 1
    <3> DEFINE p == [q EXCEPT !.discard = TRUE, !.rh = "discard"]
    <3>1. req' = [req EXCEPT ![Main] = p]
      BY <1>0, <1>2, <2>2 DEF RequestType
    <3>2. /\ p \in RequestType
          /\ p.parent = q.parent /\ p.wh = q.wh /\ p.uri = q.uri /\ p.postponed = q.postponed /\ p.items = q.items
          /\ p.upstream = q.upstream /\ p.done = q.done /\ (p.discard <=> 1 = 1)
      BY <1>2 DEF RequestType
    <3> HIDE DEF p
    <3> QED BY <2>2, <3>1, <3>2
  <2> QED BY <2>1, <2>2 DEF Discard
<1>8. req' \in [Requests -> RequestType] /\ req'[Main] = p /\ \A x \in Requests : x # Main => req'[x] = req[x]
  BY <1>0, <1>2, <1>7, Put
<1>9. \A x \in Requests : /\ req'[x].parent = req[x].parent /\ req'[x].done = req[x].done /\ req'[x].wh = req[x].wh
                          /\ req'[x].postponed = req[x].postponed /\ req'[x].items = req[x].items
                          /\ req'[x].upstream = req[x].upstream /\ req'[x].uri = req[x].uri
  BY <1>7, <1>8
<1>10. LifeTypeOK'
  <2>1. count' \in Nat
    BY <1>0, <1>7
  <2> QED BY <1>0, <1>1, <1>8, <2>1 DEF LifeTypeOK
<1>11. TreeOK'
  <2>1. \A x \in Requests : req[x].items >= req[x].items
    BY <1>0, RequestFields
  <2> QED BY <1>0, <1>1, <1>8, <1>9, <2>1, TreeKept
<1>12. HandlersOK' /\ Terminated' = Terminated
  <2>1. \A x \in Requests : req'[x].upstream => x # Main /\ req'[x] = req[x]
    BY <1>2, <1>8, <1>9
  <2>2. \A x \in Requests : req'[x].wh = "handler" => x # Main /\ req'[x] = req[x]
    BY <1>2, <1>8, <1>9
  <2> QED BY <1>0, <1>1, <1>2, <1>9, <2>1, <2>2 DEF HandlersOK, Terminated
<1>13. Live' = Live /\ Cardinality(Live) \in Nat /\ Discarding = 0 /\ Discarding' = e
  <2>1. Discarding = 0 /\ Discarding' = e
    BY <1>1, <1>7, <1>8 DEF Discarding
  <2> QED BY <1>0, <1>1, <1>9, <2>1, SameLive, LiveFacts
<1>14. CountOK("work", d, l)'
  <2>1. count >= 1 /\ count = Cardinality(Live) + d /\ TopOwed("work") = 0
    BY <1>4, <1>5, <1>6, <1>13 DEF CountOK, Normal, TopOwed
  <2>2. count' >= 1 /\ count' = Cardinality(Live') + Discarding' + d + TopOwed("work")
    BY <1>7, <1>13, <2>1
  <2>3. count' <= Cardinality(Live') + Discarding' + d + TopOwed("work")
    BY <1>10, <2>2 DEF LifeTypeOK
  <2> QED BY <2>2, <2>3 DEF CountOK
<1>15. Frame' = Frame /\ Frame.r \in Requests
  BY <1>1, <1>2 DEF Frame
<1>16. WorkOK(l)'
  <2>1. CallOK(l)'
    BY <1>1, <1>2, <1>5, <1>9, <1>15 DEF CallOK
  <2>2. l = 0 => AloneOK'
    <3>1. \A s \in 1..made : s \in Requests
      BY <1>0, MadeAreRequests
    <3>2. \A s \in 1..made : Entry(Frame.r, s)' => Entry(Frame.r, s)
      BY <1>9, <1>15 DEF Entry
    <3> QED BY <1>1, <1>5, <1>9, <1>15, <3>1, <3>2 DEF AloneOK
  <2> QED BY <2>1, <2>2 DEF WorkOK
<1>17. OwedOK("work", d)'
  BY <1>4, <1>9, <1>15 DEF OwedOK
<1>18. PostedOK("work", d, l)'
  <2>1. ToSet(posted) \subseteq Requests
    BY <1>0, MadeAreRequests, PostedFacts
  <2> QED BY <1>1, <1>4, <1>5, <1>6, <1>9, <1>12, <1>15, <2>1 DEF PostedOK, Normal, Allocated
<1>19. CallsOK("work", d, l)'
  BY <1>1, <1>4, <1>5, <1>6, <1>12, <1>14, <1>16, <1>17, <1>18 DEF CallsOK, TerminatedOK, LingerOK, FreedOK, Allocated
<1> QED BY <1>10, <1>11, <1>12, <1>19 DEF RequestInv, Kinds

-----------------------------------------------------------------------------
(* Events *)

\* No call is left between two events.
LEMMA NoCalls ==
  ASSUME RequestInv, stack = <<>>
  PROVE  CallsOK("none", 0, 0)
<1>1. PICK k \in Kinds, d \in Nat, l \in {0, 1} : CallsOK(k, d, l)
  BY DEF RequestInv
<1>2. Len(stack) = Height(k) + d + l
  BY <1>1 DEF CallsOK, Shape
<1>3. Len(stack) = 0
  OBVIOUS
<1>4. k = "none" /\ d = 0 /\ l = 0
  <2>1. Height(k) \in {0, 1, 2} /\ (Height(k) = 0 => k = "none")
    BY DEF Height
  <2>2. PICK h \in {0, 1, 2} : h = Height(k)
    BY <2>1
  <2>3. h + d + l = 0
    BY <1>2, <1>3, <2>2
  <2>4. h = 0 /\ d = 0 /\ l = 0
    BY <1>1, <2>3
  <2> QED BY <2>1, <2>2, <2>4
<1> QED BY <1>1, <1>4

\* The calls an event makes.
LEMMA EventCalls ==
  ASSUME LifeTypeOK, made' = made, NEW f \in CallType, f.r <= made
  PROVE  /\ stack' = <<f, RunPosted>> => StackTypes /\ stack' # <<>> /\ Frame' = f
         /\ stack' = <<f, RunPosted>> /\ IsWork(f) => Shape(stack', "work", 0, 1)
         /\ stack' = <<f, RunPosted>> /\ IsDone(f) => Shape(stack', "none", 1, 1)
         /\ stack' = <<f>> => StackTypes /\ stack' # <<>> /\ Frame' = f
         /\ stack' = <<f>> /\ IsWork(f) => Shape(stack', "work", 0, 0)
         /\ stack' = <<f>> /\ f.fn = "close" => Shape(stack', "close", 0, 0)
         /\ stack' = <<RunPosted>> => StackTypes /\ Shape(stack', "none", 0, 1)
<1>1. RunPosted \in CallType /\ RunPosted.fn = "run_posted" /\ RunPosted.r = Main /\ Main <= made /\ made \in Nat
  <2>1. Main \in Requests /\ made \in Nat
    BY MadeAreRequests, HttpBounds
  <2> QED BY <2>1 DEF RunPosted, Call, CallType, Codes, Main
<1>2. ASSUME stack' = <<f, RunPosted>>
      PROVE  /\ StackTypes /\ stack' # <<>> /\ Frame' = f
             /\ IsWork(f) => Shape(stack', "work", 0, 1)
             /\ IsDone(f) => Shape(stack', "none", 1, 1)
  <2>1. stack' \in Seq(CallType) /\ Len(stack') = 2 /\ stack'[1] = f /\ stack'[2] = RunPosted /\ DOMAIN stack' = 1..2
        /\ stack' # <<>> /\ Frame' = f
    BY <1>1, <1>2 DEF Frame
  <2>2. StackTypes
    BY <1>1, <2>1 DEF StackTypes
  <2> QED BY <1>1, <2>1, <2>2 DEF Shape, Height
<1>3. ASSUME stack' = <<f>>
      PROVE  /\ StackTypes /\ stack' # <<>> /\ Frame' = f
             /\ IsWork(f) => Shape(stack', "work", 0, 0)
             /\ f.fn = "close" => Shape(stack', "close", 0, 0)
  <2>1. stack' \in Seq(CallType) /\ Len(stack') = 1 /\ stack'[1] = f /\ DOMAIN stack' = 1..1
        /\ stack' # <<>> /\ Frame' = f
    BY <1>3 DEF Frame
  <2>2. StackTypes
    BY <1>1, <2>1 DEF StackTypes
  <2> QED BY <2>1, <2>2 DEF Shape, Height
<1>4. ASSUME stack' = <<RunPosted>>
      PROVE  StackTypes /\ Shape(stack', "none", 0, 1)
  <2>1. stack' \in Seq(CallType) /\ Len(stack') = 1 /\ stack'[1] = RunPosted /\ DOMAIN stack' = 1..1
    BY <1>1, <1>4
  <2>2. StackTypes
    BY <1>1, <2>1 DEF StackTypes
  <2> QED BY <1>1, <2>1, <2>2 DEF Shape, Height
<1> QED BY <1>2, <1>3, <1>4

\* What holds between two events.
LEMMA IdleFacts ==
  ASSUME RequestInv, Idle
  PROVE  /\ c.state = "request" /\ count >= 1 /\ count \in Nat
         /\ count <= Cardinality(Live) + Discarding
         /\ ~Terminated => count = Cardinality(Live) + Discarding
         /\ Terminated => posted # <<>> /\ posted[1] = Main /\ count >= 1 + Waiting(0) /\ Cleanups = {}
         /\ ~Terminated => \A x \in ToSet(posted) : ~req[x].done /\ (req[x].items > 0 \/ req[x].wh = "handler")
<1>1. stack = <<>> /\ c.state = "request" /\ LifeTypeOK /\ HandlersOK /\ count \in Nat
  BY DEF Idle, RequestInv, LifeTypeOK
<1>2. CallsOK("none", 0, 0)
  BY <1>1, NoCalls
<1>3. CountOK("none", 0, 0) /\ TerminatedOK("none", 0, 0) /\ PostedOK("none", 0, 0)
  BY <1>2 DEF CallsOK
<1>4. Cardinality(Live) \in Nat /\ Discarding \in {0, 1} /\ TopOwed("none") = 0 /\ Waiting(0) \in {0, 1, 2}
  BY <1>1, LiveFacts DEF TopOwed, Waiting
<1>5. /\ count >= 1 /\ count <= Cardinality(Live) + Discarding
      /\ ~Terminated => count = Cardinality(Live) + Discarding
  BY <1>1, <1>3, <1>4 DEF CountOK, Normal
<1>6. Terminated => posted # <<>> /\ posted[1] = Main /\ count >= 1 + Waiting(0) /\ Cleanups = {}
  BY <1>1, <1>3, <1>4 DEF TerminatedOK
<1>7. ~Terminated => \A x \in ToSet(posted) : ~req[x].done /\ (req[x].items > 0 \/ req[x].wh = "handler")
  BY <1>1, <1>3 DEF PostedOK, Normal, Allocated
<1> QED BY <1>1, <1>5, <1>6, <1>7

\* An event lets an upstream go, or no request changes.
LetsGo(r, p) ==
  /\ p \in RequestType /\ req' = [req EXCEPT ![r] = p] /\ UNCHANGED <<made, count, posted>>
  /\ p.parent = req[r].parent /\ p.done = req[r].done /\ p.postponed = req[r].postponed /\ p.items = req[r].items
  /\ p.wh = req[r].wh /\ p.rh = req[r].rh /\ p.uri = req[r].uri /\ p.discard = req[r].discard
  /\ p.upstream => req[r].upstream
  /\ c' \in ConnectionType /\ c'.data = c.data /\ c'.state = c.state

\* What such an event leaves alone.
LEMMA EventChanges ==
  ASSUME RequestInv, Idle, NEW r \in Requests, NEW p, LetsGo(r, p), StackTypes
  PROVE  /\ LifeTypeOK' /\ TreeOK' /\ HandlersOK' /\ Live' = Live /\ Discarding' = Discarding /\ Terminated' = Terminated
         /\ Cleanups' \subseteq Cleanups
         /\ req'[r] = p /\ \A x \in Requests : x # r => req'[x] = req[x]
         /\ \A x \in Requests : /\ req'[x].parent = req[x].parent /\ req'[x].done = req[x].done /\ req'[x].postponed = req[x].postponed
                                /\ req'[x].items = req[x].items /\ req'[x].wh = req[x].wh
<1>1. LifeTypeOK /\ TreeOK /\ HandlersOK /\ req \in [Requests -> RequestType] /\ UNCHANGED <<made, count, posted>>
  BY DEF RequestInv, LifeTypeOK, LetsGo
<1>2. /\ req' \in [Requests -> RequestType] /\ req'[r] = p /\ \A x \in Requests : x # r => req'[x] = req[x]
  BY <1>1, Put DEF LetsGo
<1>3. \A x \in Requests : /\ req'[x].parent = req[x].parent /\ req'[x].done = req[x].done /\ req'[x].postponed = req[x].postponed
                          /\ req'[x].items = req[x].items /\ req'[x].wh = req[x].wh /\ req'[x].rh = req[x].rh
                          /\ req'[x].discard = req[x].discard /\ (req'[x].upstream => req[x].upstream)
  BY <1>2 DEF LetsGo
<1>4. LifeTypeOK'
  BY <1>1, <1>2 DEF LifeTypeOK, LetsGo, StackTypes
<1>5. TreeOK'
  <2>1. \A x \in Requests : req[x].items >= req[x].items
    BY <1>1, RequestFields
  <2>2. c'.data = c.data
    BY DEF LetsGo
  <2> QED BY <1>1, <1>2, <1>3, <2>1, <2>2, TreeKept
<1>6. HandlersOK'
  BY <1>1, <1>3, HttpBounds DEF HandlersOK
<1>7. Live' = Live
  BY <1>1, <1>3, SameLive
<1>8. Discarding' = Discarding /\ Terminated' = Terminated /\ Cleanups' \subseteq Cleanups
  BY <1>3, HttpBounds DEF Discarding, Terminated, Cleanups
<1> QED BY <1>2, <1>3, <1>4, <1>5, <1>6, <1>7, <1>8

\* An event calls a function for a request; posted requests are run afterwards.
LEMMA EventWorks ==
  ASSUME RequestInv, Idle, NEW r \in Requests, NEW p, LetsGo(r, p),
         NEW f \in CallType, IsWork(f), f.r <= made, stack' = <<f, RunPosted>>,
         stack' # <<>> /\ Frame' = f => CallOK(1)',
         Terminated => \/ f.fn = "finalize" /\ Fatal(f.rc)'
                       \/ f.fn = "write" /\ (f.r = Main \/ count >= 2 \/ req[f.r].wh \in {"empty", "upstream"})
  PROVE  RequestInv'
<1>0. LifeTypeOK /\ HandlersOK /\ UNCHANGED <<made, count, posted>> /\ c'.state = c.state
  BY DEF RequestInv, LetsGo
<1>1. StackTypes /\ Frame' = f /\ stack' # <<>> /\ Shape(stack', "work", 0, 1)
  BY <1>0, EventCalls
<1>2. /\ LifeTypeOK' /\ TreeOK' /\ HandlersOK' /\ Live' = Live /\ Discarding' = Discarding /\ Terminated' = Terminated
      /\ Cleanups' \subseteq Cleanups
      /\ \A x \in Requests : req'[x].done = req[x].done /\ req'[x].items = req[x].items /\ req'[x].wh = req[x].wh
  BY <1>1, EventChanges
<1>3. /\ c.state = "request" /\ count >= 1 /\ count \in Nat
      /\ count <= Cardinality(Live) + Discarding
      /\ ~Terminated => count = Cardinality(Live) + Discarding
      /\ Terminated => posted # <<>> /\ posted[1] = Main /\ count >= 1 + Waiting(0) /\ Cleanups = {}
      /\ ~Terminated => \A x \in ToSet(posted) : ~req[x].done /\ (req[x].items > 0 \/ req[x].wh = "handler")
  BY IdleFacts
<1>4. /\ TopOwed("work") = 0 /\ Cardinality(Live) \in Nat /\ Discarding \in {0, 1} /\ Waiting(1)' = 0 /\ Waiting(0) \in {0, 1, 2}
      /\ MaxUri \in Nat /\ f.r \in Requests /\ 0..made \subseteq Requests
  BY <1>0, LiveFacts, HttpBounds, MadeAreRequests DEF TopOwed, Waiting, CallType
<1>5. CountOK("work", 0, 1)'
  BY <1>0, <1>2, <1>3, <1>4 DEF CountOK, Normal
<1>6. OwedOK("work", 0)'
  <2>1. req'[f.r].uri \in Nat /\ req'[f.r].uri <= MaxUri + 1
    BY <1>2, <1>4, RequestFields DEF LifeTypeOK
  <2> QED BY <1>1, <1>4, <2>1 DEF OwedOK
<1>7. WorkOK(1)'
  BY <1>1 DEF WorkOK
<1>8. TerminatedOK("work", 0, 1)'
  <2> SUFFICES ASSUME Terminated
               PROVE  \/ f.fn = "write" /\ f.r = Main
                      \/ /\ posted # <<>> /\ posted[1] = Main
                         /\ count >= 1
                         /\ Cleanups' = {}
                         /\ \/ f.fn = "finalize" /\ Fatal(f.rc)'
                            \/ f.r # Main /\ count >= 2
                            \/ f.fn = "write" /\ req'[f.r].wh \in {"empty", "upstream"}
    <3>1. Fatal(f.rc)' <=> Fatal(Frame.rc)'
      BY <1>1 DEF Fatal
    <3> QED BY <1>0, <1>1, <1>2, <1>3, <1>4, <3>1 DEF TerminatedOK
  <2>1. posted # <<>> /\ posted[1] = Main /\ count >= 1 /\ Cleanups' = {}
    BY <1>2, <1>3
  <2>2. req'[f.r].wh = req[f.r].wh
    BY <1>2, <1>4
  <2> QED BY <2>1, <2>2
<1>9. PostedOK("work", 0, 1)'
  <2>1. ToSet(posted) \subseteq Requests
    BY <1>0, <1>4, PostedFacts
  <2> QED BY <1>0, <1>2, <1>3, <2>1 DEF PostedOK, Normal
<1>10. CallsOK("work", 0, 1)'
  BY <1>0, <1>1, <1>3, <1>5, <1>6, <1>7, <1>8, <1>9 DEF CallsOK, LingerOK, FreedOK, Allocated
<1> QED BY <1>2, <1>10 DEF RequestInv, Kinds

\* A request that the event leaves alone.
LEMMA LetsAlone ==
  ASSUME RequestInv, NEW r \in Requests, UNCHANGED <<req, made, count, posted>>,
         c' \in ConnectionType, c'.data = c.data, c'.state = c.state
  PROVE  LetsGo(r, req[r])
<1>1. req \in [Requests -> RequestType]
  BY DEF RequestInv, LifeTypeOK
<1>2. req' = [req EXCEPT ![r] = req[r]] /\ req[r] \in RequestType
  BY <1>1
<1> QED BY <1>2 DEF LetsGo

\* The socket of the client can be written to, or its timer is due.
LEMMA KeepsWriteEvent ==
  ASSUME RequestInv, WriteEvent
  PROVE  RequestInv'
<1> DEFINE r == c.data
<1>0. LifeTypeOK /\ TreeOK /\ HandlersOK /\ c \in ConnectionType /\ r \in Requests /\ r <= made /\ count \in Nat
  BY DEF RequestInv, LifeTypeOK, ConnectionType
<1>1. Idle /\ UNCHANGED <<req, made, count, posted>>
  BY DEF WriteEvent
<1>2. PICK rc \in {"ok", "timeout"} :
        stack' = <<Call("write", r, rc), RunPosted>> /\ c' = [c EXCEPT !.wtimer = @ /\ rc = "ok"]
  BY DEF WriteEvent
<1>3. c' \in ConnectionType /\ c'.data = c.data /\ c'.state = c.state /\ c'.error = c.error
  BY <1>0, <1>2 DEF ConnectionType
<1> DEFINE f == Call("write", r, rc)
<1>4. f \in CallType /\ IsWork(f) /\ f.r = r /\ f.fn = "write" /\ f.rc = rc
  BY <1>0 DEF CallType, Call, IsWork, IsDone, WorkFns, Codes
<1>5. stack' = <<f, RunPosted>>
  BY <1>2
<1> HIDE DEF f
<1>6. LetsGo(r, req[r])
  BY <1>0, <1>1, <1>3, LetsAlone
<1>7. Frame' = f => CallOK(1)'
  <2> SUFFICES ASSUME Frame' = f PROVE CallOK(1)'
    OBVIOUS
  <2>1. r # Main => ~req[r].done
    BY <1>0, ActiveIsLive
  <2> QED BY <1>1, <1>3, <1>4, <2>1 DEF CallOK
<1>8. Terminated => f.r = Main \/ count >= 2 \/ req[f.r].wh \in {"empty", "upstream"}
  <2> SUFFICES ASSUME Terminated, r # Main, ~(count >= 2) PROVE req[r].wh \in {"empty", "upstream"}
    BY <1>4
  <2>1. count >= 1 + Waiting(0)
    BY <1>1, IdleFacts
  <2>2. ~Finishing(r)
    <3>1. Discarding \in {0, 1}
      BY <1>0, LiveFacts
    <3>2. Finishing(r) => Waiting(0) = Discarding + 1
      BY DEF Waiting
    <3> QED BY <1>0, <2>1, <3>1, <3>2
  <2>3. req[r].wh \in Handlers /\ req[r].wh # "terminate"
    BY <1>0, RequestFields DEF HandlersOK, LifeTypeOK
  <2> QED BY <2>2, <2>3 DEF Finishing, Handlers
<1>9. f.r <= made
  BY <1>0, <1>4
<1> QED BY <1>0, <1>1, <1>4, <1>5, <1>6, <1>7, <1>8, <1>9, EventWorks

\* When the main request is over, so is every subrequest.
LEMMA AllOver ==
  ASSUME LifeTypeOK, TreeOK, req[Main].done
  PROVE  \A s \in 0..made : req[s].done
<1>1. made \in Nat /\ 0..made \subseteq Nat
  BY MadeAreRequests
<1>2. Live = {}
  <2> SUFFICES ASSUME Live # {} PROVE FALSE
    OBVIOUS
  <2>1. Live \in SUBSET Nat
    BY <1>1 DEF Live
  <2>2. PICK s \in Live : \A t \in Live : s <= t
    BY <2>1, LeastNatural
  <2>3. s \in 1..made /\ ~req[s].done
    BY <1>1, <2>2 DEF Live, Main
  <2>4. req[s].parent \in 0..(s - 1) /\ ~req[req[s].parent].done
    BY <2>3 DEF TreeOK, ParentsOK
  <2>5. req[s].parent \in Live /\ req[s].parent < s
    BY <1>1, <2>3, <2>4 DEF Live
  <2> QED BY <1>1, <2>2, <2>3, <2>4, <2>5
<1> QED BY <1>2 DEF Live

\* The active request is not over, unless only the body is still discarded.
LEMMA ActiveLives ==
  ASSUME RequestInv, Idle, ~Terminated
  PROVE  ~req[c.data].done \/ req[Main].discard
<1>1. LifeTypeOK /\ TreeOK /\ HandlersOK
  BY DEF RequestInv
<1>2. CASE c.data # Main
  BY <1>1, <1>2, ActiveIsLive
<1>3. CASE c.data = Main /\ req[Main].done
  <2>1. Live = {}
    BY <1>1, <1>3, AllOver DEF Live
  <2>2. Cardinality(Live) = 0
    BY <2>1, FS_EmptySet
  <2>3. count >= 1 /\ count = Cardinality(Live) + Discarding
    BY IdleFacts
  <2> QED BY <2>2, <2>3 DEF Discarding
<1> QED BY <1>2, <1>3

\* The client closes its side.
LEMMA KeepsClientCloses ==
  ASSUME RequestInv, ClientCloses
  PROVE  RequestInv'
<1>r. PICK r \in Requests : r = c.data
  BY DEF RequestInv, LifeTypeOK, ConnectionType
<1> DEFINE q == req[r]
           p == [q EXCEPT !.upstream = FALSE]
<1>0. LifeTypeOK /\ TreeOK /\ HandlersOK /\ req \in [Requests -> RequestType] /\ c \in ConnectionType
      /\ r <= made /\ count \in Nat /\ q \in RequestType
  BY <1>r DEF RequestInv, LifeTypeOK, ConnectionType
<1>1. Idle /\ UNCHANGED <<made, count, posted>> /\ q.rh \in {"test", "check"} /\ c' = [c EXCEPT !.error = TRUE]
  BY <1>r DEF ClientCloses
<1>2. c' \in ConnectionType /\ c'.data = c.data /\ c'.state = c.state /\ c'.error /\ c'.resolver = c.resolver
  BY <1>0, <1>1 DEF ConnectionType
<1>3. q.wh # "handler"
  BY <1>0, <1>1 DEF HandlersOK
<1>4. ~Terminated => ~q.done \/ req[Main].discard
  BY <1>r, <1>1, ActiveLives
<1>5. /\ p \in RequestType
      /\ p.parent = q.parent /\ p.done = q.done /\ p.postponed = q.postponed /\ p.items = q.items
      /\ p.wh = q.wh /\ p.rh = q.rh /\ p.uri = q.uri /\ p.discard = q.discard /\ ~p.upstream
  <2> HIDE DEF q
  <2> QED BY <1>0 DEF RequestType
<1> HIDE DEF p
<1>6. ASSUME NEW u \in RequestType, LetsGo(r, u), ~u.upstream, u.wh = q.wh, u.done = q.done, u.discard = q.discard, NEW rc \in {"ok", "closed"},
             stack' = <<Call("finalize", r, rc), RunPosted>>
      PROVE  RequestInv'
  <2> DEFINE f == Call("finalize", r, rc)
  <2>1. f \in CallType /\ IsWork(f) /\ f.r = r /\ f.fn = "finalize" /\ f.rc = rc
    BY <1>0 DEF CallType, Call, IsWork, IsDone, WorkFns, Codes
  <2>2. stack' = <<f, RunPosted>>
    BY <1>6
  <2> HIDE DEF f
  <2>3. req' = [req EXCEPT ![r] = u]
    BY <1>6 DEF LetsGo
  <2>4. req'[r] = u /\ Main \in Requests /\ req'[Main].discard = req[Main].discard
    BY <1>0, <1>6, <2>3, HttpBounds
  <2>5. Fatal(rc)'
    BY <1>2 DEF Fatal
  <2>6. Terminated' = Terminated
    BY <1>0, <1>6, <2>3, HttpBounds DEF Terminated
  <2>7. Frame' = f => CallOK(1)'
    <3> SUFFICES ASSUME Frame' = f PROVE CallOK(1)'
      OBVIOUS
    <3>1. Fatal(Frame.rc)'
      BY <2>1, <2>5 DEF Fatal
    <3> QED BY <1>3, <1>4, <1>6, <2>1, <2>4, <2>6, <3>1 DEF CallOK
  <2>8. Fatal(f.rc)' /\ f.r <= made
    BY <1>0, <1>2, <2>1 DEF Fatal
  <2> QED BY <1>0, <1>1, <1>6, <2>1, <2>2, <2>7, <2>8, EventWorks
<1>7. ASSUME q.rh = "test", stack' = <<Call("finalize", r, "ok"), RunPosted>>, UNCHANGED req PROVE RequestInv'
  <2>1. LetsGo(r, q)
    BY <1>0, <1>1, <1>2, <1>7, LetsAlone
  <2>2. ~q.upstream
    BY <1>0, <1>7 DEF HandlersOK
  <2> QED BY <1>0, <1>6, <1>7, <2>1, <2>2
<1>8. ASSUME stack' = <<Call("finalize", r, "closed"), RunPosted>>, req' = [req EXCEPT ![r].upstream = FALSE] PROVE RequestInv'
  <2>1. req' = [req EXCEPT ![r] = p]
    <3> QED BY <1>0, <1>8 DEF RequestType, p
  <2>2. LetsGo(r, p)
    BY <1>1, <1>2, <1>5, <2>1 DEF LetsGo
  <2> QED BY <1>5, <1>6, <1>8, <2>2
<1>9. ASSUME q.upstream, stack' = <<RunPosted>>, UNCHANGED req PROVE RequestInv'
  <2>1. LetsGo(r, q)
    BY <1>0, <1>1, <1>2, <1>9, LetsAlone
  <2>2. StackTypes /\ Shape(stack', "none", 0, 1)
    <3>1. RunPosted \in CallType /\ RunPosted.r <= made
      <4>1. Main \in Requests /\ made \in Nat
        BY <1>0, MadeAreRequests
      <4> QED BY <4>1 DEF RunPosted, Call, CallType, Codes, Main
    <3> QED BY <1>0, <1>1, <1>9, <3>1, EventCalls
  <2>3. /\ LifeTypeOK' /\ TreeOK' /\ HandlersOK' /\ Live' = Live /\ Discarding' = Discarding /\ Terminated' = Terminated
    BY <1>0, <1>1, <2>1, <2>2, EventChanges
  <2>4. /\ c.state = "request" /\ count >= 1 /\ count \in Nat
        /\ count <= Cardinality(Live) + Discarding
        /\ ~Terminated => count = Cardinality(Live) + Discarding
        /\ Terminated => Cleanups = {}
        /\ ~Terminated => \A x \in ToSet(posted) : ~req[x].done /\ (req[x].items > 0 \/ req[x].wh = "handler")
    BY <1>1, IdleFacts
  <2>5. ~Terminated
    BY <1>0, <1>9, <2>4 DEF Cleanups
  <2>6. TopOwed("none") = 0 /\ MaxUri \in Nat /\ Cardinality(Live) \in Nat /\ Discarding \in {0, 1}
    BY <1>0, HttpBounds, LiveFacts DEF TopOwed
  <2>7. CountOK("none", 0, 1)' /\ OwedOK("none", 0)' /\ PostedOK("none", 0, 1)'
    <3>1. CountOK("none", 0, 1)'
      BY <1>1, <2>3, <2>4, <2>5, <2>6 DEF CountOK, Normal
    <3>2. OwedOK("none", 0)'
      BY <2>6 DEF OwedOK
    <3>3. PostedOK("none", 0, 1)'
      BY <1>1, <1>9, <2>4, <2>5 DEF PostedOK
    <3> QED BY <3>1, <3>2, <3>3
  <2>8. CallsOK("none", 0, 1)'
    BY <1>2, <2>2, <2>3, <2>4, <2>5, <2>7 DEF CallsOK, TerminatedOK, LingerOK, FreedOK, Allocated
  <2> QED BY <2>3, <2>8 DEF RequestInv, Kinds
<1> QED BY <1>r, <1>7, <1>8, <1>9 DEF ClientCloses

\* An upstream answers or times out.
LEMMA KeepsUpstreamEvent ==
  ASSUME RequestInv, NEW r \in Requests, UpstreamEvent(r)
  PROVE  RequestInv'
<1> DEFINE f == Call("upstream", r, "none")
<1>0. LifeTypeOK /\ TreeOK /\ HandlersOK /\ c \in ConnectionType
  BY DEF RequestInv, LifeTypeOK
<1>1. Idle /\ UNCHANGED <<req, made, c, count, posted>> /\ req[r].upstream
  BY DEF UpstreamEvent
<1>2. r <= made /\ ~req[r].done /\ req[r].wh = "upstream"
  BY <1>0, <1>1 DEF HandlersOK
<1>3. f \in CallType /\ IsWork(f) /\ f.r = r /\ f.fn = "upstream"
  BY DEF CallType, Call, IsWork, IsDone, WorkFns, Codes
<1>4. stack' = <<f, RunPosted>>
  BY DEF UpstreamEvent
<1> HIDE DEF f
<1>5. LetsGo(r, req[r])
  BY <1>0, <1>1, LetsAlone
<1>6. Frame' = f => CallOK(1)'
  BY <1>1, <1>2, <1>3 DEF CallOK
<1>7. ~Terminated
  <2>1. Terminated => Cleanups = {}
    BY <1>1, IdleFacts
  <2> QED BY <1>1, <2>1 DEF Cleanups
<1> QED BY <1>1, <1>2, <1>3, <1>4, <1>5, <1>6, <1>7, EventWorks

\* The name of an upstream cannot be resolved.
LEMMA KeepsResolverFails ==
  ASSUME RequestInv, ResolverFails
  PROVE  RequestInv'
<1>0. LifeTypeOK /\ TreeOK /\ HandlersOK /\ req \in [Requests -> RequestType] /\ c \in ConnectionType
  BY DEF RequestInv, LifeTypeOK
<1>1. Idle /\ UNCHANGED <<made, count, posted>> /\ c' = [c EXCEPT !.resolver = TRUE]
  BY DEF ResolverFails
<1>2. PICK r \in Requests : /\ req[r].upstream /\ req[r].items = 0
                            /\ req' = [req EXCEPT ![r].upstream = FALSE]
                            /\ stack' = <<Call("finalize", r, "special")>>
  BY DEF ResolverFails
<1> DEFINE q == req[r]
           p == [q EXCEPT !.upstream = FALSE]
           f == Call("finalize", r, "special")
<1>3. c' \in ConnectionType /\ c'.data = c.data /\ c'.state = c.state /\ c'.error = c.error /\ c'.resolver
  BY <1>0, <1>1 DEF ConnectionType
<1>4. /\ p \in RequestType
      /\ p.parent = q.parent /\ p.done = q.done /\ p.postponed = q.postponed /\ p.items = q.items
      /\ p.wh = q.wh /\ p.rh = q.rh /\ p.uri = q.uri /\ p.discard = q.discard /\ ~p.upstream
  <2>1. q \in RequestType
    BY <1>0
  <2> HIDE DEF q
  <2> QED BY <2>1 DEF RequestType
<1>5. LetsGo(r, p)
  <2>1. req' = [req EXCEPT ![r] = p]
    BY <1>0, <1>2 DEF RequestType
  <2> HIDE DEF p
  <2> QED BY <1>1, <1>3, <1>4, <2>1 DEF LetsGo
<1> HIDE DEF p
<1>6. f \in CallType /\ IsWork(f) /\ f.r = r /\ f.fn = "finalize" /\ f.rc = "special" /\ stack' = <<f>>
  BY <1>2 DEF CallType, Call, IsWork, IsDone, WorkFns, Codes
<1> HIDE DEF f
<1>7. r <= made /\ ~q.done /\ q.wh = "upstream"
  BY <1>0, <1>2 DEF HandlersOK
<1>8. StackTypes /\ Frame' = f /\ stack' # <<>> /\ Shape(stack', "work", 0, 0)
  BY <1>0, <1>1, <1>6, <1>7, EventCalls
<1>9. /\ LifeTypeOK' /\ TreeOK' /\ HandlersOK' /\ Live' = Live /\ Discarding' = Discarding /\ Terminated' = Terminated
      /\ req'[r] = p
      /\ \A x \in Requests : /\ req'[x].parent = req[x].parent /\ req'[x].done = req[x].done /\ req'[x].postponed = req[x].postponed
                             /\ req'[x].items = req[x].items /\ req'[x].wh = req[x].wh
  BY <1>1, <1>5, <1>8, EventChanges
<1>10. /\ c.state = "request" /\ count >= 1 /\ count \in Nat
       /\ count <= Cardinality(Live) + Discarding
       /\ ~Terminated => count = Cardinality(Live) + Discarding
       /\ Terminated => Cleanups = {}
       /\ ~Terminated => \A x \in ToSet(posted) : ~req[x].done /\ (req[x].items > 0 \/ req[x].wh = "handler")
  BY <1>1, IdleFacts
<1>11. ~Terminated
  BY <1>2, <1>10 DEF Cleanups
<1>12. /\ TopOwed("work") = 0 /\ MaxUri \in Nat /\ Cardinality(Live) \in Nat /\ Discarding \in {0, 1}
       /\ 0..made \subseteq Requests /\ made \in Nat /\ q.uri \in Nat /\ q.uri <= MaxUri + 1
  BY <1>0, HttpBounds, LiveFacts, MadeAreRequests, RequestFields DEF TopOwed
<1>13. CountOK("work", 0, 0)'
  BY <1>1, <1>3, <1>9, <1>10, <1>11, <1>12 DEF CountOK, Normal
<1>14. OwedOK("work", 0)'
  BY <1>4, <1>6, <1>8, <1>9, <1>12 DEF OwedOK
<1>15. WorkOK(0)'
  <2>1. CallOK(0)'
    BY <1>4, <1>6, <1>7, <1>8, <1>9 DEF CallOK
  <2>2. AloneOK'
    <3>1. r \notin ToSet(posted)
      BY <1>2, <1>7, <1>10, <1>11
    <3>2. \A s \in 1..made : ~(\E i \in DOMAIN q.postponed : q.postponed[i].req = s)
      <4> SUFFICES ASSUME NEW s \in 1..made, NEW i \in DOMAIN req[r].postponed, req[r].postponed[i].req = s PROVE FALSE
        OBVIOUS
      <4>1. s # None /\ r \in 0..made
        BY <1>7, <1>12 DEF None, Requests
      <4>2. req[s].parent = r
        BY <1>0, <4>1 DEF TreeOK, ListsOK
      <4>3. req[r].items > 0
        BY <1>0, <4>2 DEF TreeOK, ParentsOK
      <4> QED BY <1>2, <4>3
    <3>3. \A s \in 1..made' : ~Entry(Frame.r, s)'
      BY <1>1, <1>6, <1>8, <1>9, <3>2 DEF Entry
    <3> QED BY <1>1, <1>4, <1>6, <1>7, <1>8, <1>9, <3>1, <3>3 DEF AloneOK
  <2> QED BY <2>1, <2>2 DEF WorkOK
<1>16. PostedOK("work", 0, 0)'
  <2>1. ToSet(posted) \subseteq Requests
    BY <1>0, <1>12, PostedFacts
  <2> QED BY <1>1, <1>3, <1>9, <1>10, <1>11, <2>1 DEF PostedOK, Normal
<1>17. CallsOK("work", 0, 0)'
  BY <1>3, <1>8, <1>9, <1>10, <1>11, <1>13, <1>14, <1>15, <1>16 DEF CallsOK, TerminatedOK, LingerOK, FreedOK, Allocated
<1> QED BY <1>9, <1>17 DEF RequestInv, Kinds

\* The body that the main request discards has been read, or can no longer be.
LEMMA KeepsDiscardEvent ==
  ASSUME RequestInv, BodyNotCopied, DiscardEvent
  PROVE  RequestInv'
<1> DEFINE q == req[Main]
           p == [q EXCEPT !.discard = FALSE, !.left = 0, !.rh = "block"]
<1>0. /\ LifeTypeOK /\ TreeOK /\ HandlersOK /\ req \in [Requests -> RequestType] /\ c \in ConnectionType
      /\ count \in Nat /\ Main \in Requests /\ q \in RequestType /\ Main <= made
  BY HttpBounds, MadeAreRequests DEF RequestInv, LifeTypeOK
<1>1. Idle /\ UNCHANGED <<made, count, posted>> /\ c.data = Main /\ q.discard
  BY <1>0 DEF DiscardEvent, BodyNotCopied, ConnectionType
<1>2. q.wh # "handler" /\ Discarding = 1
  BY <1>0, <1>1 DEF HandlersOK, Discarding
<1>3. /\ c.state = "request" /\ count >= 1 /\ count \in Nat
      /\ count <= Cardinality(Live) + Discarding
      /\ ~Terminated => count = Cardinality(Live) + Discarding
      /\ Terminated => posted # <<>> /\ posted[1] = Main /\ count >= 1 + Waiting(0) /\ Cleanups = {}
      /\ ~Terminated => \A x \in ToSet(posted) : ~req[x].done /\ (req[x].items > 0 \/ req[x].wh = "handler")
  BY <1>1, IdleFacts
<1>4. MaxUri \in Nat /\ Cardinality(Live) \in Nat /\ TopOwed("none") = 0 /\ Waiting(0) = 1 /\ Waiting(1) = 0
  BY <1>0, <1>1, <1>2, HttpBounds, LiveFacts DEF TopOwed, Waiting, Finishing
<1>5. CASE stack' = <<Call("finalize", Main, "error"), RunPosted>> /\ c' = [c EXCEPT !.error = TRUE] /\ UNCHANGED req
  <2> DEFINE f == Call("finalize", Main, "error")
  <2>1. f \in CallType /\ IsWork(f) /\ f.r = Main /\ f.fn = "finalize" /\ f.rc = "error" /\ stack' = <<f, RunPosted>>
    BY <1>0, <1>5 DEF CallType, Call, IsWork, IsDone, WorkFns, Codes
  <2> HIDE DEF f
  <2>2. c' \in ConnectionType /\ c'.data = c.data /\ c'.state = c.state /\ c'.error
    BY <1>0, <1>5 DEF ConnectionType
  <2>3. LetsGo(Main, req[Main])
    BY <1>0, <1>1, <1>5, <2>2, LetsAlone
  <2>4. Frame' = f => CallOK(1)'
    BY <1>1, <1>2, <1>5, <2>1 DEF CallOK, Fatal
  <2>5. Fatal(f.rc)' /\ f.r <= made
    BY <1>0, <2>1 DEF Fatal
  <2> QED BY <1>0, <1>1, <2>1, <2>3, <2>4, <2>5, EventWorks
<1>6. CASE /\ stack' = <<Call("finalize", Main, "done"), RunPosted>>
           /\ \E e \in BOOLEAN : c' = [c EXCEPT !.error = @ \/ e, !.taken = @]
           /\ req' = [req EXCEPT ![Main].discard = FALSE, ![Main].left = 0, ![Main].rh = "block"]
  <2> DEFINE f == Call("finalize", Main, "done")
  <2>1. f \in CallType /\ IsDone(f) /\ f.r = Main /\ stack' = <<f, RunPosted>>
    BY <1>0, <1>6 DEF CallType, Call, IsDone, WorkFns, Codes
  <2> HIDE DEF f
  <2>2. StackTypes /\ Shape(stack', "none", 1, 1)
    BY <1>0, <1>1, <2>1, EventCalls
  <2>3. c' \in ConnectionType /\ c'.data = c.data /\ c'.state = c.state
    BY <1>0, <1>6 DEF ConnectionType
  <2>4. req' = [req EXCEPT ![Main] = p]
    BY <1>0, <1>6 DEF RequestType
  <2>5. /\ p \in RequestType
        /\ p.parent = q.parent /\ p.done = q.done /\ p.postponed = q.postponed /\ p.items = q.items
        /\ p.wh = q.wh /\ p.uri = q.uri /\ p.upstream = q.upstream /\ p.rh = "block" /\ ~p.discard
    <3> HIDE DEF q
    <3> QED BY <1>0 DEF RequestType
  <2> HIDE DEF p
  <2>6. req' \in [Requests -> RequestType] /\ req'[Main] = p /\ \A x \in Requests : x # Main => req'[x] = req[x]
    BY <1>0, <2>4, <2>5, Put
  <2>7. \A x \in Requests : /\ req'[x].parent = req[x].parent /\ req'[x].done = req[x].done /\ req'[x].wh = req[x].wh
                            /\ req'[x].postponed = req[x].postponed /\ req'[x].items = req[x].items
                            /\ req'[x].upstream = req[x].upstream
    BY <2>5, <2>6
  <2>8. LifeTypeOK'
    BY <1>0, <1>1, <2>2, <2>3, <2>6 DEF LifeTypeOK, StackTypes
  <2>9. TreeOK'
    <3>1. \A x \in Requests : req[x].items >= req[x].items
      BY <1>0, RequestFields
    <3> QED BY <1>0, <1>1, <2>3, <2>6, <2>7, <3>1, TreeKept
  <2>10. HandlersOK' /\ Terminated' = Terminated
    <3>1. \A x \in Requests : req'[x].rh = req[x].rh \/ (x = Main /\ req'[x].rh = "block")
      BY <2>5, <2>6
    <3>2. ~req'[Main].discard
      BY <2>5, <2>6
    <3> QED BY <1>0, <1>1, <2>7, <3>1, <3>2 DEF HandlersOK, Terminated
  <2>11. Live' = Live /\ Discarding' = 0
    <3>1. Discarding' = 0
      BY <2>5, <2>6 DEF Discarding
    <3> QED BY <1>0, <1>1, <2>7, <3>1, SameLive
  <2>12. CountOK("none", 1, 1)'
    BY <1>1, <1>2, <1>3, <1>4, <2>10, <2>11 DEF CountOK, Normal
  <2>13. OwedOK("none", 1)'
    BY <1>4 DEF OwedOK
  <2>14. TerminatedOK("none", 1, 1)'
    <3>1. Waiting(1)' = 0
      BY DEF Waiting
    <3> QED BY <1>1, <1>3, <1>4, <2>3, <2>10, <3>1 DEF TerminatedOK
  <2>15. PostedOK("none", 1, 1)'
    <3>1. ToSet(posted) \subseteq Requests
      BY <1>0, MadeAreRequests, PostedFacts
    <3> QED BY <1>1, <1>3, <2>7, <2>10, <3>1 DEF PostedOK, Normal
  <2>16. CallsOK("none", 1, 1)'
    BY <1>3, <2>2, <2>3, <2>12, <2>13, <2>14, <2>15 DEF CallsOK, LingerOK, FreedOK, Allocated
  <2> QED BY <2>8, <2>9, <2>10, <2>16 DEF RequestInv, Kinds
<1> QED BY <1>1, <1>5, <1>6 DEF DiscardEvent

\* The time for the client to close its side is over.
LEMMA KeepsLingerEvent ==
  ASSUME RequestInv, LingerEvent
  PROVE  RequestInv'
<1> DEFINE f == Call("close", Main, "ok")
<1>0. /\ LifeTypeOK /\ TreeOK /\ HandlersOK /\ c \in ConnectionType /\ count \in Nat
      /\ Main \in Requests /\ Main <= made
  BY HttpBounds, MadeAreRequests DEF RequestInv, LifeTypeOK
<1>1. stack = <<>> /\ c.state = "linger" /\ UNCHANGED <<req, made, c, count, posted>> /\ stack' = <<f>>
  BY DEF LingerEvent
<1>2. f \in CallType /\ f.fn = "close" /\ f.r = Main
  BY <1>0 DEF CallType, Call, Codes
<1> HIDE DEF f
<1>3. StackTypes /\ Shape(stack', "close", 0, 0)
  BY <1>0, <1>1, <1>2, EventCalls
<1>4. LingerOK("none", 0, 0) /\ PostedOK("none", 0, 0)
  BY <1>1, NoCalls DEF CallsOK
<1>5. Live = {} /\ ~Terminated /\ count = 1 /\ ~req[Main].discard
  BY <1>1, <1>4 DEF LingerOK
<1>6. posted = <<>>
  <2> SUFFICES ASSUME posted # <<>> PROVE FALSE
    OBVIOUS
  <2>1. posted[1] \in ToSet(posted) /\ posted[1] \in 0..made
    <3>1. posted \in Seq(Requests) /\ Len(posted) \in Nat /\ Len(posted) # 0 /\ DOMAIN posted = 1..Len(posted)
      BY <1>0, EmptySeq, LenProperties DEF LifeTypeOK
    <3>2. 1 \in DOMAIN posted
      BY <3>1
    <3>3. posted[1] \in Requests /\ posted[1] <= made
      BY <1>0, <3>1, <3>2 DEF LifeTypeOK
    <3> QED BY <1>0, <3>2, <3>3, MadeAreRequests DEF ToSet, Requests
  <2>2. ~req[posted[1]].done
    BY <1>1, <1>4, <1>5, <2>1 DEF PostedOK, Normal, Allocated
  <2> QED BY <1>5, <2>1, <2>2 DEF Live
<1>7. /\ LifeTypeOK' /\ TreeOK' /\ HandlersOK' /\ Live' = Live /\ Discarding' = Discarding
      /\ Terminated' = Terminated /\ Cleanups' = Cleanups
  <2>1. PostedTypes
    BY <1>0, <1>1, SamePosted
  <2> QED BY <1>0, <1>1, <1>3, <2>1, RequestsKept
<1>8. CountOK("close", 0, 0)' /\ OwedOK("close", 0)' /\ PostedOK("close", 0, 0)'
  <2>1. OwedOK("close", 0)'
    BY HttpBounds DEF OwedOK, TopOwed
  <2>2. CountOK("close", 0, 0)'
    BY <1>1 DEF CountOK
  <2>3. PostedOK("close", 0, 0)'
    <3>1. ToSet(posted) = {}
      BY <1>6 DEF ToSet
    <3> QED BY <1>1, <1>6, <3>1 DEF PostedOK
  <2> QED BY <2>1, <2>2, <2>3
<1>9. CallsOK("close", 0, 0)'
  BY <1>1, <1>3, <1>5, <1>6, <1>7, <1>8 DEF CallsOK, TerminatedOK, LingerOK, FreedOK, Allocated
<1> QED BY <1>7, <1>9 DEF RequestInv, Kinds

\* A request begins with its main request alone.
LEMMA RequestBegins ==
  ASSUME HttpInit
  PROVE  RequestInv
<1>n. PICK n \in {0, 1} : n = IF "discard" \in may THEN 1 ELSE 0
  OBVIOUS
<1> DEFINE first == [Fresh EXCEPT !.left = n]
           f == Call("write", Main, "ok")
<1>0. MaxSubs \in Nat /\ MaxItems \in Nat /\ MaxUri \in Nat /\ Main \in Requests /\ Main = 0
  BY HttpBounds DEF Main
<1>1. /\ made = 0 /\ count = 1 /\ posted = <<>> /\ stack = <<f, RunPosted>> /\ req = [r \in Requests |-> first]
      /\ c = [data |-> Main, error |-> FALSE, buffered |-> FALSE, slow |-> 0, wtimer |-> FALSE,
              resolver |-> FALSE, taken |-> 0, state |-> "request"]
  BY <1>n DEF HttpInit
<1>2. /\ first \in RequestType
      /\ first.wh = "handler" /\ first.rh = "block" /\ first.uri = MaxUri + 1 /\ first.postponed = <<>>
      /\ ~first.upstream /\ ~first.discard /\ ~first.done
  <2>1. /\ <<>> \in Seq(ItemType) /\ <<>> \in Seq(Nat) /\ MaxUri + 1 \in 0..(MaxUri + 1) /\ 0 \in 0..MaxItems
        /\ None \in Requests \cup {None} /\ "handler" \in Handlers
    BY <1>0 DEF Handlers
  <2>2. Fresh \in RequestType
    BY <2>1 DEF Fresh, RequestType
  <2>3. first \in RequestType
    <3> HIDE DEF Fresh
    <3> QED BY <2>2 DEF RequestType
  <2>4. /\ first.wh = "handler" /\ first.rh = "block" /\ first.uri = MaxUri + 1 /\ first.postponed = <<>>
        /\ ~first.upstream /\ ~first.discard /\ ~first.done
    BY DEF Fresh
  <2> QED BY <2>3, <2>4
<1> HIDE DEF first
<1>3. f \in CallType /\ f.fn = "write" /\ f.rc = "ok" /\ f.r = Main /\ RunPosted \in CallType /\ RunPosted.r = Main
      /\ RunPosted.fn = "run_posted"
  BY <1>0 DEF Call, RunPosted, CallType, WorkFns, Codes
<1> HIDE DEF f
<1>4. /\ stack \in Seq(CallType) /\ Len(stack) = 2 /\ stack[1] = f /\ stack[2] = RunPosted /\ DOMAIN stack = 1..2
      /\ Frame = f /\ IsWork(f)
  BY <1>1, <1>3 DEF Frame, IsWork, IsDone, WorkFns
<1>5. req \in [Requests -> RequestType] /\ \A r \in Requests : req[r] = first
  BY <1>1, <1>2
<1>6. LifeTypeOK
  <2>1. c \in ConnectionType /\ c.data = 0
    BY <1>0, <1>1 DEF ConnectionType
  <2>2. posted \in Seq(Requests) /\ DOMAIN posted = {}
    BY <1>1
  <2>3. \A i \in DOMAIN stack : stack[i].r <= made
    BY <1>0, <1>1, <1>3, <1>4
  <2> QED BY <1>0, <1>1, <1>4, <1>5, <2>1, <2>2, <2>3 DEF LifeTypeOK
<1>7. TreeOK
  <2>1. ParentsOK
    BY <1>1 DEF ParentsOK
  <2>2. ListsOK
    <3>1. \A r \in 0..made : DOMAIN req[r].postponed = {}
      BY <1>0, <1>1, <1>2, <1>5
    <3> QED BY <3>1 DEF ListsOK
  <2>3. Path({Main})
    BY <1>0, <1>1 DEF Path
  <2> QED BY <2>1, <2>2, <2>3 DEF TreeOK
<1>8. HandlersOK
  BY <1>0, <1>2, <1>5 DEF HandlersOK
<1>9. Live = {0} /\ Cardinality(Live) = 1 /\ Discarding = 0 /\ ~Terminated
  <2>1. Live = {0}
    BY <1>0, <1>1, <1>2, <1>5 DEF Live
  <2>2. Discarding = 0 /\ ~Terminated
    BY <1>0, <1>2, <1>5 DEF Discarding, Terminated
  <2> QED BY <2>1, <2>2, FS_Singleton
<1>10. Shape(stack, "work", 0, 1)
  BY <1>3, <1>4 DEF Shape, Height
<1>11. TopOwed("work") = 0
  BY DEF TopOwed
<1>12. OwedOK("work", 0)
  <2>1. req[Frame.r].uri = MaxUri + 1
    BY <1>0, <1>2, <1>3, <1>4, <1>5
  <2> QED BY <1>0, <1>11, <2>1 DEF OwedOK
<1>13. WorkOK(1)
  BY <1>1, <1>3, <1>4 DEF WorkOK, CallOK
<1>14. CountOK("work", 0, 1)
  BY <1>1, <1>9, <1>11 DEF CountOK, Normal
<1>15. PostedOK("work", 0, 1)
  <2>1. ToSet(posted) = {}
    BY <1>1 DEF ToSet
  <2> QED BY <1>1, <2>1 DEF PostedOK
<1>16. CallsOK("work", 0, 1)
  BY <1>1, <1>9, <1>10, <1>12, <1>13, <1>14, <1>15 DEF CallsOK, TerminatedOK, LingerOK, FreedOK, Allocated
<1> QED BY <1>6, <1>7, <1>8, <1>16 DEF RequestInv, Kinds

\* Every step of a request keeps it.
LEMMA RequestStays ==
  ASSUME RequestInv, BodyNotCopied, HttpNext
  PROVE  RequestInv'
<1>1. CASE HttpStep
  <2>1. CASE WriteHandler
    <3>1. CASE req[Frame.r].wh = "terminate"
      BY <2>1, <3>1, KeepsTerminateHandler
    <3>2. CASE req[Frame.r].wh # "terminate"
      BY <2>1, <3>2, KeepsWriteHandler
    <3> QED BY <3>1, <3>2
  <2>2. CASE Produce \/ Subrequest \/ InternalRedirect \/ GoUpstream \/ Discard
    BY <2>2, KeepsProduce, KeepsSubrequest, KeepsInternalRedirect, KeepsGoUpstream, KeepsDiscard
  <2>3. CASE ContentEnds \/ ContentFails \/ UpstreamWaits \/ SendSpecial
    BY <2>3, KeepsContentEnds, KeepsContentFails, KeepsUpstreamWaits, KeepsSendSpecial
  <2>4. CASE FinalizeError \/ FinalizeSpecial \/ FinalizePending \/ FinalizeSub \/ FinalizeMain
    BY <2>4, KeepsFinalizeError, KeepsFinalizeSpecial, KeepsFinalizePending, KeepsFinalizeSub, KeepsFinalizeMain
  <2>5. CASE Terminate \/ FinalizeConnection \/ Close \/ RunPostedRequests
    BY <2>5, KeepsTerminate, KeepsFinalizeConnection, KeepsClose, KeepsRunPostedRequests
  <2>6. CASE Writer \/ UpstreamWrite
    BY <2>6, KeepsWriter, KeepsUpstreamWrite
  <2> QED BY <1>1, <2>1, <2>2, <2>3, <2>4, <2>5, <2>6 DEF HttpStep
<1>2. CASE WriteEvent \/ ClientCloses \/ DiscardEvent \/ ResolverFails \/ LingerEvent
  BY <1>2, KeepsWriteEvent, KeepsClientCloses, KeepsDiscardEvent, KeepsResolverFails, KeepsLingerEvent
<1>3. CASE \E r \in Requests : UpstreamEvent(r)
  BY <1>3, KeepsUpstreamEvent
<1> QED BY <1>1, <1>2, <1>3 DEF HttpNext

\* A step that leaves the request alone keeps it.
LEMMA RequestRests ==
  ASSUME RequestInv, UNCHANGED httpVars
  PROVE  RequestInv'
<1>1. UNCHANGED <<req, made, c, count, posted, stack>>
  BY DEF httpVars
<1>2. LifeTypeOK' /\ TreeOK' /\ HandlersOK'
  <2>1. LifeTypeOK'
    BY <1>1 DEF RequestInv, LifeTypeOK
  <2>2. ParentsOK' /\ ListsOK'
    BY <1>1 DEF RequestInv, TreeOK, ParentsOK, ListsOK
  <2>3. \E A : Path(A)'
    <3>1. PICK A : Path(A)
      BY DEF RequestInv, TreeOK
    <3>2. Path(A)'
      BY <1>1, <3>1 DEF Path, Entry
    <3> QED BY <3>2
  <2>4. HandlersOK'
    BY <1>1 DEF RequestInv, HandlersOK
  <2> QED BY <2>1, <2>2, <2>3, <2>4 DEF TreeOK
<1>3. PICK k \in Kinds, d \in Nat, l \in {0, 1} : CallsOK(k, d, l)
  BY DEF RequestInv
<1>4. CallsOK(k, d, l)'
  <2>1. Shape(stack', k, d, l) /\ OwedOK(k, d)'
    BY <1>1, <1>3 DEF CallsOK, OwedOK, Frame
  <2>2. k = "work" => WorkOK(l)'
    BY <1>1, <1>3 DEF CallsOK, WorkOK, CallOK, AloneOK, Entry, Frame, Terminated, Fatal
  <2>3. Live' = Live /\ Discarding' = Discarding /\ Terminated' = Terminated /\ Cleanups' = Cleanups /\ Waiting(l)' = Waiting(l)
        /\ Frame' = Frame
    BY <1>1 DEF Live, Discarding, Terminated, Cleanups, Waiting, Finishing, Frame
  <2>4. CountOK(k, d, l)'
    BY <1>1, <1>3, <2>3 DEF CallsOK, CountOK, Normal
  <2>5. TerminatedOK(k, d, l)'
    BY <1>1, <1>3, <2>3 DEF CallsOK, TerminatedOK, Fatal
  <2>6. LingerOK(k, d, l)' /\ FreedOK(k, d)' /\ PostedOK(k, d, l)'
    BY <1>1, <1>3, <2>3 DEF CallsOK, LingerOK, FreedOK, PostedOK, Allocated, Normal
  <2> QED BY <2>1, <2>2, <2>4, <2>5, <2>6 DEF CallsOK
<1> QED BY <1>2, <1>4 DEF RequestInv

\* What it means: the reference count is exact between events and fits, nothing runs for a freed request.
LEMMA RequestInvKeeps ==
  ASSUME RequestInv, MaxSubs + MaxUri + 4 <= 255
  PROVE  RequestKept
<1>0. LifeTypeOK /\ TreeOK /\ HandlersOK /\ count \in Nat
  BY DEF RequestInv, LifeTypeOK
<1>1. PICK k \in Kinds, d \in Nat, l \in {0, 1} : CallsOK(k, d, l)
  BY DEF RequestInv
<1>2. /\ MaxSubs \in Nat /\ MaxUri \in Nat /\ Cardinality(Live) \in Nat /\ Cardinality(Live) <= MaxSubs + 1
      /\ Discarding \in {0, 1} /\ TopOwed(k) \in {0, 1}
  BY <1>0, HttpBounds, LiveFacts DEF TopOwed
<1>3. count <= 255
  <2>1. CASE c.state = "request"
    <3>1. count <= Cardinality(Live) + Discarding + d + TopOwed(k) /\ d + TopOwed(k) <= MaxUri + 2
      BY <1>1, <2>1 DEF CallsOK, CountOK, OwedOK
    <3> QED BY <1>0, <1>1, <1>2, <3>1
  <2>2. CASE c.state = "linger"
    BY <1>1, <2>2 DEF CallsOK, LingerOK
  <2>3. CASE c.state \notin {"request", "linger"}
    BY <1>1, <2>3 DEF CallsOK, FreedOK, Allocated
  <2> QED BY <2>1, <2>2, <2>3
<1>4. HttpTypeOK
  <2>1. \A r \in Requests :
          /\ req[r].parent \in Requests \cup {None} /\ req[r].wh \in Handlers
          /\ req[r].uri \in 0..MaxUri + 1 /\ req[r].items \in 0..MaxItems
    BY <1>0 DEF LifeTypeOK, RequestType
  <2>2. made \in 0..MaxSubs /\ c.data \in Requests /\ posted \in Seq(Requests) /\ count \in 0..255
    BY <1>0, <1>3 DEF LifeTypeOK, ConnectionType
  <2> QED BY <2>1, <2>2 DEF HttpTypeOK
<1>5. CountExact
  <2> SUFFICES ASSUME stack = <<>>, c.state = "request", ~Terminated
               PROVE  count = Cardinality(Live) + Discarding
    BY DEF CountExact, Live, Discarding, Terminated
  <2> QED BY IdleFacts DEF Idle
<1>6. NothingRunsAfterFree
  <2> SUFFICES ASSUME ~Allocated, NEW i \in DOMAIN stack PROVE stack[i].fn = "run_posted"
    BY DEF NothingRunsAfterFree
  <2>1. k = "none" /\ d = 0 /\ Shape(stack, k, d, l)
    BY <1>1 DEF CallsOK, FreedOK
  <2>2. Len(stack) = l /\ (l = 1 => stack[Len(stack)].fn = "run_posted")
    BY <2>1 DEF Shape, Height
  <2>3. i \in 1..Len(stack)
    BY <1>0 DEF LifeTypeOK
  <2> QED BY <2>2, <2>3
<1>7. PostedIsRun
  <2> SUFFICES ASSUME stack = <<>>, Allocated PROVE posted = <<>> \/ c.resolver
    BY DEF PostedIsRun
  <2> QED BY NoCalls DEF CallsOK, PostedOK
<1> QED BY <1>4, <1>5, <1>6, <1>7 DEF RequestKept, CountKept

\* ngx_http_request_t lives as long as it is used: between any two events r->main->count is the
\* number of those who will still finish (ngx_http_finalize_request, ngx_http_close_request), it
\* stays in its eight bits, no function runs for a request that has been freed, and whatever is
\* posted is run unless a resolver has failed; until a subrequest has copied discard_body from
\* its parent (ngx_http_subrequest), and while the subrequests and the redirects of one request
\* are few enough for the eight bits: NGX_HTTP_MAX_URI_CHANGES is 10, but what is taken from
\* r->subrequests is given back as soon as a subrequest has been made, so that nothing bounds those.
THEOREM RequestKeptUntilCopied ==
  ASSUME MaxSubs + MaxUri + 4 <= 255
  PROVE  HttpSpec /\ []BodyNotCopied => []RequestKept
<1>1. RequestInv /\ BodyNotCopied /\ [HttpNext]_httpVars => RequestInv'
  BY RequestStays, RequestRests
<1>2. RequestInv => RequestKept
  BY RequestInvKeeps
<1> QED BY <1>1, <1>2, RequestBegins, PTL DEF HttpSpec

\* No request both makes subrequests and discards its body.
BodiesApart == \A w \in Worlds : ~({"subrequest", "discard"} \subseteq w)

ApartInv == may \in Worlds /\ BodyNotCopied /\ ("discard" \notin may => ~req[Main].discard /\ req[Main].left = 0)

\* A step that neither begins to discard a body nor reads one.
DiscardsKept ==
  /\ \A x \in Requests : (req'[x].discard => req[x].discard) /\ (req'[x].left = req[x].left \/ req'[x].left = 0)
  /\ c'.taken = c.taken

\* Such a step makes no subrequest discard a body.
LEMMA ApartKept ==
  ASSUME ApartInv, DiscardsKept, UNCHANGED may
  PROVE  ApartInv'
BY HttpBounds DEF ApartInv, DiscardsKept, BodyNotCopied

\* The output of a request and its body have nothing to do with each other.
LEMMA OutputDiscards ==
  ASSUME LifeTypeOK, NEW r \in Requests, NEW new \in RequestType, new.discard = req[r].discard, new.left = req[r].left,
         NEW in, NEW rc, OutputFilter(r, new, in, rc)
  PROVE  DiscardsKept
<1>1. req \in [Requests -> RequestType] /\ c \in ConnectionType
  BY DEF LifeTypeOK
<1>2. c'.taken = c.taken
  BY <1>1 DEF OutputFilter, ConnectionType
<1>3. \E p : req' = [req EXCEPT ![r] = p] /\ p.discard = new.discard /\ p.left = new.left
  <2>1. CASE \E items : req' = [req EXCEPT ![r] = [new EXCEPT !.postponed = items]]
    <3>1. PICK items : req' = [req EXCEPT ![r] = [new EXCEPT !.postponed = items]]
      BY <2>1
    <3>2. [new EXCEPT !.postponed = items].discard = new.discard /\ [new EXCEPT !.postponed = items].left = new.left
      BY DEF RequestType
    <3> QED BY <3>1, <3>2
  <2>2. CASE \E held, items : req' = [req EXCEPT ![r] = [new EXCEPT !.buffered = held, !.postponed = items]]
    <3>1. PICK held, items : req' = [req EXCEPT ![r] = [new EXCEPT !.buffered = held, !.postponed = items]]
      BY <2>2
    <3> DEFINE p == [new EXCEPT !.buffered = held, !.postponed = items]
    <3>2. p.discard = new.discard /\ p.left = new.left
      BY DEF RequestType
    <3> QED BY <3>1, <3>2
  <2>3. LET items == new.postponed \o in
        IN  \/ req' = [req EXCEPT ![r] = [new EXCEPT !.postponed = items]]
            \/ \E held \in BOOLEAN :
                 req' = [req EXCEPT ![r] =
                          [new EXCEPT !.buffered = held, !.postponed = SubSeq(items, Ready(items) + 2, Len(items))]]
    BY DEF OutputFilter
  <2> QED BY <2>1, <2>2, <2>3
<1>4. req'[r].discard = req[r].discard /\ req'[r].left = req[r].left /\ \A x \in Requests : x # r => req'[x] = req[x]
  BY <1>1, <1>3
<1> QED BY <1>2, <1>4 DEF DiscardsKept

\* The request of the call that runs.
LEMMA TopRequest ==
  ASSUME RequestInv, stack # <<>>
  PROVE  Frame.r \in Requests
<1>1. PICK k \in Kinds, d \in Nat, l \in {0, 1} : CallsOK(k, d, l)
  BY DEF RequestInv
<1> QED BY <1>1, TopCall DEF RequestInv, CallsOK

\* The steps that pass output on.
LEMMA OutputStepsDiscard ==
  ASSUME RequestInv, Produce \/ ContentEnds \/ SendSpecial \/ Writer \/ UpstreamWrite
  PROVE  DiscardsKept
<1> DEFINE r == Frame.r
           q == req[r]
<1>0. LifeTypeOK /\ req \in [Requests -> RequestType] /\ c \in ConnectionType
  BY DEF RequestInv, LifeTypeOK
<1>1. stack # <<>>
  BY DEF Produce, ContentEnds, SendSpecial, Writer, UpstreamWrite, In
<1>2. r \in Requests /\ q \in RequestType /\ q.items \in Nat
  BY <1>0, <1>1, TopRequest, RequestFields
<1>3. ASSUME UNCHANGED <<req, c>> PROVE DiscardsKept
  BY <1>3 DEF DiscardsKept
<1>4. ASSUME req' = [req EXCEPT ![r] = [q EXCEPT !.upstream = FALSE]], UNCHANGED c PROVE DiscardsKept
  <2>1. [q EXCEPT !.upstream = FALSE].discard = q.discard /\ [q EXCEPT !.upstream = FALSE].left = q.left
    BY <1>2 DEF RequestType
  <2> QED BY <1>0, <1>2, <1>4, <2>1 DEF DiscardsKept
<1> HIDE DEF r
<1>5. CASE Produce
  <2>1. PICK rc \in {"ok", "error"} : OutputFilter(r, [q EXCEPT !.items = @ + 1, !.upstream = @ /\ rc = "ok"],
                                                 <<Piece(Append(q.path, q.items + 1))>>, rc)
    BY <1>5 DEF Produce, r
  <2>2. q.items < MaxItems
    BY <1>5 DEF Produce, r
  <2> DEFINE p == [q EXCEPT !.items = @ + 1, !.upstream = @ /\ rc = "ok"]
  <2>3. p \in RequestType /\ p.discard = q.discard /\ p.left = q.left
    <3>1. q.items + 1 \in 0..MaxItems
      BY <1>2, <2>2, HttpBounds
    <3> HIDE DEF q
    <3> QED BY <1>2, <3>1 DEF RequestType
  <2> QED BY <1>0, <1>2, <2>1, <2>3, OutputDiscards
<1>6. ASSUME NEW in, NEW rc, OutputFilter(r, [[q EXCEPT !.upstream = FALSE] EXCEPT !.last = TRUE], in, rc) PROVE DiscardsKept
  <2> DEFINE p == [[q EXCEPT !.upstream = FALSE] EXCEPT !.last = TRUE]
  <2>1. p \in RequestType /\ p.discard = q.discard /\ p.left = q.left
    <3> HIDE DEF q
    <3> QED BY <1>2 DEF RequestType
  <2> QED BY <1>0, <1>2, <1>6, <2>1, OutputDiscards
<1>7. CASE ContentEnds
  BY <1>4, <1>6, <1>7 DEF ContentEnds, r
<1>8. CASE SendSpecial
  <2>1. PICK rc \in {"ok", "error"} : OutputFilter(r, [q EXCEPT !.last = TRUE], LastPiece(q), rc)
    BY <1>8 DEF SendSpecial, r
  <2> DEFINE p == [q EXCEPT !.last = TRUE]
  <2>2. p \in RequestType /\ p.discard = q.discard /\ p.left = q.left
    <3> HIDE DEF q
    <3> QED BY <1>2 DEF RequestType
  <2> QED BY <1>0, <1>2, <2>1, <2>2, OutputDiscards
<1>9. CASE Writer
  <2>1. UNCHANGED <<req, c>> \/ \E rc \in {"ok", "error"} : OutputFilter(r, q, <<>>, rc)
    BY <1>9 DEF Writer, r
  <2>2. ASSUME NEW rc \in {"ok", "error"}, OutputFilter(r, q, <<>>, rc) PROVE DiscardsKept
    BY <1>0, <1>2, <2>2, OutputDiscards
  <2> QED BY <1>3, <2>1, <2>2
<1>10. CASE UpstreamWrite
  <2>1. \/ UNCHANGED <<req, c>>
        \/ req' = [req EXCEPT ![r] = [q EXCEPT !.upstream = FALSE]] /\ UNCHANGED c
        \/ OutputFilter(r, q, <<>>, "ok")
        \/ OutputFilter(r, [q EXCEPT !.upstream = FALSE], <<>>, "error")
    BY <1>10 DEF UpstreamWrite, r
  <2> DEFINE p == [q EXCEPT !.upstream = FALSE]
  <2>2. p \in RequestType /\ p.discard = q.discard /\ p.left = q.left
    <3> HIDE DEF q
    <3> QED BY <1>2 DEF RequestType
  <2>3. OutputFilter(r, q, <<>>, "ok") => DiscardsKept
    BY <1>0, <1>2, OutputDiscards
  <2>4. OutputFilter(r, p, <<>>, "error") => DiscardsKept
    BY <1>0, <1>2, <2>2, OutputDiscards
  <2> QED BY <1>3, <1>4, <2>1, <2>3, <2>4
<1> QED BY <1>5, <1>7, <1>8, <1>9, <1>10

\* The other steps that leave the body alone.
LEMMA OtherStepsDiscard ==
  ASSUME RequestInv,
         \/ InternalRedirect \/ GoUpstream \/ ContentFails \/ UpstreamWaits
         \/ FinalizeError \/ FinalizeSpecial \/ FinalizePending \/ FinalizeSub \/ FinalizeMain
         \/ Terminate \/ FinalizeConnection \/ Close \/ RunPostedRequests \/ WriteHandler
         \/ WriteEvent \/ ClientCloses \/ ResolverFails \/ LingerEvent \/ \E r \in Requests : UpstreamEvent(r)
  PROVE  DiscardsKept
<1>0. req \in [Requests -> RequestType] /\ c \in ConnectionType
  BY DEF RequestInv, LifeTypeOK
<1>1. \A x \in Requests : req[x] \in RequestType /\ req[x].left \in {0, 1}
  BY <1>0, RequestFields
<1>2. CASE InternalRedirect
  <2> DEFINE r == Frame.r
  <2>1. c' = c /\ req' = [req EXCEPT ![r].uri = @ - 1, ![r].upstream = FALSE, ![r].wh = "empty",
                                     ![r].errorPage = @ \/ Frame.fn = "special"]
    BY <1>2 DEF InternalRedirect
  <2> HIDE DEF r
  <2>2. \A x \in Requests : req'[x].discard = req[x].discard /\ req'[x].left = req[x].left
    BY <1>0, <1>1, <2>1 DEF RequestType
  <2> QED BY <2>1, <2>2 DEF DiscardsKept
<1>3. CASE GoUpstream
  BY <1>0, <1>1, <1>3 DEF GoUpstream, DiscardsKept, RequestType, ConnectionType
<1>4. CASE ContentFails
  BY <1>0, <1>1, <1>4 DEF ContentFails, DiscardsKept, RequestType, ConnectionType
<1>5. CASE UpstreamWaits
  BY <1>0, <1>1, <1>5 DEF UpstreamWaits, DiscardsKept, RequestType, ConnectionType
<1>6. CASE FinalizeError
  BY <1>0, <1>1, <1>6 DEF FinalizeError, DiscardsKept, RequestType, ConnectionType
<1>7. CASE FinalizeSpecial
  BY <1>0, <1>1, <1>7 DEF FinalizeSpecial, DiscardsKept, RequestType, ConnectionType
<1>8. CASE FinalizePending
  BY <1>0, <1>1, <1>8 DEF FinalizePending, SetWriteHandler, DiscardsKept, RequestType, ConnectionType
<1>9. CASE FinalizeSub
  <2>1. PICK r, p : \/ /\ c' = [c EXCEPT !.data = ParentActive(r)]
                       /\ req' = [req EXCEPT ![r].done = TRUE,
                                             ![p].postponed = IF @ # <<>> /\ Head(@).req = r THEN Tail(@) ELSE @]
                    \/ req' = [req EXCEPT ![r].wh = "finalizer"] /\ c' = c
    BY <1>9 DEF FinalizeSub
  <2>2. c'.taken = c.taken
    BY <1>0, <2>1 DEF ConnectionType
  <2>3. CASE req' = [req EXCEPT ![r].wh = "finalizer"]
    <3>1. \A x \in Requests : req'[x].discard = req[x].discard /\ req'[x].left = req[x].left
      BY <1>0, <1>1, <2>3 DEF RequestType
    <3> QED BY <2>2, <3>1 DEF DiscardsKept
  <2>4. CASE req' = [req EXCEPT ![r].done = TRUE,
                                ![p].postponed = IF @ # <<>> /\ Head(@).req = r THEN Tail(@) ELSE @]
    <3> DEFINE t == [req EXCEPT ![r].done = TRUE]
    <3>0. req' = [t EXCEPT ![p].postponed = IF @ # <<>> /\ Head(@).req = r THEN Tail(@) ELSE @]
      BY <2>4
    <3>a. /\ t \in [Requests -> RequestType]
          /\ \A x \in Requests : t[x].discard = req[x].discard /\ t[x].left = req[x].left
      <4>1. t \in [Requests -> RequestType]
        <5>1. \A x \in Requests : t[x] \in RequestType
          <6> SUFFICES ASSUME NEW x \in Requests PROVE t[x] \in RequestType
            OBVIOUS
          <6>1. t[x] = IF x = r THEN [req[x] EXCEPT !.done = TRUE] ELSE req[x]
            BY <1>0
          <6>2. req[x] \in RequestType
            BY <1>0
          <6> HIDE DEF t
          <6> QED BY <6>1, <6>2 DEF RequestType
        <5>2. DOMAIN t = Requests /\ t = [x \in Requests |-> t[x]]
          BY <1>0
        <5> QED BY <5>1, <5>2
      <4>2. \A x \in Requests : t[x].discard = req[x].discard /\ t[x].left = req[x].left
        BY <1>0, <1>1 DEF RequestType
      <4> QED BY <4>1, <4>2
    <3> HIDE DEF t
    <3>b. PICK v : req' = [t EXCEPT ![p].postponed = v]
      BY <3>0
    <3>c. \A x \in Requests : req'[x].discard = t[x].discard /\ req'[x].left = t[x].left
      BY <3>a, <3>b DEF RequestType
    <3>1. \A x \in Requests : req'[x].discard = req[x].discard /\ req'[x].left = req[x].left
      BY <3>a, <3>c
    <3> QED BY <2>2, <3>1 DEF DiscardsKept
  <2> QED BY <2>1, <2>3, <2>4
<1>10. CASE FinalizeMain
  <2>1. \/ /\ req' = [req EXCEPT ![Main].done = TRUE, ![Main].wh = "empty"]
           /\ c' = [c EXCEPT !.wtimer = FALSE]
        \/ UNCHANGED <<req, c>>
    BY <1>10 DEF FinalizeMain
  <2>2. \A x \in Requests : req'[x].discard = req[x].discard /\ req'[x].left = req[x].left
    <3>1. CASE req' = req
      BY <1>0, <1>1, <3>1 DEF RequestType
    <3>2. CASE req' = [req EXCEPT ![Main].done = TRUE, ![Main].wh = "empty"]
      BY <1>0, <1>1, <3>2 DEF RequestType
    <3> QED BY <2>1, <3>1, <3>2
  <2>3. c'.taken = c.taken
    BY <1>0, <2>1 DEF ConnectionType
  <2> QED BY <2>2, <2>3 DEF DiscardsKept
<1>11. CASE Terminate
  <2>1. c' = c /\ \/ \E s : req' = [req EXCEPT ![s].upstream = FALSE]
                  \/ req' = [req EXCEPT ![Main].wh = "terminate"]
    BY <1>11 DEF Terminate
  <2>2. \A x \in Requests : req'[x].discard = req[x].discard /\ req'[x].left = req[x].left
    <3>1. CASE \E s : req' = [req EXCEPT ![s].upstream = FALSE]
      <4>1. PICK s : req' = [req EXCEPT ![s].upstream = FALSE]
        BY <3>1
      <4> QED BY <1>0, <1>1, <4>1 DEF RequestType
    <3>2. CASE req' = [req EXCEPT ![Main].wh = "terminate"]
      BY <1>0, <1>1, <3>2 DEF RequestType
    <3> QED BY <2>1, <3>1, <3>2
  <2> QED BY <2>1, <2>2 DEF DiscardsKept
<1>12. CASE FinalizeConnection
  <2>1. PICK r : \/ req' = [req EXCEPT ![r].rh = IF req[r].discard THEN "discard" ELSE @] /\ c' = c
                 \/ req' = [req EXCEPT ![r].wh = "empty"] /\ c' = c
                 \/ req' = req /\ \E s : c' = [c EXCEPT !.state = s]
                 \/ UNCHANGED <<req, c>>
    BY <1>12 DEF FinalizeConnection
  <2>2. \A x \in Requests : req'[x].discard = req[x].discard /\ req'[x].left = req[x].left
    BY <1>0, <1>1, <2>1 DEF RequestType
  <2>3. c'.taken = c.taken
    BY <1>0, <2>1 DEF ConnectionType
  <2> QED BY <2>2, <2>3 DEF DiscardsKept
<1>13. CASE Close
  BY <1>0, <1>1, <1>13 DEF Close, DiscardsKept, RequestType, ConnectionType
<1>14. CASE RunPostedRequests
  BY <1>0, <1>1, <1>14 DEF RunPostedRequests, DiscardsKept, RequestType, ConnectionType
<1>15. CASE WriteHandler
  <2>1. c' = c /\ (req' = req \/ \E r : req' = [req EXCEPT ![r].wh = "empty"])
    BY <1>15 DEF WriteHandler
  <2>2. \A x \in Requests : req'[x].discard = req[x].discard /\ req'[x].left = req[x].left
    <3>1. CASE req' = req
      BY <1>0, <1>1, <3>1 DEF RequestType
    <3>2. CASE \E r : req' = [req EXCEPT ![r].wh = "empty"]
      <4>1. PICK r : req' = [req EXCEPT ![r].wh = "empty"]
        BY <3>2
      <4> QED BY <1>0, <1>1, <4>1 DEF RequestType
    <3> QED BY <2>1, <3>1, <3>2
  <2> QED BY <2>1, <2>2 DEF DiscardsKept
<1>16. CASE WriteEvent
  BY <1>0, <1>1, <1>16 DEF WriteEvent, DiscardsKept, RequestType, ConnectionType
<1>17. CASE ClientCloses
  <2>1. c' = [c EXCEPT !.error = TRUE] /\ (req' = req \/ \E r : req' = [req EXCEPT ![r].upstream = FALSE])
    BY <1>17 DEF ClientCloses
  <2>2. \A x \in Requests : req'[x].discard = req[x].discard /\ req'[x].left = req[x].left
    <3>1. CASE req' = req
      BY <1>0, <1>1, <3>1 DEF RequestType
    <3>2. CASE \E r : req' = [req EXCEPT ![r].upstream = FALSE]
      <4>1. PICK r : req' = [req EXCEPT ![r].upstream = FALSE]
        BY <3>2
      <4> QED BY <1>0, <1>1, <4>1 DEF RequestType
    <3> QED BY <2>1, <3>1, <3>2
  <2>3. c'.taken = c.taken
    BY <1>0, <2>1 DEF ConnectionType
  <2> QED BY <2>2, <2>3 DEF DiscardsKept
<1>18. CASE ResolverFails
  BY <1>0, <1>1, <1>18 DEF ResolverFails, DiscardsKept, RequestType, ConnectionType
<1>19. CASE LingerEvent
  BY <1>0, <1>1, <1>19 DEF LingerEvent, DiscardsKept, RequestType, ConnectionType
<1>20. CASE \E r \in Requests : UpstreamEvent(r)
  BY <1>20 DEF UpstreamEvent, DiscardsKept
<1> QED BY <1>2, <1>3, <1>4, <1>5, <1>6, <1>7, <1>8, <1>9, <1>10, <1>11, <1>12, <1>13, <1>14, <1>15, <1>16, <1>17, <1>18, <1>19, <1>20

\* No subrequest ever has a body to discard.
LEMMA StaysApart ==
  ASSUME RequestInv, BodiesApart, ApartInv, [HttpNext]_httpVars
  PROVE  ApartInv'
<1>0. LifeTypeOK /\ req \in [Requests -> RequestType] /\ c \in ConnectionType /\ Main \in Requests
  BY HttpBounds DEF RequestInv, LifeTypeOK
<1>1. CASE UNCHANGED httpVars
  BY <1>1 DEF httpVars, ApartInv, BodyNotCopied
<1>2. CASE HttpNext
  <2>0. UNCHANGED may
    BY <1>2 DEF HttpNext
  <2>1. CASE DiscardsKept
    BY <2>0, <2>1, ApartKept
  <2>2. CASE Subrequest
    <3> DEFINE r == Frame.r
               q == req[r]
               s == made + 1
    <3>1. r \in Requests /\ s \in Requests /\ s # Main /\ "subrequest" \in may /\ stack # <<>>
      BY <1>0, <2>2, TopRequest, MadeAreRequests, HttpBounds DEF Subrequest, In, Main, Requests
    <3>2. "discard" \notin may /\ ~req[Main].discard /\ req[Main].left = 0 /\ \A x \in Requests : ~req[x].discard
      BY <3>1 DEF ApartInv, BodiesApart, BodyNotCopied
    <3> DEFINE p == [Fresh EXCEPT !.parent = r, !.rh = "empty", !.path = Append(q.path, q.items + 1),
                                  !.discard = q.discard, !.left = q.left]
               t == [req EXCEPT ![r].postponed = Append(@, Requested(s)), ![r].items = @ + 1]
    <3>3. ~p.discard
      BY <3>1, <3>2 DEF Fresh
    <3>4. req' = [t EXCEPT ![s] = p] /\ c' = [c EXCEPT !.data = IF @ = r /\ q.postponed = <<>> THEN s ELSE @]
      BY <2>2 DEF Subrequest
    <3>5. DOMAIN t = Requests /\ \A x \in Requests : t[x].discard = req[x].discard /\ t[x].left = req[x].left
      <4> HIDE DEF r, s
      <4> QED BY <1>0, <3>1 DEF RequestType
    <3> HIDE DEF t, p
    <3>6. req'[s] = p /\ \A x \in Requests : x # s => req'[x] = t[x]
      BY <3>1, <3>4, <3>5
    <3>7. c'.taken = c.taken
      BY <1>0, <3>4 DEF ConnectionType
    <3>8. BodyNotCopied'
      BY <3>2, <3>3, <3>5, <3>6, <3>7 DEF ApartInv, BodyNotCopied
    <3>9. ~req'[Main].discard /\ req'[Main].left = 0
      BY <1>0, <3>1, <3>2, <3>5, <3>6
    <3> QED BY <2>0, <3>8, <3>9 DEF ApartInv
  <2>3. CASE Discard
    <3>1. req[Main].left # 0 /\ c' = c
      BY <2>3 DEF Discard
    <3>2. "discard" \in may /\ \A x \in Requests \ {Main} : req'[x] = req[x]
      BY <1>0, <2>3, <3>1 DEF Discard, ApartInv
    <3> QED BY <2>0, <3>1, <3>2 DEF ApartInv, BodyNotCopied
  <2>4. CASE DiscardEvent
    <3>1. c.data = Main
      BY <1>0, <2>4 DEF DiscardEvent, ApartInv, BodyNotCopied, ConnectionType
    <3>2. c'.taken = c.taken /\ \A x \in Requests \ {Main} : req'[x] = req[x]
      BY <1>0, <2>4, <3>1 DEF DiscardEvent, ConnectionType
    <3>3. "discard" \in may
      BY <2>4, <3>1 DEF DiscardEvent, ApartInv
    <3> QED BY <2>0, <3>2, <3>3 DEF ApartInv, BodyNotCopied
  <2> QED BY <1>2, <2>1, <2>2, <2>3, <2>4, OutputStepsDiscard, OtherStepsDiscard DEF HttpNext, HttpStep
<1> QED BY <1>1, <1>2

\* Nothing is discarded when a request begins.
LEMMA ApartBegins ==
  ASSUME HttpInit
  PROVE  ApartInv
<1> DEFINE n == IF "discard" \in may THEN 1 ELSE 0
<1>1. may \in Worlds /\ c.taken = 0 /\ \A x \in Requests : req[x] = [Fresh EXCEPT !.left = n]
  BY DEF HttpInit
<1>2. ~[Fresh EXCEPT !.left = n].discard /\ [Fresh EXCEPT !.left = n].left = n
  BY DEF Fresh
<1> QED BY <1>1, <1>2, HttpBounds DEF ApartInv, BodyNotCopied

\* So it does for every request that does not both make subrequests and discard a body
\* (ngx_http_subrequest, ngx_http_discard_request_body), however the client, its upstreams, their
\* failures and redirects are interleaved.
THEOREM RequestKeptWhenApart ==
  ASSUME MaxSubs + MaxUri + 4 <= 255, BodiesApart
  PROVE  HttpSpec => []RequestKept
<1>1. RequestInv /\ ApartInv /\ [HttpNext]_httpVars => (RequestInv /\ ApartInv)'
  BY RequestStays, RequestRests, StaysApart DEF ApartInv
<1>2. HttpInit => RequestInv /\ ApartInv
  BY RequestBegins, ApartBegins
<1>3. RequestInv => RequestKept
  BY RequestInvKeeps
<1> QED BY <1>1, <1>2, <1>3, PTL DEF HttpSpec
=============================================================================
