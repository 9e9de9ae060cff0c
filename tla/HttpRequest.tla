----------------------------- MODULE HttpRequest -----------------------------
(***************************************************************************)
(* The life of one HTTP request and of its subrequests, from the content   *)
(* handler to the end (http/ngx_http_request.c, ngx_http_core_module.c,    *)
(* ngx_http_postpone_filter_module.c, ngx_http_request_body.c).            *)
(*                                                                         *)
(* The C functions call each other; `stack' holds the calls that have been *)
(* made and have not run yet, so that each function is one action.  Events *)
(* of the client and of upstreams come in when it is empty.  r->main->count*)
(* is what keeps the memory of the request while anything still uses it.   *)
(* File AIO (r->blocked) and the post_action directive are left out.       *)
(***************************************************************************)
EXTENDS Integers, Sequences, FiniteSets, SequencesExt

CONSTANTS
  MaxSubs,   \* bound: subrequests of the main request, at any depth
  MaxItems,  \* bound: pieces of content and subrequests that one request makes
  MaxSlow,   \* bound: how often the client's socket takes only a part
  MaxUri,    \* NGX_HTTP_MAX_URI_CHANGES
  Worlds     \* sets of what one request may meet: "subrequest"s, a body to "discard", a "slow" client,
             \* "upstream"s, a failing "resolver", "redirect"s and error pages, failures ("fail")

ASSUME HttpBoundsAssumption == {MaxSubs, MaxItems, MaxSlow, MaxUri} \subseteq Nat
ASSUME WorldsAssumption ==
  Worlds \subseteq SUBSET {"subrequest", "discard", "slow", "upstream", "resolver", "redirect", "fail"}

Main == 0
Requests == 0..MaxSubs
None == -1

VARIABLES
  may,    \* one of the Worlds
  req,    \* the request and its subrequests
  made,   \* how many subrequests there are
  c,      \* the client's connection: c->data, error, buffered, the timer of c->write, what it is
          \* used for; history: partial sends, a resolver that failed, counts that
          \* subrequests took for a discarded body
  count,  \* r->main->count
  posted, \* r->main->posted_requests
  wire,   \* history: the pieces that were passed to the write filter
  stack   \* calls that are to be made, the next one first

httpVars == <<may, req, made, c, count, posted, wire, stack>>

-----------------------------------------------------------------------------
(* Requests and calls *)

\* A call of function fn for request r; rc is its argument, or what an upstream handler did.
Call(fn, r, rc) == [fn |-> fn, r |-> r, rc |-> rc]

RunPosted == Call("run_posted", Main, "ok")

Fresh == [parent |-> None, wh |-> "handler", rh |-> "block", uri |-> MaxUri + 1,
          postponed |-> <<>>, path |-> <<>>, items |-> 0, buffered |-> FALSE,
          upstream |-> FALSE, errorPage |-> FALSE, discard |-> FALSE, left |-> 0,
          last |-> FALSE, done |-> FALSE]

HttpInit ==
  /\ may \in Worlds
  /\ req = [r \in Requests |-> [Fresh EXCEPT !.left = IF "discard" \in may THEN 1 ELSE 0]]
  /\ made = 0
  /\ c = [data |-> Main, error |-> FALSE, buffered |-> FALSE, slow |-> 0, wtimer |-> FALSE,
          resolver |-> FALSE, taken |-> 0, state |-> "request"]
  /\ count = 1 /\ posted = <<>> /\ wire = <<>>
  /\ stack = <<Call("write", Main, "ok"), RunPosted>>

Allocated == c.state \in {"request", "linger"}

Frame == Head(stack)
In(fns) == stack # <<>> /\ Frame.fn \in fns
Becomes(calls) == stack' = calls \o Tail(stack)
Return == Becomes(<<>>)

-----------------------------------------------------------------------------
(* Output: the postpone filter and the write filter *)

Requested(s) == [req |-> s, out |-> <<>>]
Piece(p) == [req |-> None, out |-> p]

\* where the pieces before the first subrequest of a postponed list end
Ready(items) ==
  LET subs == {i \in DOMAIN items : items[i].req # None}
  IN  IF subs = {} THEN Len(items) ELSE (CHOOSE i \in subs : \A j \in subs : i <= j) - 1

\* ngx_http_post_request, at the end of the list
Posted(s) == Append(posted, s)

\* the output of the request has to wait for requests before it
Holds(r) == c.data # r

\* What ngx_http_output_filter(r, in) does: rc "error" or "ok".  A piece goes to the write
\* filter when its request is active and no subrequest precedes it; the socket may take it
\* only in part, and fails at most once.
OutputFilter(r, new, in, rc) ==
  LET items == new.postponed \o in
      k     == Ready(items)
  IN  IF Holds(r)
      THEN /\ rc = "ok"
           /\ req' = [req EXCEPT ![r] = [new EXCEPT !.postponed = items]]
           /\ UNCHANGED <<c, posted, wire>>
      ELSE /\ rc = "error" => (k > 0 \/ c.buffered) /\ ("fail" \in may \/ c.error)
           /\ c.error /\ (k > 0 \/ c.buffered) => rc = "error"
           /\ IF rc = "error"
              THEN /\ c' = [c EXCEPT !.error = TRUE]
                   /\ req' = [req EXCEPT ![r] = [new EXCEPT !.postponed = items]]
                   /\ UNCHANGED <<posted, wire>>
              ELSE /\ wire' = wire \o [i \in 1..k |-> items[i].out]
                   /\ \E full \in IF "slow" \in may /\ c.slow < MaxSlow /\ (k > 0 \/ c.buffered) THEN BOOLEAN ELSE {FALSE} :
                      \E held \in IF full THEN BOOLEAN ELSE {FALSE} :
                        /\ c' = [c EXCEPT !.buffered = full,
                                          !.slow = IF full THEN @ + 1 ELSE @,
                                          !.data = IF k < Len(items) THEN items[k + 1].req ELSE @]
                        /\ req' = [req EXCEPT ![r] =
                             [new EXCEPT !.buffered = held, !.postponed = SubSeq(items, k + 2, Len(items))]]
                   /\ posted' = IF k < Len(items) THEN Posted(items[k + 1].req) ELSE posted

-----------------------------------------------------------------------------
(* Content handlers: what a module may do while it makes the response *)

Content == {"content", "upstream"}

\* a piece of the response; a content handler that fails to send returns the error
Produce ==
  /\ In(Content)
  /\ LET r == Frame.r
         q == req[r]
     IN /\ q.items < MaxItems
        /\ \E rc \in {"ok", "error"} :
             /\ OutputFilter(r, [q EXCEPT !.items = @ + 1, !.upstream = @ /\ rc = "ok"],
                             <<Piece(Append(q.path, q.items + 1))>>, rc)
             /\ IF rc = "ok"
                THEN Becomes(<<[Frame EXCEPT !.rc = "some"]>>)
                ELSE Becomes(<<Call("finalize", r, "error")>>)
  /\ UNCHANGED <<made, count>>

\* r->main->count++
SubrequestCount == count + 1

\* ngx_http_subrequest, called by a filter of the request
Subrequest ==
  /\ In(Content) /\ "subrequest" \in may /\ made < MaxSubs
  /\ LET r == Frame.r
         q == req[r]
         s == made + 1
     IN /\ q.items < MaxItems
        /\ c' = [c EXCEPT !.data = IF @ = r /\ q.postponed = <<>> THEN s ELSE @]
        /\ req' = [req EXCEPT
             ![r].postponed = Append(@, Requested(s)),
             ![r].items = @ + 1,
             ![s] = [Fresh EXCEPT !.parent = r, !.rh = "empty", !.path = Append(q.path, q.items + 1),
                                  !.discard = q.discard, !.left = q.left]]
        /\ made' = s
        /\ posted' = Posted(s)
  /\ count' = SubrequestCount
  /\ Becomes(<<[Frame EXCEPT !.rc = "some"]>>)
  /\ UNCHANGED wire

\* r->main->count++ before ngx_http_handler()
RedirectCount == count + 1

\* ngx_http_internal_redirect: of a module, an error page or X-Accel-Redirect; the caller
\* finalises the request with NGX_DONE afterwards
InternalRedirect ==
  /\ In({"content", "upstream", "special"}) /\ req[Frame.r].items = 0 /\ "redirect" \in may
  /\ LET r == Frame.r IN
       /\ Frame.fn = "special" => ~req[r].errorPage
       /\ req[r].uri > 0
       /\ req' = [req EXCEPT ![r].uri = @ - 1, ![r].upstream = FALSE, ![r].wh = "empty",
                             ![r].errorPage = @ \/ Frame.fn = "special"]
       /\ Becomes(<<IF req'[r].uri = 0 THEN Call("finalize", r, "special") ELSE Call("content", r, "none"),
                    Call("finalize", r, "done")>>)
  /\ count' = RedirectCount
  /\ UNCHANGED <<made, c, posted, wire>>

\* A module goes on when an upstream answers: ngx_http_read_client_request_body counts the
\* request, and the content handler returns NGX_DONE.
GoUpstream ==
  /\ In({"content"}) /\ req[Frame.r].items = 0 /\ "upstream" \in may
  /\ req' = [req EXCEPT ![Frame.r].upstream = TRUE, ![Frame.r].wh = "upstream", ![Frame.r].rh = "check",
                        ![Frame.r].left = IF req[Frame.r].discard THEN @ ELSE 0]
  /\ count' = count + 1
  /\ Becomes(<<Call("finalize", Frame.r, "done")>>)
  /\ UNCHANGED <<made, c, posted, wire>>

\* ngx_http_discard_request_body, before anything is sent: what has not arrived yet is read by
\* a handler
Discard ==
  /\ In({"content", "special"}) /\ Frame.r = Main
  /\ Frame.fn = "content" => req[Main].items = 0
  /\ ~req[Main].discard /\ req[Main].left > 0
  /\ \/ req' = [req EXCEPT ![Main].left = 0] /\ UNCHANGED count
     \/ /\ req' = [req EXCEPT ![Main].discard = TRUE, ![Main].rh = "discard"]
        /\ count' = count + 1
  /\ UNCHANGED <<made, c, posted, wire, stack>>

\* the buffer with last_buf or last_in_chain that ends a response, and what is left of it
LastPiece(q) == <<Piece(Append(q.path, MaxItems + 1))>>

\* The handler has made the response: the main request ends it with a last buffer, and so do
\* subrequests unless they have sent nothing.
ContentEnds ==
  /\ In(Content \cup {"ends"})
  /\ LET r == Frame.r
         q == [req[r] EXCEPT !.upstream = FALSE]
     IN \/ \E rc \in {"ok", "error"} :
             /\ OutputFilter(r, [q EXCEPT !.last = TRUE], LastPiece(q), rc)
             /\ Becomes(<<Call("finalize", r, rc)>>)
        \/ /\ r # Main /\ q.items = 0
           /\ Becomes(<<Call("finalize", r, "ok")>>)
           /\ req' = [req EXCEPT ![r] = q]
           /\ UNCHANGED <<c, posted, wire>>
  /\ UNCHANGED <<made, count>>

\* it fails, or it asks for an error page before it has sent anything
ContentFails ==
  /\ In(Content)
  /\ \E rc \in {"error", "special"} :
       /\ rc = "error" => "fail" \in may
       /\ rc = "special" => "redirect" \in may /\ req[Frame.r].items = 0
       /\ Becomes(<<Call("finalize", Frame.r, rc)>>)
  /\ req' = [req EXCEPT ![Frame.r].upstream = FALSE]
  /\ UNCHANGED <<made, c, count, posted, wire>>

\* the upstream is to send more
UpstreamWaits ==
  /\ In({"upstream"}) /\ Frame.rc = "some"
  /\ Return
  /\ UNCHANGED <<req, made, c, count, posted, wire>>

\* ngx_http_send_special_response: a page for the error
SendSpecial ==
  /\ In({"special"})
  /\ LET r == Frame.r
         q == req[r]
     IN /\ r = Main => (q.left = 0 \/ q.discard)
        /\ \E rc \in {"ok", "error"} :
             /\ OutputFilter(r, [q EXCEPT !.last = TRUE], LastPiece(q), rc)
             /\ Becomes(<<Call("finalize", r, rc)>>)
  /\ UNCHANGED <<made, count>>

-----------------------------------------------------------------------------
(* ngx_http_finalize_request *)

Fatal(rc) == rc \in {"error", "timeout", "closed"} \/ c.error

Finalizing == In({"finalize"}) /\ Frame.rc # "done"

FinalizeError ==
  /\ Finalizing /\ Fatal(Frame.rc)
  /\ Becomes(<<Call("terminate", Frame.r, "ok")>>)
  /\ UNCHANGED <<req, made, c, count, posted, wire>>

FinalizeSpecial ==
  /\ Finalizing /\ Frame.rc = "special" /\ ~Fatal(Frame.rc)
  /\ c' = [c EXCEPT !.wtimer = @ /\ Frame.r # Main]
  /\ Becomes(<<Call("special", Frame.r, "ok")>>)
  /\ UNCHANGED <<req, made, count, posted, wire>>

FinalizingOk == Finalizing /\ Frame.rc = "ok" /\ ~Fatal(Frame.rc)

\* mutant: a request whose subrequests have not been sent is finished
PendingIgnoresPostponed(r) == req[r].buffered \/ (r = Main /\ c.buffered)

\* r->buffered, c->buffered or r->postponed: something is still to be sent
Pending(r) == req[r].buffered \/ req[r].postponed # <<>> \/ (r = Main /\ c.buffered)

\* ngx_http_set_write_handler
SetWriteHandler(r) == [req EXCEPT ![r].wh = "writer", ![r].rh = IF req[r].discard THEN "discard" ELSE "test"]

FinalizePending ==
  /\ FinalizingOk /\ Pending(Frame.r)
  /\ req' = SetWriteHandler(Frame.r)
  /\ c' = [c EXCEPT !.wtimer = TRUE]
  /\ Return
  /\ UNCHANGED <<made, count, posted, wire>>

\* mutant: the subrequest that is over stays the active one
ParentForgotten(r) == c.data

\* the active subrequest is over, its parent is next
ParentActive(r) == req[r].parent

FinalizeSub ==
  /\ FinalizingOk /\ Frame.r # Main /\ ~Pending(Frame.r)
  /\ LET r == Frame.r
         p == req[r].parent
     IN /\ IF c.data = r
           THEN /\ count' = count - 1
                /\ c' = [c EXCEPT !.data = ParentActive(r)]
                /\ req' = [req EXCEPT
                     ![r].done = TRUE,
                     ![p].postponed = IF @ # <<>> /\ Head(@).req = r THEN Tail(@) ELSE @]
           ELSE req' = [req EXCEPT ![r].wh = "finalizer"] /\ UNCHANGED <<count, c>>
        /\ posted' = Posted(p)
  /\ Return
  /\ UNCHANGED <<made, wire>>

\* the main request is done, unless another one is still active: then the alert "http finalize
\* non-active request" is all that happens
FinalizeMain ==
  /\ FinalizingOk /\ Frame.r = Main /\ ~Pending(Main)
  /\ IF c.data = Main
     THEN /\ req' = [req EXCEPT ![Main].done = TRUE, ![Main].wh = "empty"]
          /\ c' = [c EXCEPT !.wtimer = FALSE]
          /\ \E eof \in BOOLEAN :             \* c->read->eof: the client has sent all
               Becomes(<<IF eof THEN Call("close", Main, "ok") ELSE Call("finalize", Main, "done")>>)
     ELSE Return /\ UNCHANGED <<req, c>>
  /\ UNCHANGED <<made, count, posted, wire>>

\* upstreams that the cleanup handlers of the main request finalise
Cleanups == {s \in Requests : req[s].upstream}

\* ngx_http_terminate_request: each cleanup handler finalises its request with NGX_DONE,
\* then whatever was posted is replaced by ngx_http_terminate_handler
Terminate ==
  /\ In({"terminate"})
  /\ \/ \E s \in Cleanups :
          /\ req' = [req EXCEPT ![s].upstream = FALSE]
          /\ stack' = <<Call("finalize", s, "done")>> \o stack
          /\ UNCHANGED posted
     \/ /\ Cleanups = {}
        /\ req' = [req EXCEPT ![Main].wh = "terminate"]
        /\ posted' = <<Main>>
        /\ Return
  /\ UNCHANGED <<made, c, count, wire>>

\* mutant: the connection is finished while others still count on the request
LastOneAny == TRUE

\* r->main->count of ngx_http_finalize_connection()
LastOne == count = 1

\* ngx_http_finalize_connection, called for NGX_DONE and when the main request is done
FinalizeConnection ==
  /\ In({"finalize"}) /\ Frame.rc = "done"
  /\ LET r == Frame.r IN
       \/ /\ ~LastOne
          /\ req' = [req EXCEPT ![r].rh = IF req[r].discard THEN "discard" ELSE @]
          /\ Becomes(<<Call("close", r, "ok")>>)
          /\ UNCHANGED c
       \/ /\ LastOne /\ req[r].discard      \* ngx_http_set_keepalive waits for the body
          /\ req' = [req EXCEPT ![r].wh = "empty"]
          /\ Return /\ UNCHANGED c
       \/ /\ LastOne                       \* ngx_http_set_keepalive, ngx_http_set_lingering_close
          /\ \E s \in {"keepalive", "linger"} :
               /\ s = "keepalive" => r = Main /\ ~req[r].discard
               /\ c' = [c EXCEPT !.state = s]
          /\ Return /\ UNCHANGED req
       \/ /\ LastOne
          /\ Becomes(<<Call("close", r, "ok")>>)
          /\ UNCHANGED <<req, c>>
  /\ UNCHANGED <<made, count, posted, wire>>

\* ngx_http_close_request: the last one frees the request and closes the connection
Close ==
  /\ In({"close"})
  /\ count' = count - 1
  /\ c' = IF count = 1 THEN [c EXCEPT !.state = "closed"] ELSE c
  /\ Return
  /\ UNCHANGED <<req, made, posted, wire>>

-----------------------------------------------------------------------------
(* Handlers *)

\* mutant: the loop goes on with the request of a connection that is gone
StopsIfEmpty == posted = <<>>

\* mutant: the loop stops at an error of the connection
StopsOnError == ~Allocated \/ posted = <<>> \/ c.error

\* c->destroyed, or nothing is left
Stops == ~Allocated \/ posted = <<>>

\* ngx_http_run_posted_requests
RunPostedRequests ==
  /\ In({"run_posted"})
  /\ IF Stops
     THEN Return /\ UNCHANGED posted
     ELSE /\ posted' = Tail(posted)
          /\ stack' = <<Call("write", Head(posted), "ok")>> \o stack
  /\ UNCHANGED <<req, made, c, count, wire>>

\* r->write_event_handler(r), other than the writer and an upstream's
WriteHandler ==
  /\ In({"write"})
  /\ LET r == Frame.r IN
       \/ /\ req[r].wh = "handler"          \* ngx_http_handler, up to the content phase
          /\ req' = [req EXCEPT ![r].wh = "empty"]
          /\ Becomes(<<Call("content", r, "none")>>)
          /\ UNCHANGED count
       \/ /\ req[r].wh = "finalizer"
          /\ Becomes(<<Call("finalize", r, "ok")>>)
          /\ UNCHANGED <<req, count>>
       \/ /\ req[r].wh = "terminate"        \* ngx_http_terminate_handler
          /\ count' = 1
          /\ Becomes(<<Call("close", r, "ok")>>)
          /\ UNCHANGED req
       \/ /\ req[r].wh = "empty"
          /\ Return /\ UNCHANGED <<req, count>>
  /\ UNCHANGED <<made, c, posted, wire>>

\* ngx_http_writer
Writer ==
  /\ In({"write"}) /\ req[Frame.r].wh = "writer"
  /\ LET r == Frame.r IN
       \/ /\ Frame.rc = "timeout"
          /\ Becomes(<<Call("finalize", r, "timeout")>>)
          /\ UNCHANGED <<req, c, posted, wire>>
       \/ /\ Frame.rc = "ok"
          /\ \E rc \in {"ok", "error"} :
               /\ OutputFilter(r, req[r], <<>>, rc)
               /\ IF rc = "error"
                  THEN Becomes(<<Call("finalize", r, "error")>>)
                  ELSE IF req'[r].buffered \/ req'[r].postponed # <<>> \/ (r = Main /\ c'.buffered)
                       THEN Return
                       ELSE Becomes(<<Call("finalize", r, "ok")>>)
  /\ UNCHANGED <<made, count>>

\* ngx_http_upstream_wr_check_broken_connection, ngx_http_upstream_process_downstream
UpstreamWrite ==
  /\ In({"write"}) /\ req[Frame.r].wh = "upstream"
  /\ LET r == Frame.r
         ends == [req[r] EXCEPT !.upstream = FALSE]
     IN \/ /\ req[r].upstream /\ (c.error \/ Frame.rc = "timeout")
           /\ req' = [req EXCEPT ![r] = ends]
           /\ Becomes(<<IF c.error THEN Call("finalize", r, "closed") ELSE Call("ends", r, "none")>>)
           /\ UNCHANGED <<c, posted, wire>>
        \/ /\ req[r].upstream /\ ~c.error
           /\ \E rc \in {"ok", "error"} :
                /\ OutputFilter(r, IF rc = "ok" THEN req[r] ELSE ends, <<>>, rc)
                /\ IF rc = "ok" THEN Return ELSE Becomes(<<Call("finalize", r, "error")>>)
        \/ /\ Return                          \* nothing to send, or u->cacheable
           /\ UNCHANGED <<req, c, posted, wire>>
  /\ UNCHANGED <<made, count>>

HttpStep ==
  \/ Produce \/ Subrequest \/ InternalRedirect \/ GoUpstream \/ Discard \/ ContentEnds \/ ContentFails
  \/ UpstreamWaits \/ SendSpecial
  \/ FinalizeError \/ FinalizeSpecial \/ FinalizePending \/ FinalizeSub
  \/ FinalizeMain \/ Terminate \/ FinalizeConnection \/ Close
  \/ RunPostedRequests \/ WriteHandler \/ Writer \/ UpstreamWrite

-----------------------------------------------------------------------------
(* Events *)

Idle == stack = <<>> /\ c.state = "request"

\* the timer of c->write is set: by ngx_http_set_write_handler, or for output that waits
Armed == c.wtimer \/ c.buffered

\* ngx_http_request_handler: the socket can be written to, or its timer is due
WriteEvent ==
  /\ Idle
  /\ \E rc \in IF Armed /\ "fail" \in may THEN {"ok", "timeout"} ELSE {"ok"} :
       /\ stack' = <<Call("write", c.data, rc), RunPosted>>
       /\ c' = [c EXCEPT !.wtimer = @ /\ rc = "ok"]
  /\ UNCHANGED <<req, made, count, posted, wire>>

\* the client closes its side: ngx_http_test_reading, ngx_http_upstream_rd_check_broken_connection
ClientCloses ==
  /\ Idle /\ ~c.error /\ "fail" \in may
  /\ req[c.data].rh \in {"test", "check"}
  /\ c' = [c EXCEPT !.error = TRUE]
  /\ LET r == c.data IN
       IF req[r].rh = "test"
       THEN /\ stack' = <<Call("finalize", r, "ok"), RunPosted>>
            /\ UNCHANGED req
       ELSE \/ /\ stack' = <<Call("finalize", r, "closed"), RunPosted>>
               /\ req' = [req EXCEPT ![r].upstream = FALSE]
            \/ /\ req[r].upstream              \* u->cacheable: the response is read to its end
               /\ stack' = <<RunPosted>>
               /\ UNCHANGED req
  /\ UNCHANGED <<made, count, posted, wire>>

\* ngx_http_discarded_request_body_handler: the whole body, the end of the stream or an
\* error has been read, or the time for it is over
DiscardEvent ==
  /\ Idle /\ req[c.data].rh = "discard" /\ req[c.data].discard
  /\ LET r == c.data IN
       \/ \E e \in IF "fail" \in may THEN BOOLEAN ELSE {FALSE} :
            /\ c' = [c EXCEPT !.error = @ \/ e, !.taken = IF r = Main THEN @ ELSE @ + 1]
            /\ req' = [req EXCEPT ![r].discard = FALSE, ![r].left = 0, ![r].rh = "block"]
            /\ stack' = <<Call("finalize", r, "done"), RunPosted>>
       \/ /\ "fail" \in may
          /\ c' = [c EXCEPT !.error = TRUE]
          /\ stack' = <<Call("finalize", r, "error"), RunPosted>>
          /\ UNCHANGED req
  /\ UNCHANGED <<made, count, posted, wire>>

\* ngx_http_upstream_handler
UpstreamEvent(r) ==
  /\ Idle /\ req[r].upstream
  /\ stack' = <<Call("upstream", r, "none"), RunPosted>>
  /\ UNCHANGED <<req, made, c, count, posted, wire>>

\* ngx_http_upstream_resolve_handler: posted requests are not run
ResolverFails ==
  /\ Idle /\ "resolver" \in may
  /\ \E r \in Requests :
       /\ req[r].upstream /\ req[r].items = 0
       /\ req' = [req EXCEPT ![r].upstream = FALSE]
       /\ stack' = <<Call("finalize", r, "special")>>
  /\ c' = [c EXCEPT !.resolver = TRUE]
  /\ UNCHANGED <<made, count, posted, wire>>

\* ngx_http_lingering_close_handler
LingerEvent ==
  /\ stack = <<>> /\ c.state = "linger"
  /\ stack' = <<Call("close", Main, "ok")>>
  /\ UNCHANGED <<req, made, c, count, posted, wire>>

HttpNext ==
  /\ \/ HttpStep \/ WriteEvent \/ ClientCloses \/ DiscardEvent \/ ResolverFails \/ LingerEvent
     \/ \E r \in Requests : UpstreamEvent(r)
  /\ UNCHANGED may

\* The event loop handles every event that is due: upstreams answer or time out, so do a
\* client that is waited for and the body that is discarded.
HttpSpec ==
  /\ HttpInit /\ [][HttpNext]_httpVars
  /\ WF_httpVars(HttpStep /\ UNCHANGED may)
  /\ SF_httpVars(WriteEvent /\ Armed /\ UNCHANGED may)
  /\ SF_httpVars(DiscardEvent /\ req[Main].done /\ UNCHANGED may)
  /\ WF_httpVars(LingerEvent /\ UNCHANGED may)
  /\ \A r \in Requests : SF_httpVars(UpstreamEvent(r) /\ UNCHANGED may)

-----------------------------------------------------------------------------
(* Properties *)

Handlers == {"handler", "empty", "writer", "finalizer", "terminate", "upstream"}

\* The types of the request's fields; the count stays in its eight bits.
HttpTypeOK ==
  /\ \A r \in Requests :
       /\ req[r].parent \in Requests \cup {None} /\ req[r].wh \in Handlers
       /\ req[r].uri \in 0..MaxUri + 1 /\ req[r].items \in 0..MaxItems
  /\ made \in 0..MaxSubs /\ c.data \in Requests /\ count \in 0..255
  /\ posted \in Seq(Requests)

\* ngx_http_request_t is freed when nothing uses it any more: no function that has been called
\* for it, or is still to be called, runs afterwards, except the loop over posted requests,
\* which looks at c->destroyed first.
NothingRunsAfterFree ==
  ~Allocated => \A i \in DOMAIN stack : stack[i].fn = "run_posted"

\* Between two events, r->main->count is the number of those who will still finish: the main
\* request, each of its subrequests and the handler that discards the body.  It holds until a
\* subrequest, which copies discard_body, has read the body: that gives a count back that is
\* the main request's.
CountExact ==
  (stack = <<>> /\ c.state = "request" /\ req[Main].wh # "terminate" /\ c.taken = 0) =>
    count = Cardinality({r \in 0..made : ~req[r].done}) + (IF req[Main].discard THEN 1 ELSE 0)

\* the order of two places in the document: a subrequest's output is where it was made
Before(p, q) ==
  \E i \in DOMAIN p \cap DOMAIN q : p[i] < q[i] /\ \A j \in 1..(i - 1) : p[j] = q[j]

\* However subrequests, upstreams and the client's socket are interleaved, the client gets the
\* pieces of the response in the order of the document, each of them once.
OutputInOrder == \A i, j \in DOMAIN wire : i < j => Before(wire[i], wire[j])

Produced == LET Sum[n \in 0..MaxSubs] == (IF n = 0 THEN 0 ELSE Sum[n - 1]) + req[n].items + (IF req[n].last THEN 1 ELSE 0)
            IN  Sum[MaxSubs] - made

\* A main request that is done has passed on everything that it and its subrequests made.
OutputComplete == req[Main].done /\ ~c.error => Len(wire) = Produced /\ ~c.buffered

\* When the main request has nothing left to send it is the active one: a subrequest never
\* keeps c->data after the main request has taken it out of its list.
FinalizedInTurn == FinalizingOk /\ Frame.r = Main /\ ~Pending(Main) => c.data = Main

\* A posted request is run before the event loop goes on, except after a failed resolver,
\* whose handler does not call ngx_http_run_posted_requests().
PostedIsRun == stack = <<>> /\ Allocated /\ posted # <<>> => c.resolver

\* The last one to close the request finds a count to give back: the alert "http request count
\* is zero" of ngx_http_close_request() is not reached.
CountNeverZero == In({"close"}) => count > 0

\* Every request is freed in the end; after a failed resolver it may be left with a handler
\* that has been posted and that no event runs.
RequestEnds == <>(~Allocated \/ (stack = <<>> /\ posted # <<>>))

\* The reference count of a request agrees with its users between any two events.
CountKept == HttpTypeOK /\ CountExact

\* A request lives as long as it is used (ngx_http_finalize_request()), and what is posted for it
\* is run.
RequestKept == CountKept /\ NothingRunsAfterFree /\ PostedIsRun

\* The response is the document: all pieces of the request and its subrequests, each once, in
\* document order, with the main request active when it ends.
OutputFaithful == OutputInOrder /\ OutputComplete /\ FinalizedInTurn

=============================================================================
