---------------------------- MODULE RequestReader ----------------------------
(* How a worker takes requests off a keepalive connection: the header buffers of *)
(* http/ngx_http_request.c and the bodies of http/ngx_http_request_body.c.       *)
(*                                                                               *)
(* A client sends requests one behind the other and may send the next before it  *)
(* has the answer to the last.  A byte is its place in that stream; what it means *)
(* to the parser is wire[byte].  The header of a request is parsed in c->buffer  *)
(* and, when that is full, in large buffers; pointers to the lines stay in the   *)
(* buffers they were parsed in.  What is behind a request in its last buffer is  *)
(* the beginning of the next one.                                                *)
EXTENDS Integers, Sequences, FiniteSets, SequencesExt

CONSTANT ReaderConfs  \* [wire, requests, small, large, num, size, only, single]

Kinds == {"blank", "line", "eol", "eoh", "body"}

\* wire is what the client sends: byte -> blank line, in a line, end of a line, end of a header,
\* or body.  The requests lie in it one behind the other: [before: bytes before it, header,
\* body: its bytes].  The sizes of the buffers are not zero.
Follow(c) ==
  /\ c.requests[1].before = 0
  /\ \A i \in DOMAIN c.requests : LET q == c.requests[i] IN
       /\ q.before + q.header + q.body =
            IF i < Len(c.requests) THEN c.requests[i + 1].before ELSE Len(c.wire)
       /\ \A j \in 1..q.header : c.wire[q.before + j] = "eoh" <=> j = q.header
ASSUME ReaderAssumption ==
  \A c \in ReaderConfs :
    /\ c.wire \in Seq(Kinds)
    /\ c.requests \in Seq([before : Nat, header : Nat \ {0}, body : Nat]) /\ c.requests # <<>> /\ Follow(c)
    /\ {c.small, c.large, c.num, c.size} \subseteq Nat \ {0} /\ {c.only, c.single} \subseteq BOOLEAN

VARIABLES
  rconf,     \* the configuration: sizes of the buffers, and what the client sends
  doing,     \* the handler of the connection
  serving,   \* index of the request
  received,  \* bytes taken from the kernel
  taken,     \* history: bytes that the parser or a body has taken
  buffer,    \* buffer -> [mem, pos, last]: pos is the next byte to parse, last the next free place
  headerIn,  \* r->header_in
  busyBufs,  \* hc->busy
  freeBufs,  \* hc->free
  mid,       \* r->state # 0: inside a line
  start,     \* r->request_start or r->header_name_start: where in header_in the line begins
  lines,     \* the lines parsed: [buf, from, len, first]
  rb         \* r->request_body

readerVars == <<rconf, doing, serving, received, taken, buffer, headerIn, busyBufs, freeBufs,
                mid, start, lines, rb>>
heads == <<headerIn, busyBufs, freeBufs, mid, start, lines>>

\* c->buffer, among the buffers
Small == 0
Size(b) == IF b = Small THEN rconf.small ELSE rconf.large
Unused(size) == [mem |-> [i \in 1..size |-> 0], pos |-> 1, last |-> 1]
Buffers == {Small} \cup 1..rconf.num
In == buffer[headerIn]
Unparsed == In.last - In.pos
Full == In.pos = Size(headerIn) + 1

NoBody == [pre |-> [buf |-> Small, from |-> 1, len |-> 0], inHeader |-> FALSE, buf |-> <<>>,
           cap |-> 0, rest |-> 0, bufs |-> <<>>, toWrite |-> <<>>, file |-> <<>>, hasFile |-> FALSE]

\* the stream that the client sends, and where in it a request begins
wire == rconf.wire
BytesBefore(i) == IF i <= Len(rconf.requests) THEN rconf.requests[i].before ELSE Len(wire)

ReaderInit ==
  /\ rconf \in ReaderConfs
  /\ doing = "init" /\ serving = 1
  /\ received = 0 /\ taken = 0
  /\ buffer = [b \in {Small} \cup 1..rconf.num |-> Unused(Size(b))]
  /\ headerIn = Small /\ busyBufs = <<>> /\ freeBufs = <<>>
  /\ mid = FALSE /\ start = 1 /\ lines = {} /\ rb = NoBody

----------------------------------------------------------------------------
(* The header.                                                                   *)

\* n bytes from the kernel at the end of buffer b
Filled(b, n) ==
  [buffer EXCEPT ![b] =
     [mem |-> [i \in 1..Size(b) |-> IF i \in buffer[b].last..(buffer[b].last + n - 1)
                                    THEN received + i - buffer[b].last + 1 ELSE buffer[b].mem[i]],
      pos |-> buffer[b].pos, last |-> buffer[b].last + n]]
Available(room) == 1..(IF room < Len(wire) - received THEN room ELSE Len(wire) - received)

\* ngx_http_init_request(): a pipelined request begins in the buffer it is in already
InitRequest ==
  /\ doing = "init"
  /\ headerIn' = IF busyBufs # <<>> THEN busyBufs[1] ELSE Small
  /\ doing' = "line" /\ mid' = FALSE /\ start' = buffer[headerIn'].pos /\ lines' = {}
  /\ rb' = NoBody
  /\ UNCHANGED <<rconf, serving, received, taken, buffer, busyBufs, freeBufs>>

\* ngx_http_read_request_header()
ReadHeader(n) ==
  /\ doing \in {"line", "headers"} /\ Unparsed = 0 /\ ~Full
  /\ n \in Available(Size(headerIn) + 1 - In.last)
  /\ buffer' = Filled(headerIn, n) /\ received' = received + n
  /\ UNCHANGED <<rconf, doing, serving, taken, heads, rb>>

\* ngx_http_parse_request_line() or ngx_http_parse_header_line() over what is there: to the
\* end of the line, or of the bytes
Ends == {i \in In.pos..(In.last - 1) : wire[In.mem[i]] \in {"eol", "eoh"}}
FirstEnd == CHOOSE i \in Ends : \A j \in Ends : i <= j
\* blank lines before the request line do not begin it
Blanks ==
  IF doing = "line" /\ ~mid
  THEN {i \in In.pos..(In.last - 1) : \A j \in In.pos..i : wire[In.mem[j]] = "blank"} ELSE {}
LineStart == IF mid THEN start ELSE In.pos + Cardinality(Blanks)

ParseLine ==
  /\ doing \in {"line", "headers"} /\ Unparsed > 0
  /\ \/ /\ Ends = {}
        /\ buffer' = [buffer EXCEPT ![headerIn].pos = In.last]
        /\ mid' = (LineStart < In.last) /\ start' = LineStart
        /\ taken' = taken + Unparsed
        /\ UNCHANGED <<doing, lines>>
     \/ /\ Ends # {}
        /\ buffer' = [buffer EXCEPT ![headerIn].pos = FirstEnd + 1]
        /\ mid' = FALSE /\ start' = FirstEnd + 1
        /\ taken' = taken + FirstEnd + 1 - In.pos
        /\ lines' = lines \cup {[buf |-> headerIn, from |-> LineStart, len |-> FirstEnd + 1 - LineStart,
                                 first |-> taken' - (FirstEnd - LineStart)]}
        /\ doing' = IF wire[In.mem[FirstEnd]] = "eoh" THEN "handler" ELSE "headers"
  /\ UNCHANGED <<rconf, serving, received, headerIn, busyBufs, freeBufs, rb>>

\* a large buffer: one of a former request, or a new one while their number allows it
TakesFree == freeBufs # <<>>
MayCreate == Len(busyBufs) < rconf.num
Large ==
  IF TakesFree THEN Last(freeBufs)
  ELSE CHOOSE b \in 1..rconf.num : b \notin ToSet(busyBufs)

\* the incomplete line moves to the beginning of the new buffer
Incomplete == In.pos - start
TooLong == mid /\ Incomplete >= rconf.large
MovedTo(b) ==
  [buffer EXCEPT ![b] =
     [mem |-> [i \in 1..rconf.large |->
                 IF mid /\ i <= Incomplete THEN In.mem[start + i - 1] ELSE buffer[b].mem[i]],
      pos |-> IF mid THEN Incomplete + 1 ELSE buffer[b].pos,
      last |-> IF mid THEN Incomplete + 1 ELSE buffer[b].last]]

\* ngx_http_alloc_large_header_buffer(), when the buffer is full
AllocLarge ==
  /\ doing \in {"line", "headers"} /\ Unparsed = 0 /\ Full
  /\ \/ \* nothing but blank lines in it
        /\ doing = "line" /\ ~mid
        /\ buffer' = [buffer EXCEPT ![headerIn] = [mem |-> In.mem, pos |-> 1, last |-> 1]]
        /\ UNCHANGED <<doing, heads>>
     \/ /\ doing = "headers" \/ mid
        /\ ~TooLong
        /\ TakesFree \/ MayCreate
        /\ buffer' = MovedTo(Large)
        /\ freeBufs' = IF TakesFree THEN Front(freeBufs) ELSE freeBufs
        /\ busyBufs' = Append(busyBufs, Large)
        /\ headerIn' = Large /\ start' = 1
        /\ UNCHANGED <<doing, mid, lines>>
     \/ /\ doing = "headers" \/ mid
        /\ TooLong \/ ~(TakesFree \/ MayCreate)
        /\ doing' = "refused"
        /\ UNCHANGED <<buffer, heads>>
  /\ UNCHANGED <<rconf, serving, received, taken, rb>>

----------------------------------------------------------------------------
(* The body.                                                                     *)

ContentLength == rconf.requests[serving].body
SmallerOf(a, b) == IF a <= b THEN a ELSE b
Preread == SmallerOf(Unparsed, ContentLength)

\* the bytes in a buffer of r->request_body->bufs
Slice(s) == [i \in 1..s.len |-> buffer[s.buf].mem[s.from + i - 1]]
Held(body, what) == CASE what = "pre" -> Slice(body.pre) [] what = "buf" -> body.buf [] what = "file" -> body.file
Contents(body, chain) == FlattenSeq([i \in DOMAIN chain |-> Held(body, chain[i])])

\* ngx_http_write_request_body()
Written(body) == [body EXCEPT !.file = @ \o Contents(body, body.toWrite), !.hasFile = TRUE]

\* a handler that wants no body: ngx_http_discard_request_body() takes what is in the
\* buffer, and the rest is read later
Discard ==
  /\ doing = "handler"
  /\ buffer' = [buffer EXCEPT ![headerIn].pos = @ + Preread]
  /\ taken' = taken + Preread
  /\ rb' = [NoBody EXCEPT !.rest = ContentLength - Preread]
  /\ doing' = IF Preread = ContentLength THEN "done" ELSE "discard"
  /\ UNCHANGED <<rconf, serving, received, heads>>

\* ngx_http_read_discarded_request_body()
ReadDiscarded(n) ==
  /\ doing = "discard"
  /\ n \in Available(rb.rest)
  /\ received' = received + n /\ taken' = taken + n
  /\ rb' = [rb EXCEPT !.rest = @ - n]
  /\ doing' = IF n = rb.rest THEN "done" ELSE "discard"
  /\ UNCHANGED <<rconf, serving, buffer, heads>>

\* ngx_http_read_client_request_body(): the whole body is there
WholeBody ==
  LET body == [NoBody EXCEPT !.pre = [buf |-> headerIn, from |-> In.pos, len |-> ContentLength],
                             !.bufs = IF ContentLength = 0 THEN <<>> ELSE <<"pre">>,
                             !.toWrite = <<"pre">>]
  IN IF rconf.only /\ ContentLength > 0 THEN Written(body) ELSE body

\* or a part of it, and the rest fits into header_in, or gets a buffer of its own
Prefixed == [NoBody EXCEPT !.pre = [buf |-> headerIn, from |-> In.pos, len |-> Preread],
                           !.rest = ContentLength - Preread]
FitsHeaderIn == Preread > 0 /\ ContentLength - Preread <= Size(headerIn) + 1 - In.last
InHeaderIn ==
  [Prefixed EXCEPT !.inHeader = TRUE, !.cap = Preread + (Size(headerIn) + 1 - In.last),
                   !.bufs = <<"pre">>, !.toWrite = <<"pre">>]

Fits(rest) == rest < rconf.size + rconf.size \div 4
Chain(copied) == IF Preread > 0 /\ ~copied THEN <<"pre", "buf">> ELSE <<"buf">>
\* MUTANT: what was read with the header is never written
ToWriteRest(chain) == IF Len(chain) = 1 THEN chain ELSE Tail(chain)
ToWrite(chain) == IF rconf.only \/ rconf.single \/ Len(chain) = 1 THEN chain ELSE Tail(chain)
OwnBuffer ==
  LET rest == ContentLength - Preread
      copied == Fits(rest) /\ rconf.single /\ Preread > 0
  IN [Prefixed EXCEPT !.buf = IF copied THEN Slice(Prefixed.pre) ELSE <<>>,
                      !.cap = IF ~Fits(rest) THEN rconf.size
                              ELSE rest + IF rconf.single THEN Preread ELSE 0,
                      !.bufs = Chain(copied),
                      !.toWrite = ToWrite(Chain(copied))]

ReadBody ==
  /\ doing = "handler"
  /\ buffer' = [buffer EXCEPT ![headerIn].pos = @ + Preread]
  /\ taken' = taken + Preread
  /\ \/ Preread = ContentLength /\ rb' = WholeBody /\ doing' = "body"
     \/ Preread < ContentLength /\ FitsHeaderIn /\ rb' = InHeaderIn /\ doing' = "reading"
     \/ Preread < ContentLength /\ ~FitsHeaderIn /\ rb' = OwnBuffer /\ doing' = "reading"
  /\ UNCHANGED <<rconf, serving, received, heads>>

\* ngx_http_do_read_client_request_body()
Fill == IF rb.inHeader THEN rb.pre.len ELSE Len(rb.buf)

\* a full buffer is written to the temporary file and used again
WriteFull ==
  /\ doing = "reading" /\ rb.rest > 0 /\ Fill = rb.cap
  /\ rb' = [Written(rb) EXCEPT !.toWrite = IF Len(rb.bufs) > 1 THEN Tail(rb.bufs) ELSE rb.bufs,
                               !.buf = <<>>]
  /\ UNCHANGED <<rconf, doing, serving, received, taken, buffer, heads>>

RecvBody(n) ==
  /\ doing = "reading" /\ rb.rest > 0 /\ Fill < rb.cap
  /\ n \in Available(SmallerOf(rb.rest, rb.cap - Fill))
  /\ received' = received + n /\ taken' = taken + n
  /\ \/ /\ rb.inHeader
        /\ buffer' = [buffer EXCEPT ![headerIn].mem =
             [i \in 1..Size(headerIn) |->
                IF i \in (rb.pre.from + Fill)..(rb.pre.from + Fill + n - 1)
                THEN received + i - (rb.pre.from + Fill) + 1 ELSE In.mem[i]]]
        /\ rb' = [rb EXCEPT !.pre.len = @ + n, !.rest = @ - n]
     \/ /\ ~rb.inHeader
        /\ rb' = [rb EXCEPT !.buf = @ \o [i \in 1..n |-> received + i], !.rest = @ - n]
        /\ UNCHANGED buffer
  /\ UNCHANGED <<rconf, doing, serving, heads>>

\* the last part goes to the file too, if there is one, which then takes the place of the
\* buffer that was written to it
WithFile(body) == [body EXCEPT !.bufs = Append(Front(@), "file")]
WithoutPre(body) ==
  IF Len(body.bufs) > 1 /\ (rconf.only \/ rconf.single) THEN [body EXCEPT !.bufs = Tail(@)] ELSE body
BodyRead ==
  /\ doing = "reading" /\ rb.rest = 0
  /\ rb' = WithoutPre(IF rb.hasFile \/ rconf.only THEN WithFile(Written(rb)) ELSE rb)
  /\ doing' = "body"
  /\ UNCHANGED <<rconf, serving, received, taken, buffer, heads>>

\* the handler has what it waited for; its answer is sent
Respond ==
  /\ doing = "body"
  /\ doing' = "done"
  /\ UNCHANGED <<rconf, serving, received, taken, buffer, heads, rb>>

----------------------------------------------------------------------------
(* From one request to the next.                                                 *)

\* ngx_http_set_keepalive(), another request is in the buffer: of the large buffers the
\* other ones are free again
Reset(freed) == [b \in DOMAIN buffer |-> IF b \in freed THEN [mem |-> buffer[b].mem, pos |-> 1, last |-> 1]
                                         ELSE buffer[b]]
\* MUTANT: all of them are
ReleasedAll == ToSet(busyBufs)
Released == ToSet(Front(busyBufs))
Pipelined ==
  /\ doing = "done" /\ Unparsed > 0
  /\ \/ headerIn = Small /\ UNCHANGED <<buffer, busyBufs, freeBufs>>
     \/ /\ headerIn # Small
        /\ buffer' = Reset(Released)
        /\ freeBufs' = freeBufs \o Front(busyBufs)
        /\ busyBufs' = <<headerIn>>
  /\ doing' = "init" /\ serving' = serving + 1 /\ lines' = {} /\ rb' = NoBody
  /\ UNCHANGED <<rconf, received, taken, headerIn, mid, start>>

\* nothing is: large buffers are freed, and c->buffer if it is large enough
Idle ==
  /\ doing = "done" /\ Unparsed = 0
  /\ buffer' = [b \in DOMAIN buffer |-> Unused(Size(b))]
  /\ headerIn' = Small /\ busyBufs' = <<>> /\ freeBufs' = <<>> /\ lines' = {} /\ rb' = NoBody
  /\ doing' = "keepalive" /\ serving' = serving + 1
  /\ UNCHANGED <<rconf, received, taken, mid, start>>

\* ngx_http_keepalive_handler()
NextRequest(n) ==
  /\ doing = "keepalive"
  /\ n \in Available(rconf.small)
  /\ buffer' = Filled(Small, n) /\ received' = received + n
  /\ doing' = "init"
  /\ UNCHANGED <<rconf, serving, taken, heads, rb>>

\* the client closes or is too slow, or the temporary file cannot be written
CloseConnection ==
  /\ doing \in {"line", "headers", "discard", "reading", "keepalive"}
  /\ doing' = "closed"
  /\ UNCHANGED <<rconf, serving, received, taken, buffer, heads, rb>>

ReaderNext ==
  \/ InitRequest \/ ParseLine \/ AllocLarge \/ Discard \/ ReadBody \/ WriteFull \/ BodyRead
  \/ Respond \/ Pipelined \/ Idle \/ CloseConnection
  \/ \E n \in 1..Len(wire) : ReadHeader(n) \/ ReadDiscarded(n) \/ RecvBody(n) \/ NextRequest(n)

----------------------------------------------------------------------------
(* What the handlers of requests rely on.                                        *)

\* what lies in header_in and was not parsed is the stream where the parser stopped
NothingSkipped ==
  /\ \A i \in In.pos..(In.last - 1) : In.mem[i] = taken + i - In.pos + 1
  /\ received = taken + Unparsed

\* the header of a request fits into one large buffer, and there are two
ShortHeader(q) == q.header <= rconf.large /\ rconf.num >= 2

\* However the bytes arrive and wherever a request ends in a buffer
\* (ngx_http_alloc_large_header_buffer(), ngx_http_set_keepalive()), no byte is lost or
\* parsed twice, each request begins where the one before it ended, and the lines that the
\* request points to stay in memory, unchanged, until it is over.  A request that fits into
\* one large buffer is not refused because of the requests before it, unless there is only
\* one such buffer.
HeadersIntact ==
  /\ NothingSkipped
  /\ doing \in {"init", "keepalive"} => taken = BytesBefore(serving)
  /\ \A l \in lines : \A i \in 1..l.len : buffer[l.buf].mem[l.from + i - 1] = l.first + i - 1
  /\ \A l \in lines : l.buf \in {Small} \cup ToSet(busyBufs)
  /\ doing = "refused" => ~ShortHeader(rconf.requests[serving])

\* What a handler is given as the body of its request
\* (ngx_http_do_read_client_request_body()) is the body, whole and in order, whatever part
\* of it came with the header and however often the buffer went to the file; with
\* client_body_in_file_only the file has all of it.
BodyExact ==
  doing = "body" =>
    \E first \in {BytesBefore(serving) + rconf.requests[serving].header} :
      /\ Contents(rb, rb.bufs) = [i \in 1..ContentLength |-> first + i]
      /\ rconf.only /\ ContentLength > 0 => rb.file = [i \in 1..ContentLength |-> first + i]
      /\ rconf.single => Len(rb.bufs) <= 1
=============================================================================
