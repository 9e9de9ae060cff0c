------------------------------ MODULE EventPipe ------------------------------
(***************************************************************************)
(* The pipe between an upstream and a client (event/ngx_event_pipe.c) with *)
(* the copy input filter, as http/ngx_http_upstream.c runs it, and the     *)
(* write filter below it (http/ngx_http_write_filter_module.c).  A reply   *)
(* is the bytes 1..Total.  Raw buffers and the temporary file have real    *)
(* contents, so that a buffer that is filled again too early shows in what *)
(* the client gets.                                                        *)
(*                                                                         *)
(* Each turn of the loops of ngx_event_pipe_write_to_downstream and        *)
(* ngx_event_pipe_read_upstream is an action.  cyclic_temp_file, which no  *)
(* directive sets, AIO, limit_rate and a request that is not the active    *)
(* one are left out; with the copy filter a raw buffer has one shadow.     *)
(***************************************************************************)
EXTENDS Integers, Sequences, FiniteSets, SequencesExt

CONSTANTS
  Total,      \* bytes of the reply
  BufSize,    \* bytes of a buffer: p->bufs.size, and u->buffer
  PipeConfs   \* [bufs, busy, temp, chunk, postpone, pre, cacheable]: p->bufs.num, p->busy_size,
              \* max_temp_file_size, temp_file_write_size, postpone_output, preread_size, p->cacheable

ASSUME PipeAssumption ==
  /\ Total \in Nat /\ BufSize \in Nat \ {0}
  /\ \A f \in PipeConfs :
       \* the checks of proxy_buffers, proxy_busy_buffers_size and proxy_temp_file_write_size
       /\ f.bufs \in Nat \ {0, 1} /\ f.busy >= BufSize /\ f.busy <= (f.bufs - 1) * BufSize
       /\ (f.temp = 0 \/ f.temp >= BufSize) /\ f.chunk >= BufSize /\ f.pre \in 0..BufSize
       /\ f.pre <= Total /\ f.postpone \in Nat

VARIABLES
  pipeConf,  \* the configuration
  pipe,      \* ngx_event_pipe_t, see PipeInit
  sock,      \* the two sockets: read->ready, write->ready, their timers, bytes to come
  client     \* history: bytes sent, and whether one of them was wrong

pipeVars == <<pipeConf, pipe, sock, client>>

Preread == 0                             \* u->buffer, a raw buffer that is not counted in p->allocated
RawIds(f) == 0..f.bufs
EmptyRaw == [mem |-> [i \in 1..BufSize |-> 0], fill |-> 0]

PipeInit ==
  /\ pipeConf \in PipeConfs
  /\ pipe = [at |-> "read",              \* ngx_http_upstream_process_upstream is called at once
             preread |-> TRUE,           \* p->preread_bufs
             raw |-> [i \in RawIds(pipeConf) |-> EmptyRaw], allocated |-> 0,
             freeRaw |-> <<>>,           \* p->free_raw_bufs
             in |-> <<>>, out |-> <<>>,  \* p->in, p->out
             busy |-> <<>>,              \* p->busy, and the chain that the write filter keeps
             file |-> <<>>,              \* the temporary file
             eof |-> FALSE, error |-> FALSE, downerr |-> FALSE,
             read |-> FALSE, blocked |-> FALSE]
  /\ sock = [r |-> TRUE, w |-> TRUE, rtimer |-> FALSE, wtimer |-> FALSE, got |-> 0]
  /\ client = [sent |-> 0, wrong |-> FALSE]

-----------------------------------------------------------------------------
(* Buffers *)

\* a shadow of raw buffer i, or a part of the temporary file; from..to is what is left of it
Shadow(i, n) == [raw |-> i, from |-> 1, to |-> n, recycled |-> TRUE]
InFile == -1

Length(b) == b.to - b.from + 1
Sum(bufs) == FoldLeft(LAMBDA n, b : n + Length(b), 0, bufs)
ByteAt(p, b, j) == IF b.raw = InFile THEN p.file[j] ELSE p.raw[b.raw].mem[j]
Bytes(p, bufs) == FoldLeft(LAMBDA s, b : s \o [j \in 1..Length(b) |-> ByteAt(p, b, b.from + j - 1)], <<>>, bufs)

\* bufs without their first n bytes
Unsent(bufs, n) ==
  LET Skip(a, b) == IF a.n >= Length(b) THEN [a EXCEPT !.n = @ - Length(b)]
                    ELSE [n |-> 0, left |-> Append(a.left, [b EXCEPT !.from = @ + a.n])]
  IN  FoldLeft(Skip, [n |-> n, left |-> <<>>], bufs).left

\* mutant: the free buffer is always put first
AddFreeFirst(p, i) == [p EXCEPT !.raw[i].fill = 0, !.freeRaw = <<i>> \o @]

\* ngx_event_pipe_add_free_buf: after the first one if that is partially filled
AddFree(p, i) ==
  [p EXCEPT !.raw[i].fill = 0,
            !.freeRaw = IF @ = <<>> \/ p.raw[Head(@)].fill = 0 THEN <<i>> \o @
                        ELSE <<Head(@), i>> \o Tail(@)]

AddFreeAll(p, bufs) ==
  FoldLeft(LAMBDA q, b : IF b.raw = InFile THEN q ELSE AddFree(q, b.raw), p, bufs)

\* ngx_event_pipe_drain_chains
PipeDrained(p) == [AddFreeAll(p, p.busy \o p.out \o p.in) EXCEPT !.busy = <<>>, !.out = <<>>, !.in = <<>>]

\* the copy input filter
InputFilter(p, i) ==
  IF p.raw[i].fill = 0 THEN p ELSE [p EXCEPT !.in = Append(@, Shadow(i, p.raw[i].fill))]

\* ngx_event_pipe_write_chain_to_temp_file for the first n buffers of p->in: their bytes are in the
\* file, and the raw buffers are free again, behind the others
ToTempFile(p, n) ==
  LET bufs == SubSeq(p.in, 1, n)
      Put(q, b) == [q EXCEPT !.file = @ \o Bytes(p, <<b>>),
                             !.out = Append(@, [raw |-> InFile, from |-> Len(q.file) + 1,
                                                to |-> Len(q.file) + Length(b), recycled |-> FALSE]),
                             !.raw[b.raw].fill = 0, !.freeRaw = Append(@, b.raw)]
  IN  [FoldLeft(Put, p, bufs) EXCEPT !.in = SubSeq(p.in, n + 1, Len(p.in))]

\* how many buffers it takes: as many as may be written at once and as the file may hold
TempCount(p) ==
  IF pipeConf.cacheable THEN Len(p.in)
  ELSE CHOOSE n \in 0..Len(p.in) :
         LET Fits(m) == /\ Sum(SubSeq(p.in, 1, m)) <= pipeConf.chunk
                        /\ Len(p.file) + Sum(SubSeq(p.in, 1, m)) <= pipeConf.temp
         IN  Fits(n) /\ (n = Len(p.in) \/ ~Fits(n + 1))

-----------------------------------------------------------------------------
(* Writing to the client *)

\* ngx_http_write_filter for the buffers that it keeps and new ones; n bytes go to the socket
Postponed(kept, new) ==
  /\ new # <<>> /\ Sum(kept \o new) < pipeConf.postpone
  /\ \A i \in DOMAIN (kept \o new) : ~(kept \o new)[i].recycled

Output(p, kept, new, n) ==
  LET bytes == Bytes(p, kept \o new) IN
  /\ IF Postponed(kept, new) \/ ~sock.w THEN n = 0 ELSE n \in 1..Len(bytes) \/ (n = 0 /\ bytes = <<>>)
  /\ sock' = [sock EXCEPT !.w = @ /\ (n = Len(bytes) \/ Postponed(kept, new))]
  /\ client' = [client EXCEPT !.sent = @ + n,
                              !.wrong = @ \/ \E j \in 1..n : bytes[j] # client.sent + j]

\* the buffers that one turn takes from p->out and then from p->in, before p->busy_size is exceeded
BusySize(p) == FoldLeft(LAMBDA n, b : n + IF b.recycled THEN BufSize ELSE 0, 0, p.busy)
Ready(p) == p.out \o (IF pipeConf.cacheable THEN <<>> ELSE p.in)

\* mutant: the buffers that are busy already are not counted
TakesMore(p) == Len(Ready(p))

Takes(p) ==
  LET ready == Ready(p)
      Recycled(m) == Sum(SelectSeq(SubSeq(ready, 1, m), LAMBDA b : b.recycled))
      Fits(m) == m = 0 \/ ~ready[m].recycled \/ BusySize(p) + Recycled(m) <= pipeConf.busy
  IN  IF BusySize(p) >= pipeConf.busy THEN 0
      ELSE CHOOSE n \in 0..Len(ready) : (\A m \in 0..n : Fits(m)) /\ (n = Len(ready) \/ ~Fits(n + 1))

Took(p, n) ==
  [p EXCEPT !.out = SubSeq(@, n + 1, Len(@)),
            !.in = IF n <= Len(p.out) THEN @ ELSE SubSeq(@, n - Len(p.out) + 1, Len(@))]

\* ngx_chain_update_chains and the loop after it: what was sent is free, the last of it first
Updated(p, kept, left) ==
  [AddFreeAll(p, Reverse(SubSeq(kept, 1, Len(kept) - Len(left)))) EXCEPT !.busy = left]

\* the function returns: read again
ToRead(p) == [p EXCEPT !.at = "read", !.read = FALSE, !.blocked = FALSE]

\* the client does not take anything any more
WriteDrain ==
  /\ pipe.at = "write" /\ pipe.downerr
  /\ pipe' = ToRead(PipeDrained(pipe))
  /\ UNCHANGED <<pipeConf, sock, client>>

\* the upstream is done: everything goes to the output filter
WriteLast ==
  LET all == pipe.out \o pipe.in
      kept == [i \in DOMAIN pipe.busy |-> [pipe.busy[i] EXCEPT !.recycled = FALSE]]
      new == [i \in DOMAIN all |-> [all[i] EXCEPT !.recycled = FALSE]]
  IN
  /\ pipe.at = "write" /\ ~pipe.downerr /\ (pipe.eof \/ pipe.error)
  /\ \E n \in 0..Sum(kept \o new) :
       /\ IF new = <<>> THEN n = 0 /\ UNCHANGED <<sock, client>> ELSE Output(pipe, kept, new, n)
       /\ pipe' = ToRead([pipe EXCEPT !.out = <<>>, !.in = <<>>, !.busy = Unsent(kept \o new, n)])
  /\ UNCHANGED pipeConf

WriteReturn ==
  /\ pipe.at = "write" /\ ~pipe.downerr /\ ~pipe.eof /\ ~pipe.error
  /\ ~sock.w \/ (BusySize(pipe) < pipeConf.busy /\ Ready(pipe) = <<>>)
  /\ pipe' = ToRead(pipe)
  /\ UNCHANGED <<pipeConf, sock, client>>

WriteTurn ==
  /\ pipe.at = "write" /\ ~pipe.downerr /\ ~pipe.eof /\ ~pipe.error
  /\ sock.w /\ (BusySize(pipe) >= pipeConf.busy \/ Ready(pipe) # <<>>)
  /\ LET new == SubSeq(Ready(pipe), 1, Takes(pipe))
         p == Took(pipe, Takes(pipe))
     IN  \E n \in 0..Sum(pipe.busy \o new) :
           /\ Output(pipe, pipe.busy, new, n)
           /\ pipe' = Updated(p, pipe.busy \o new, Unsent(pipe.busy \o new, n))
  /\ UNCHANGED pipeConf

\* the output filter fails
WriteError ==
  /\ pipe.at = "write" /\ ~pipe.downerr /\ sock.w /\ pipe.busy \o pipe.out \o pipe.in # <<>>
  /\ pipe' = [pipe EXCEPT !.downerr = TRUE]
  /\ UNCHANGED <<pipeConf, sock, client>>

-----------------------------------------------------------------------------
(* Reading from the upstream *)

\* the buffers to read into: free ones, or a new one, or those that the temporary file frees
MayAllocate(p) == p.allocated < pipeConf.bufs
MayPassOn == ~pipeConf.cacheable /\ sock.w
MaySave(p) == (pipeConf.cacheable \/ Len(p.file) < pipeConf.temp) /\ (p.in = <<>> \/ TempCount(p) > 0)

WithRoom(p) ==
  IF p.freeRaw # <<>> THEN p
  ELSE IF MayAllocate(p) THEN [p EXCEPT !.allocated = @ + 1, !.freeRaw = <<p.allocated + 1>>]
  ELSE ToTempFile(p, TempCount(p))

HasRoom(p) == p.freeRaw # <<>> \/ MayAllocate(p) \/ (~MayPassOn /\ MaySave(p))

\* n bytes come into the free buffers; those that are full go through the input filter
Filled(p, n) ==
  LET Fill(a, i) ==
        LET at == a.p.raw[i].fill
            k == IF a.n < BufSize - at THEN a.n ELSE BufSize - at
            q == [a.p EXCEPT !.raw[i].fill = at + k,
                             !.raw[i].mem = [j \in 1..BufSize |-> IF j \in (at + 1)..(at + k) THEN a.next + j - at ELSE @[j]]]
        IN  [p |-> IF k > 0 /\ at + k = BufSize THEN InputFilter(q, i) ELSE [q EXCEPT !.freeRaw = Append(@, i)],
             n |-> a.n - k, next |-> a.next + k]
  IN  FoldLeft(Fill, [p |-> [p EXCEPT !.freeRaw = <<>>], n |-> n, next |-> sock.got], p.freeRaw).p

\* what the loop is followed by: the last buffer, and the file of a reply that is cached
ReadTail(p) ==
  LET q == IF p.eof /\ p.freeRaw # <<>> THEN [InputFilter(p, Head(p.freeRaw)) EXCEPT !.freeRaw = Tail(@)] ELSE p
      s == IF pipeConf.cacheable THEN ToTempFile(q, Len(q.in)) ELSE q
  IN  [s EXCEPT !.at = IF p.read \/ p.blocked THEN "write" ELSE "end"]

Reading == pipe.at = "read" /\ ~pipe.eof /\ ~pipe.error
Receiving == Reading /\ ~pipe.preread /\ sock.r

\* nothing to read any more, or at the moment
ReadNothing ==
  /\ pipe.at = "read"
  /\ \/ ~Reading /\ pipe' = [pipe EXCEPT !.at = "end"]
     \/ Reading /\ ~pipe.preread /\ ~sock.r /\ pipe' = ReadTail(pipe)
  /\ UNCHANGED <<pipeConf, sock, client>>

\* what came with the header of the reply
ReadPreread ==
  /\ Reading /\ pipe.preread
  /\ pipe' = Filled([pipe EXCEPT !.preread = FALSE, !.freeRaw = <<Preread>>, !.read = pipeConf.pre > 0], pipeConf.pre)
  /\ sock' = [sock EXCEPT !.got = pipeConf.pre]
  /\ UNCHANGED <<pipeConf, client>>

\* no buffer to read into
ReadBlocked ==
  /\ Receiving /\ ~HasRoom(pipe)
  /\ pipe' = ReadTail([pipe EXCEPT !.blocked = MayPassOn])
  /\ UNCHANGED <<pipeConf, sock, client>>

Starved(p) == p.freeRaw = <<>> /\ ~MayAllocate(p) /\ p.in = <<>>

\* recv_chain
ReadSome(n) ==
  LET p == WithRoom(pipe) IN
  /\ Receiving /\ HasRoom(pipe) /\ ~Starved(pipe)
  /\ n <= Total - sock.got /\ n <= FoldLeft(LAMBDA a, i : a + BufSize - p.raw[i].fill, 0, p.freeRaw)
  /\ pipe' = [Filled(p, n) EXCEPT !.read = TRUE]
  /\ sock' = [sock EXCEPT !.got = @ + n]
  /\ UNCHANGED <<pipeConf, client>>

ReadAgain ==
  /\ Receiving /\ HasRoom(pipe) /\ ~Starved(pipe)
  /\ pipe' = ReadTail(WithRoom(pipe))
  /\ sock' = [sock EXCEPT !.r = FALSE]
  /\ UNCHANGED <<pipeConf, client>>

ReadEof ==
  /\ Receiving /\ HasRoom(pipe) /\ ~Starved(pipe) /\ sock.got = Total
  /\ pipe' = ReadTail([WithRoom(pipe) EXCEPT !.read = TRUE, !.eof = TRUE])
  /\ UNCHANGED <<pipeConf, sock, client>>

ReadError ==
  /\ Receiving /\ HasRoom(pipe) /\ ~Starved(pipe)
  /\ pipe' = [WithRoom(pipe) EXCEPT !.error = TRUE, !.at = IF pipe.read THEN "write" ELSE "end"]
  /\ UNCHANGED <<pipeConf, sock, client>>

-----------------------------------------------------------------------------
(* The end of ngx_event_pipe, ngx_http_upstream_process_request, and the events *)

Over(p) == p.eof \/ p.error \/ (p.downerr /\ ~pipeConf.cacheable)

PipeReturn ==
  /\ pipe.at = "end"
  /\ pipe' = [pipe EXCEPT !.at = IF Over(pipe) THEN "done" ELSE "wait"]
  /\ sock' = [sock EXCEPT !.rtimer = ~sock.r, !.wtimer = ~sock.w]
  /\ UNCHANGED <<pipeConf, client>>

\* ngx_http_upstream_process_upstream
Readable ==
  /\ pipe.at = "wait"
  /\ pipe' = ToRead(pipe) /\ sock' = [sock EXCEPT !.r = TRUE]
  /\ UNCHANGED <<pipeConf, client>>

ReadTimeout ==
  /\ pipe.at = "wait" /\ sock.rtimer
  /\ pipe' = [pipe EXCEPT !.error = TRUE, !.at = "done"]
  /\ UNCHANGED <<pipeConf, sock, client>>

\* ngx_http_upstream_process_downstream
Writable ==
  /\ pipe.at = "wait" /\ ~sock.w
  /\ pipe' = [pipe EXCEPT !.at = "write"] /\ sock' = [sock EXCEPT !.w = TRUE]
  /\ UNCHANGED <<pipeConf, client>>

WriteTimeout ==
  /\ pipe.at = "wait" /\ sock.wtimer
  /\ pipe' = [pipe EXCEPT !.downerr = TRUE, !.at = IF pipeConf.cacheable THEN "wait" ELSE "done"]
  /\ sock' = [sock EXCEPT !.wtimer = FALSE]
  /\ UNCHANGED <<pipeConf, client>>

PipeNext ==
  \/ WriteDrain \/ WriteLast \/ WriteReturn \/ WriteTurn \/ WriteError
  \/ ReadNothing \/ ReadPreread \/ ReadBlocked \/ ReadAgain \/ ReadEof \/ ReadError
  \/ \E n \in 1..Total : ReadSome(n)
  \/ PipeReturn \/ Readable \/ ReadTimeout \/ Writable \/ WriteTimeout

PipeSpec == PipeInit /\ [][PipeNext]_pipeVars

-----------------------------------------------------------------------------
(* Properties *)

RawOf(bufs) == {bufs[i].raw : i \in DOMAIN bufs} \ {InFile}

\* The client gets the bytes of the reply in their order, whatever is kept in buffers and in the
\* file meanwhile; and when the upstream is done all of them are with the write filter, and in the
\* file of a reply that is cached.
RepliedExactly ==
  /\ ~client.wrong
  /\ pipe.at = "done" /\ pipe.eof =>
       /\ ~pipe.downerr => client.sent + Sum(pipe.busy) = Total
       /\ pipeConf.cacheable => pipe.file = [i \in 1..Total |-> i]

\* A raw buffer is free, or holds data for the client, and never both; none is lost before the end.
RawExact ==
  ~pipe.eof /\ ~pipe.error =>
    LET used == RawOf(pipe.in) \cup RawOf(pipe.busy) IN
    /\ ToSet(pipe.freeRaw) \cap used = {} /\ IsInjective(pipe.freeRaw)
    /\ ToSet(pipe.freeRaw) \cup used = (1..pipe.allocated) \cup (IF pipe.preread THEN {} ELSE {Preread})

\* No reuse of buffers, no temporary file and no order of events of the two sockets changes the reply.
PipeFaithful == RepliedExactly /\ RawExact

\* When the pipe waits for an event a timer will end the wait: it is never the case that both
\* sockets are ready and nothing moves; and when all buffers are taken, some of them hold data that
\* can go to the temporary file, which the code takes for granted.
PipeNeverStalls ==
  /\ pipe.at = "wait" => sock.rtimer \/ sock.wtimer
  /\ Receiving /\ ~MayPassOn /\ MaySave(pipe) /\ ~pipeConf.cacheable => ~Starved(pipe)
=============================================================================
