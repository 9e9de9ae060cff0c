---------------------------- MODULE MCConnections ----------------------------
(* Listening sockets that reloads open and close (Cycle), the accepting of       *)
(* connections (AcceptMutex), what becomes of their structures and events in the *)
(* loop of one worker (EventLoop), the bytes of their requests (RequestReader),  *)
(* the search for the location of a request (Locations) and its way through the  *)
(* phases (Phases), for TLC.  They share no state of the models: a behaviour     *)
(* moves one of them.                                                            *)
EXTENDS MCAcceptMutex, EventLoop, Cycle, RequestReader, Locations, Phases

VARIABLE moving

----------------------------------------------------------------------------
\* Cycle: what the configuration file may say
Conf(pid_file, files, zones, socks) ==
  [pid |-> pid_file, files |-> files, zones |-> zones, socks |-> socks]
Zone(name, size) == [name |-> name, size |-> size]
FirstConf == Conf("p", <<"e">>, <<Zone("y", 1), Zone("z", 1)>>, <<"a", "b">>)
MCConfs ==
  {FirstConf,
   Conf("p", <<"e", "l">>, <<Zone("z", 1)>>, <<"b", "c">>),
   Conf("q", <<"l">>, <<Zone("z", 2), Zone("y", 1)>>, <<"c">>),
   Conf("p", <<"e">>, <<>>, <<"b", "a">>)}

----------------------------------------------------------------------------
\* RequestReader: three requests sent one behind the other, with the lengths of their lines,
\* and buffers that hold less than a header or a body
Request(blanks, line_lengths, body) == [blanks |-> blanks, lines |-> line_lengths, body |-> body]
Times(n, kind) == [i \in 1..n |-> kind]
WireLine(len) == IF len = 1 THEN <<"eoh">> ELSE Times(len - 1, "line") \o <<"eol">>
WireHeader(q) ==
  Times(q.blanks, "blank") \o FlattenSeq([i \in DOMAIN q.lines |-> WireLine(q.lines[i])])
Wire(requests) ==
  FlattenSeq([i \in DOMAIN requests |-> WireHeader(requests[i]) \o Times(requests[i].body, "body")])
Reader(requests, small, large, num, size, only, single) ==
  [wire |-> Wire(requests),
   requests |-> [i \in DOMAIN requests |->
                   [before |-> Len(Wire(SubSeq(requests, 1, i - 1))),
                    header |-> Len(WireHeader(requests[i])), body |-> requests[i].body]],
   small |-> small, large |-> large, num |-> num, size |-> size,
   only |-> only, single |-> single]
Streams ==
  {<<Request(0, <<2, 4, 2, 1>>, 3), Request(1, <<3, 2, 1>>, 0), Request(0, <<2, 3, 1>>, 2)>>,
   <<Request(0, <<2, 4, 3, 1>>, 0), Request(4, <<4, 2, 2, 1>>, 0), Request(0, <<3, 1>>, 5)>>,
   <<Request(0, <<5, 1>>, 1), Request(0, <<2, 2, 3, 4, 1>>, 6), Request(0, <<3, 2, 1>>, 0)>>}
ShortRequests(body, only, single) ==
  Reader(<<Request(0, <<2, 1>>, body), Request(0, <<2, 1>>, 0)>>, 6, 6, 1, 4, only, single)
MCReaderConfs ==
  {Reader(r, 3, 5, num, 2, FALSE, FALSE) : r \in Streams, num \in 1..3}
  \cup {Reader(r, 4, 6, 2, 2, TRUE, FALSE) : r \in Streams}
  \cup {ShortRequests(n, only, single) : n \in {0, 3, 4, 9}, only \in BOOLEAN, single \in BOOLEAN}

----------------------------------------------------------------------------
\* Locations: of the characters 1 is ".", 2 is "/" and 3 is "a"
Loc(name, exact, auto, noregex, sub) ==
  [kind |-> "location", name |-> name, exact |-> exact, auto |-> auto, noregex |-> noregex, sub |-> sub]
LocNames == {<<2>>, <<2, 3>>, <<2, 3, 1>>, <<2, 3, 2>>, <<2, 3, 3>>, <<2, 3, 2, 3>>, <<2, 1>>, <<2, 3, 3, 2>>}
PlainLocs == {l \in {Loc(n, e, a, FALSE, {}) : n \in LocNames, e \in BOOLEAN, a \in BOOLEAN} :
                l.auto => Last(l.name) = 2}
Outer(noregex) ==
  Loc(<<2, 3>>, FALSE, FALSE, noregex,
      {Loc(<<2, 3, 2>>, FALSE, TRUE, FALSE, {}), Loc(<<2, 3, 3>>, FALSE, FALSE, FALSE, {}),
       Loc(<<2, 3>>, TRUE, FALSE, FALSE, {})})
MCLocationSets ==
  {{}} \cup {{k, l, m} : k, l, m \in PlainLocs}
  \cup {{Outer(b)} \cup s : b \in BOOLEAN, s \in {{}} \cup {{l} : l \in PlainLocs}}
MCUris == LocNames \cup {<<2, 3, 3, 3>>, <<2, 3, 1, 2>>, <<2, 3, 2, 1>>, <<3>>, <<2, 2>>}
Regex(matched) == [kind |-> "regex", matches |-> matched, sub |-> {}]
MCRegexLists == {<<>>, <<Regex({<<2, 3>>, <<2, 3, 2, 3>>}), Regex(MCUris)>>}

----------------------------------------------------------------------------
\* Phases: a server, a named location and two others that send requests to one another
SiteLoc(satisfy, internal, handler, on, page, recursive, try) ==
  [satisfy |-> satisfy, internal |-> internal, handler |-> handler, on |-> on, page |-> page,
   recursive |-> recursive, try |-> try]
PlainSite == SiteLoc("all", FALSE, FALSE, {}, "none", FALSE, "none")
Modules(rewrite, access, try) ==
  [post_read |-> 1, server_rewrite |-> rewrite, rewrite |-> rewrite, preaccess |-> 1,
   access |-> access, try_files |-> try, content |-> 2]
SiteLocs(server_loc, named, a, i) ==
  [l \in {"server", "@", "/a", "/i"} |->
     CASE l = "server" -> server_loc [] l = "@" -> named [] l = "/a" -> a [] OTHER -> i]
SimpleSite ==
  [handlers |-> Modules(0, 0, 1),
   locations |-> SiteLocs(PlainSite, [PlainSite EXCEPT !.handler = TRUE],
                          SiteLoc("all", FALSE, TRUE, {"403", "404"}, "/i", TRUE, "/i"),
                          SiteLoc("all", TRUE, FALSE, {"500", "413"}, "/a", TRUE, "/a"))]
MCSites ==
  {[handlers |-> Modules(1, 2, 1),
    locations |-> SiteLocs([PlainSite EXCEPT !.on = {"500"}, !.page = "/a"],
                           [PlainSite EXCEPT !.satisfy = "any"],
                           SiteLoc("any", FALSE, TRUE, {"403", "500"}, "@", TRUE, "@"),
                           SiteLoc("any", TRUE, FALSE, {"500"}, "/a", FALSE, "404"))],
   [handlers |-> Modules(1, 1, 0),
    locations |-> SiteLocs(PlainSite, [PlainSite EXCEPT !.handler = TRUE],
                           SiteLoc("all", FALSE, TRUE, {"403", "404"}, "/i", TRUE, "none"),
                           SiteLoc("all", TRUE, FALSE, {"500", "413"}, "@", FALSE, "none"))],
   SimpleSite}

----------------------------------------------------------------------------
requestVars == <<readerVars, locationVars, phaseVars>>
connectionsVars == <<vars, loopVars, cycleVars, requestVars, moving>>

Moves(part) == moving = part /\ UNCHANGED moving

\* of a part that stands still one initial state is enough
ConnectionsInit ==
  /\ moving \in {"accept", "loop", "cycle", "reader", "location", "phases"}
  /\ Init /\ LoopInit
  /\ CycleInit
  /\ moving # "cycle" => running.conf = FirstConf
  /\ moving # "reader" => rconf = ShortRequests(3, FALSE, FALSE)
  /\ ReaderInit
  /\ moving # "phases" => site = SimpleSite
  /\ PhasesInit
  /\ moving # "phases" => visit.main /\ visit.uri = "/a"
  /\ moving # "location" => server = [locations |-> {}, regexes |-> <<>>]
  /\ LocationsInit

ConnectionsNext ==
  \/ Moves("accept") /\ Next /\ UNCHANGED <<loopVars, cycleVars, requestVars>>
  \/ Moves("loop") /\ LoopNext /\ UNCHANGED <<vars, cycleVars, requestVars>>
  \/ Moves("cycle") /\ CycleNext /\ UNCHANGED <<vars, loopVars, requestVars>>
  \/ Moves("reader") /\ ReaderNext /\ UNCHANGED <<vars, loopVars, cycleVars, locationVars, phaseVars>>
  \/ Moves("location") /\ LocationsNext /\ UNCHANGED <<vars, loopVars, cycleVars, readerVars, phaseVars>>
  \/ Moves("phases") /\ PhasesNext /\ UNCHANGED <<vars, loopVars, cycleVars, readerVars, locationVars>>

ConnectionsSpec == ConnectionsInit /\ [][ConnectionsNext]_connectionsVars
=============================================================================
