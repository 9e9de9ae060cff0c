-------------------------------- MODULE Phases --------------------------------
(* The phases of a request: the table that ngx_http_init_phase_handlers() of      *)
(* http/ngx_http.c makes of the handlers of the modules, the checkers of          *)
(* http/ngx_http_core_module.c that walk it, and the ways back: a URI that was    *)
(* rewritten, internal redirects, error pages and named locations.                *)
(*                                                                                *)
(* What a handler of a module returns is a choice.  A URI is the name of the      *)
(* location that it leads to.                                                     *)
EXTENDS Integers, Sequences, FiniteSets, SequencesExt

CONSTANTS
  Sites,    \* configurations: [handlers, locations]
  MaxUri    \* NGX_HTTP_MAX_URI_CHANGES, 10 in the code

HandlerPhases ==
  {"post_read", "server_rewrite", "rewrite", "preaccess", "access", "try_files", "content"}

\* try_files counts as a handler where it is used; the static module always has one for content
ASSUME PhasesAssumption ==
  /\ MaxUri \in 1..14
  /\ \A s \in Sites :
       /\ \A phase \in HandlerPhases : s.handlers[phase] \in Nat
       /\ s.handlers["content"] > 0
       /\ "server" \in DOMAIN s.locations
       /\ \A l \in DOMAIN s.locations : LET conf == s.locations[l] IN
            /\ conf.satisfy \in {"all", "any"} /\ conf.handler \in BOOLEAN /\ conf.recursive \in BOOLEAN
            /\ conf.on # {} => conf.page \in DOMAIN s.locations
            /\ conf.try \in DOMAIN s.locations \cup {"404", "none"}

VARIABLES
  site,     \* the configuration
  engine,   \* cmcf->phase_engine: a sequence of [checker, next]
  visit     \* the request

phaseVars == <<site, engine, visit>>

Server == "server"
Named == "@"
Nothing == "none"
Targets == DOMAIN site.locations \ {Named}   \* one that leads to no location stays with the server

----------------------------------------------------------------------------
(* The table.                                                                     *)

Positions(table, phase) == {i \in DOMAIN table : table[i].phase = phase}
First(table, phase) == CHOOSE i \in Positions(table, phase) : \A j \in Positions(table, phase) : i <= j

\* after the handlers of a phase; those of the access phase are followed by the check of what
\* they left
Behind(table, phase, handlers) ==
  Len(table) + handlers[phase] + 1 + IF phase = "access" THEN 1 ELSE 0

WithPhase(table, phase, handlers) ==
  CASE phase = "find_config" -> Append(table, [phase |-> phase, next |-> 0])
    [] phase = "post_rewrite" ->
         IF handlers["rewrite"] = 0 THEN table
         ELSE Append(table, [phase |-> phase, next |-> First(table, "find_config")])
    [] phase = "post_access" ->
         IF handlers["access"] = 0 THEN table ELSE Append(table, [phase |-> phase, next |-> 0])
    [] phase = "try_files" ->
         IF handlers[phase] = 0 THEN table ELSE Append(table, [phase |-> phase, next |-> 0])
    [] OTHER ->
         table \o [i \in 1..handlers[phase] |-> [phase |-> phase, next |-> Behind(table, phase, handlers)]]

WithPhases(table, first, second, handlers) == WithPhase(WithPhase(table, first, handlers), second, handlers)

\* one phase after the other, in the order of ngx_http_phases
ToServerRewrite(handlers) == WithPhase(<<>>, "post_read", handlers)
ToRewrite(handlers) == WithPhases(ToServerRewrite(handlers), "server_rewrite", "find_config", handlers)
ToPreaccess(handlers) == WithPhases(ToRewrite(handlers), "rewrite", "post_rewrite", handlers)
ToPostAccess(handlers) == WithPhases(ToPreaccess(handlers), "preaccess", "access", handlers)
ToContent(handlers) == WithPhases(ToPostAccess(handlers), "post_access", "try_files", handlers)
Engine(handlers) == WithPhase(ToContent(handlers), "content", handlers)

\* where the handlers of these phases begin, or would
ServerRewriteIndex == Len(ToServerRewrite(site.handlers)) + 1
LocationRewriteIndex == Len(ToRewrite(site.handlers)) + 1

----------------------------------------------------------------------------
(* The request.  at: r->phase_handler; loc: r->loc_conf; content: the location of *)
(* r->content_handler; left: r->uri_changes.  History: verdicts, what the access  *)
(* handlers said since the location was entered; stale, access_code was set when  *)
(* another location was entered; visits, locations entered; by, who answered.     *)

PhasesInit ==
  /\ site \in Sites
  /\ engine = Engine(site.handlers)
  /\ \E main \in BOOLEAN, uri \in Targets :
       visit = [state |-> "runs", at |-> IF main THEN 1 ELSE ServerRewriteIndex,
                loc |-> Server, uri |-> uri, main |-> main, internal |-> ~main,
                left |-> MaxUri + 1, changed |-> FALSE, access |-> Nothing, content |-> Nothing,
                errored |-> FALSE, by |-> Nothing, verdicts |-> <<>>, stale |-> FALSE, visits |-> 0]

LocConf(r) == site.locations[r.loc]
At(phase) == visit.state = "runs" /\ engine[visit.at].phase = phase

\* the location the request is in now
Entered(r, loc) ==
  [r EXCEPT !.loc = loc, !.verdicts = <<>>, !.visits = @ + 1, !.stale = r.access # Nothing]
\* ngx_http_update_location_config(): the handler of a location replaces the last one
Updated(r) == IF LocConf(r).handler THEN [r EXCEPT !.content = r.loc] ELSE r

Ended(r, code) == [r EXCEPT !.state = code]

\* one more change of the URI, a field of four bits
Counted(r) == [r EXCEPT !.left = (@ - 1) % 16]

\* ngx_http_internal_redirect() and ngx_http_named_location(); the error of a cycle finds no
\* changes left for an error page
InternalRedirect(r, uri) ==
  IF r.left = 1 THEN Ended(Counted(r), "500")
  ELSE [Updated([Counted(r) EXCEPT !.loc = Server, !.uri = uri])
          EXCEPT !.internal = TRUE, !.at = ServerRewriteIndex, !.by = Nothing]
NamedLocation(r) ==
  IF r.left = 1 THEN Ended(Counted(r), "500")
  ELSE [Updated(Entered([Counted(r) EXCEPT !.content = Nothing], Named))
          EXCEPT !.internal = TRUE, !.at = LocationRewriteIndex, !.by = Nothing]
Sent(r, target) == IF target = Named THEN NamedLocation(r) ELSE InternalRedirect(r, target)

\* ngx_http_special_response_handler()
HasErrorPages(r) == ~r.errored /\ LocConf(r).on # {} /\ r.left # 0
Errored(r) == [r EXCEPT !.errored = ~LocConf(r).recursive]
Finalized(r, code) ==
  IF ~HasErrorPages(r) THEN Ended(r, code)
  ELSE IF code \in LocConf(r).on THEN Sent(Errored(r), LocConf(r).page)
  ELSE Ended(Errored(r), code)

Passes(r) == [r EXCEPT !.at = @ + 1]
Skips(r) == [r EXCEPT !.at = engine[r.at].next]
Becomes(r) == visit' = r /\ UNCHANGED <<site, engine>>

----------------------------------------------------------------------------
(* The checkers, one iteration of ngx_http_core_run_phases() each.                *)

GenericPhase ==
  /\ At("post_read") \/ At("preaccess")
  /\ \/ Becomes(Skips(visit))
     \/ Becomes(Passes(visit))
     \/ Becomes([visit EXCEPT !.state = "waits"])
     \/ Becomes(Finalized(visit, "500"))

\* a request that was delayed goes on behind the handler that delayed it, which then declines
Resume ==
  /\ visit.state = "waits"
  /\ Becomes([Passes(visit) EXCEPT !.state = "runs"])

\* what the rewrite module leaves: a new URI or not
Rewritten(r) ==
  {r} \cup UNION {{[r EXCEPT !.uri = uri, !.internal = TRUE, !.changed = c] : uri \in Targets} : c \in BOOLEAN}
RewritePhase ==
  /\ At("server_rewrite") \/ At("rewrite")
  /\ \/ /\ At("rewrite") /\ visit.loc = Server /\ visit.at = LocationRewriteIndex
        /\ Becomes(Passes(visit))
     \/ /\ ~(At("rewrite") /\ visit.loc = Server /\ visit.at = LocationRewriteIndex)
        /\ \E r \in Rewritten(visit) : Becomes(Passes(r)) \/ Becomes(Finalized(r, "403"))

\* MUTANT: the handler of the last location stays
ClearedUri(r) == [r EXCEPT !.changed = FALSE]
Cleared(r) == [r EXCEPT !.content = Nothing, !.changed = FALSE]
FindConfigPhase ==
  /\ At("find_config")
  /\ \E r \in {Entered(Cleared(visit), visit.uri)} :
       \/ /\ ~r.internal /\ LocConf(r).internal
          /\ Becomes(Finalized(r, "404"))
       \/ /\ r.internal \/ ~LocConf(r).internal
          /\ \/ Becomes(Passes(Updated(r)))
             \/ \* the body is too large, or the name of the location lacks its slash
                \E code \in {"413", "301"} : Becomes(Finalized(Updated(r), code))

PostRewritePhase ==
  /\ At("post_rewrite")
  /\ \/ ~visit.changed /\ Becomes(Passes(visit))
     \/ /\ visit.changed /\ visit.left = 1
        /\ Becomes(Finalized(Counted(visit), "500"))
     \/ /\ visit.changed /\ visit.left # 1
        /\ Becomes([Skips(Counted(visit)) EXCEPT !.loc = Server])

\* an access handler: allowed, denied, not concerned, or unable to tell
Heard(r, verdict) == [r EXCEPT !.verdicts = Append(@, verdict)]
Allowed(r) == IF LocConf(r).satisfy = "all" THEN Passes(r) ELSE Skips([r EXCEPT !.access = Nothing])
Denied(r) == IF LocConf(r).satisfy = "all" THEN Finalized(r, "403") ELSE Passes([r EXCEPT !.access = "403"])
AccessPhase ==
  /\ At("access")
  /\ \/ ~visit.main /\ Becomes(Skips(visit))
     \/ /\ visit.main
        /\ \/ Becomes(Passes(Heard(visit, "declined")))
           \/ Becomes(Allowed(Heard(visit, "ok")))
           \/ Becomes(Denied(Heard(visit, "403")))
           \/ Becomes(Finalized(Heard(visit, "500"), "500"))

PostAccessPhase ==
  /\ At("post_access")
  /\ \/ visit.access = Nothing /\ Becomes(Passes(visit))
     \/ /\ visit.access # Nothing
        /\ Becomes(Finalized([visit EXCEPT !.access = Nothing, !.by = "post_access"], "403"))

\* a file that is found becomes the URI, in the same location
TryFilesPhase ==
  /\ At("try_files")
  /\ \/ Becomes(Passes(visit))
     \/ /\ LocConf(visit).try = "404"
        /\ Becomes(Finalized(visit, "404"))
     \/ /\ LocConf(visit).try \notin {"404", Nothing}
        /\ Becomes(Sent(visit, LocConf(visit).try))

ServedBy(r) == [r EXCEPT !.state = "served", !.by = IF r.content = Nothing THEN r.loc ELSE r.content]
ContentPhase ==
  /\ At("content")
  /\ \/ Becomes(ServedBy(visit))
     \/ \E code \in {"403", "500"} : Becomes(Finalized(visit, code))
     \/ \* a content handler declines: the modules of the phase are next
        /\ visit.content # Nothing
        /\ Becomes([visit EXCEPT !.content = Nothing])
     \/ \* a module of the phase declines, or finds an index
        /\ visit.content = Nothing
        /\ \/ visit.at < Len(engine) /\ Becomes(Passes(visit))
           \/ visit.at = Len(engine) /\ Becomes(Finalized(visit, "404"))
           \/ \E uri \in Targets : Becomes(InternalRedirect(visit, uri))

PhasesNext ==
  \/ GenericPhase \/ Resume \/ RewritePhase \/ FindConfigPhase \/ PostRewritePhase
  \/ AccessPhase \/ PostAccessPhase \/ TryFilesPhase \/ ContentPhase

----------------------------------------------------------------------------
(* What the configuration promises.                                               *)

Verdicts(r) == ToSet(r.verdicts)
Heeded(r) == Len(r.verdicts) = site.handlers["access"]   \* every access handler was asked
Granted(r) ==
  \/ Heeded(r) /\ Verdicts(r) \subseteq (IF LocConf(r).satisfy = "all" THEN {"ok", "declined"} ELSE {"declined"})
  \/ LocConf(r).satisfy = "any" /\ "ok" \in Verdicts(r)

\* Whatever rewrites, redirects and error pages led there (ngx_http_core_run_phases()), a
\* location answers a request only after its own access handlers were asked and let it pass,
\* all of them or any of them as "satisfy" says, unless it is a subrequest; it answers with
\* its own content handler, and an internal location only a request that was redirected.
\* A request that ngx_http_core_post_access_phase() refuses was refused in this location,
\* or access_code is left from a location that failed between its access handlers.
\* No request enters more locations than uri_changes allows, and the count never wraps.
PhasesKept ==
  /\ visit.state = "served" =>
       /\ visit.main => Granted(visit)
       /\ visit.by = visit.loc
       /\ LocConf(visit).internal => visit.internal
  /\ visit.state = "403" /\ visit.by = "post_access" => "403" \in Verdicts(visit) \/ visit.stale
  /\ visit.left <= MaxUri + 1
  /\ visit.visits <= MaxUri + 1

PhasesSpec == PhasesInit /\ [][PhasesNext]_phaseVars
=============================================================================
