------------------------------- MODULE Resolver -------------------------------
(***************************************************************************)
(* The resolver (core/ngx_resolver.c) of one worker: nodes of names and    *)
(* addresses, contexts that wait on them, queries that are resent, answers *)
(* that come late, twice or never.  A handler is one action; what a        *)
(* context's owner does when it is called is to finish it, as              *)
(* ngx_http_upstream_resolve_handler() does.                               *)
(***************************************************************************)
EXTENDS Integers, Sequences, FiniteSets, SequencesExt, FiniteSetsExt

CONSTANTS
  Questions,     \* names and addresses
  Aliases,       \* the names that the CNAME of a question may give
  Contexts,      \* ngx_resolver_ctx_t that are in use at one time
  NoQuestion,
  MaxRecursion,  \* NGX_RESOLVER_MAX_RECURSION
  MaxQueries     \* bound: queries that are made

ASSUME ResolverAssumption ==
  /\ Aliases \in [Questions -> SUBSET Questions]
  /\ NoQuestion \notin Questions /\ "freed" \notin Questions \cup {NoQuestion}
  /\ {MaxRecursion, MaxQueries} \subseteq Nat

VARIABLES
  rnode,    \* ngx_resolver_node_t of each question: [has, valid, alias, id, waiting, queue]; has
            \* "none": not in the tree, "query": never answered
  rctx,     \* the contexts: [name, from: the node that owns its name, timer, recursion]; name
            \* NoQuestion: not in use; FreedName: its name was freed
  answers,  \* answers on their way: [of, id]
  asked,    \* queries made so far
  mishap    \* history: `astray', the contexts that a CNAME left behind the first one, or for whose
            \* alias no query could be sent; `left', those that were finished when their name was freed

resolverVars == <<rnode, rctx, answers, asked, mishap>>

FreedName == "freed"
NoRNode == [has |-> "none", valid |-> FALSE, alias |-> NoQuestion, id |-> 0, waiting |-> <<>>, queue |-> "none"]
NoCtx == [name |-> NoQuestion, from |-> NoQuestion, timer |-> FALSE, recursion |-> 0]

ResolverInit ==
  /\ rnode = [q \in Questions |-> NoRNode]
  /\ rctx = [c \in Contexts |-> NoCtx]
  /\ answers = {} /\ asked = 0
  /\ mishap = [astray |-> {}, left |-> {}]

Used(x) == {c \in Contexts : x[c].name # NoQuestion}
InUse(c) == c \in Used(rctx)

\* After a freed context was left on a list the program is not followed any further.
Defined == \A q \in Questions : \A i \in DOMAIN rnode[q].waiting : InUse(rnode[q].waiting[i])

\* the contexts cs are called, and finished by their owners
Called(x, cs) == [c \in Contexts |-> IF c \in cs THEN NoCtx ELSE x[c]]

\* the names that the nodes of `gone' own are freed
NameFreed(x, gone) == [c \in Contexts |-> IF x[c].from \in gone THEN [x[c] EXCEPT !.name = FreedName] ELSE x[c]]

\* the nodes of `gone' are freed
NodesFreed(n, gone) == [q \in Questions |-> IF q \in gone THEN NoRNode ELSE n[q]]

\* ngx_resolver_expire, at the end of ngx_resolve_name_done of the contexts `done': two nodes for
\* each whose time is over, the last ones of the queue; those of `new' were put there just now
ExpireSome(n, x, done, new) ==
  \E D \in SUBSET {q \in Questions \ new : n[q].queue = "expire"} :
    /\ Cardinality(D) <= 2 * Cardinality(done)
    /\ rnode' = NodesFreed(n, D) /\ rctx' = NameFreed(x, D)

-----------------------------------------------------------------------------
(* ngx_resolve_name_locked and ngx_resolve_addr *)

IsAlias(n, q) == n[q].has = "cname" /\ n[q].valid

\* the name that cached CNAMEs lead to in i steps
Lead(n, q) ==
  LET f[i \in 0..MaxRecursion] ==
        IF i = 0 THEN q ELSE IF IsAlias(n, f[i - 1]) THEN n[f[i - 1]].alias ELSE f[i - 1]
  IN f

\* how many steps a context takes
StepsFrom(n, q, left) ==
  LET f == Lead(n, q) IN Min({left} \cup {i \in 0..left : ~IsAlias(n, f[i])})

\* mutant: a node that others wait on is asked about again, and they are forgotten
JoinsNever(n, q) == FALSE

\* others wait already
Joins(n, q) == n[q].waiting # <<>>

\* The outcome for context c with the name q, given the nodes n and the contexts x: `tail' are
\* the contexts chained behind c, which all but a new query forget; ok says whether a query can
\* be sent.
Located(n, x, c, q, tail, ok) ==
  LET k    == StepsFrom(n, q, MaxRecursion - x[c].recursion)
      t    == Lead(n, q)[k]
      from == IF k = 0 THEN x[c].from ELSE Lead(n, q)[k - 1]
      cx   == [x[c] EXCEPT !.name = t, !.from = from, !.recursion = @ + k]
      nx   == [x EXCEPT ![c] = cx]
  IN
  IF n[t].has # "none" /\ n[t].valid                        \* addresses, or NXDOMAIN for a long chain
  THEN [n |-> n, x |-> Called(nx, {c}), asks |-> FALSE, to |-> t, failed |-> FALSE]
  ELSE IF Joins(n, t)
  THEN [n |-> [n EXCEPT ![t].waiting = <<c>> \o n[t].waiting], x |-> nx, asks |-> FALSE, to |-> t, failed |-> FALSE]
  ELSE IF ok
  THEN [n |-> [n EXCEPT ![t] = [NoRNode EXCEPT !.has = "query", !.id = asked + 1, !.waiting = <<c>> \o tail,
                                               !.queue = "resend"]],
        x |-> NameFreed([nx EXCEPT ![c].timer = TRUE], {t}), asks |-> TRUE, to |-> t, failed |-> FALSE]
  ELSE [n |-> NodesFreed(n, {t}), x |-> NameFreed(nx, {t}), asks |-> FALSE, to |-> t, failed |-> TRUE]

Sent(o) ==
  IF o.asks THEN asked' = asked + 1 /\ answers' = answers \cup {[of |-> o.to, id |-> asked + 1]}
            ELSE UNCHANGED <<asked, answers>>

\* ngx_resolve_name or ngx_resolve_addr: NGX_ERROR frees the context
Resolve(c, q, ok) ==
  /\ Defined /\ ~InUse(c) /\ (ok => asked < MaxQueries)
  /\ LET o == Located(rnode, [rctx EXCEPT ![c] = [NoCtx EXCEPT !.name = q]], c, q, <<>>, ok)
         x == IF o.failed THEN Called(o.x, {c}) ELSE o.x
     IN /\ ExpireSome(o.n, x, IF o.failed THEN {} ELSE {c} \ Used(x), {o.to})
        /\ Sent(o)
        /\ mishap' = [astray |-> mishap.astray \ {c}, left |-> mishap.left \ {c}]

-----------------------------------------------------------------------------
(* ngx_resolve_name_done *)

WithoutWaiter(w, c) == IF c \in ToSet(w) THEN RemoveAt(w, CHOOSE i \in DOMAIN w : w[i] = c) ELSE w

\* a context that still waits is taken off the list of the node of its name
Unlisted(c) ==
  [q \in Questions |-> IF q = rctx[c].name THEN [rnode[q] EXCEPT !.waiting = WithoutWaiter(@, c)] ELSE rnode[q]]

\* the owner gives up, or the timer of the context expires; a freed name leads to no list
Done(c) ==
  /\ Defined /\ InUse(c)
  /\ ExpireSome(Unlisted(c), Called(rctx, {c}), {c}, {})
  /\ mishap' = [mishap EXCEPT !.left = IF rctx[c].name = FreedName THEN @ \cup {c} ELSE @]
  /\ UNCHANGED <<answers, asked>>

-----------------------------------------------------------------------------
(* ngx_resolver_process_response, ngx_resolver_process_a, ngx_resolver_process_ptr *)

\* An answer stays on its way: it may come again, and then says the same.
Expected(a) == Defined /\ a \in answers /\ rnode[a.of].has # "none" /\ rnode[a.of].id = a.id

\* addresses or a name
AnswerOk(a) ==
  /\ Expected(a) /\ rnode[a.of].has # "cname"
  /\ ExpireSome([rnode EXCEPT ![a.of] = [rnode[a.of] EXCEPT !.has = "addr", !.valid = TRUE, !.waiting = <<>>,
                                                            !.queue = "expire"]],
                Called(rctx, ToSet(rnode[a.of].waiting)), ToSet(rnode[a.of].waiting), {a.of})
  /\ UNCHANGED <<answers, asked, mishap>>

\* an error
AnswerError(a) ==
  /\ Expected(a)
  /\ ExpireSome(NodesFreed(rnode, {a.of}),
                Called(NameFreed(rctx, {a.of}), ToSet(rnode[a.of].waiting)), ToSet(rnode[a.of].waiting), {})
  /\ UNCHANGED <<answers, asked, mishap>>

\* A CNAME only: the first context goes on with the alias, and those behind it are asked for in
\* its name, or not at all.
AnswerAlias(a, t, ok) ==
  /\ Expected(a) /\ rnode[a.of].has # "addr" /\ t \in Aliases[a.of] /\ (ok => asked < MaxQueries)
  /\ LET w == rnode[a.of].waiting
         n == [rnode EXCEPT ![a.of] = [rnode[a.of] EXCEPT !.has = "cname", !.alias = t, !.valid = TRUE,
                                                          !.waiting = <<>>, !.queue = "expire"]]
     IN IF w = <<>>
        THEN rnode' = n /\ UNCHANGED <<rctx, answers, asked, mishap>>
        ELSE LET o == Located(n, [rctx EXCEPT ![w[1]].from = a.of], w[1], t, Tail(w), ok)
             IN /\ ExpireSome(o.n, o.x, {w[1]} \ Used(o.x), {a.of, o.to})
                /\ Sent(o)
                /\ mishap' = [mishap EXCEPT !.astray = IF o.failed THEN @ \cup ToSet(w)
                                                       ELSE (@ \ {w[1]}) \cup ToSet(Tail(w))]

AskAgain(q) == rnode[q].waiting # <<>>

\* ngx_resolver_resend for a node whose time has come: a node that could not be sent ("unsent") is
\* in no queue
Resend(q, ok) ==
  /\ Defined /\ rnode[q].queue = "resend"
  /\ IF AskAgain(q)
     THEN rnode' = [rnode EXCEPT ![q].queue = IF ok THEN "resend" ELSE "unsent"] /\ UNCHANGED rctx
     ELSE rnode' = NodesFreed(rnode, {q}) /\ rctx' = NameFreed(rctx, {q})
  /\ UNCHANGED <<answers, asked, mishap>>

\* rn->valid < ngx_time()
Outdated(q) ==
  /\ Defined /\ rnode[q].valid
  /\ rnode' = [rnode EXCEPT ![q].valid = FALSE]
  /\ UNCHANGED <<rctx, answers, asked, mishap>>

\* a freed context is on a list
Undefined == ~Defined /\ UNCHANGED resolverVars

ResolverNext ==
  \/ Undefined
  \/ \E c \in Contexts : Done(c) \/ \E q \in Questions, ok \in BOOLEAN : Resolve(c, q, ok)
  \/ \E a \in answers : AnswerOk(a) \/ AnswerError(a) \/ \E t \in Questions, ok \in BOOLEAN : AnswerAlias(a, t, ok)
  \/ \E q \in Questions : Outdated(q) \/ \E ok \in BOOLEAN : Resend(q, ok)

ResolverSpec == ResolverInit /\ [][ResolverNext]_resolverVars

-----------------------------------------------------------------------------
(* Properties *)

WaitingFor(c) == {q \in Questions : c \in ToSet(rnode[q].waiting)}

\* A list of waiting contexts holds a freed one only if that one was finished after its name was
\* freed, or while it was astray: ngx_resolve_name_done() then looks for it where it is not.
NoFreedWaiter ==
  \A q \in Questions : \A i \in DOMAIN rnode[q].waiting :
    InUse(rnode[q].waiting[i]) \/ rnode[q].waiting[i] \in mishap.left \cup mishap.astray

\* Every context that was not called yet is on the list of the node of its own name, and on no
\* other, be the name its own, that of a CNAME it followed or one that was freed meanwhile, unless
\* it went astray: nobody waits where no answer will look.
WaitersListed ==
  \A c \in Contexts : InUse(c) /\ c \notin mishap.astray =>
    IF rctx[c].name = FreedName THEN Cardinality(WaitingFor(c)) = 1 ELSE WaitingFor(c) = {rctx[c].name}

\* A node with contexts waiting is resent until an answer comes, and a node with none is in the
\* queue that will free it: no node is lost, unless its own resend failed.
NodesQueued ==
  \A q \in Questions :
    /\ rnode[q].has = "none" <=> rnode[q].queue = "none"
    /\ rnode[q].waiting # <<>> => rnode[q].queue \in {"resend", "unsent"}

\* The books of the resolver: each context in use waits on the node that its answer will look at,
\* no list keeps a freed one, and every node is in the queue that will resend or free it.  The
\* exceptions are each for what it happened to: a context that a CNAME left behind another one or
\* for whose alias no query could be sent, a context finished after the node that owned its name
\* was freed, also when it was the only one, and a node whose resend failed.
WaitersExact == NoFreedWaiter /\ WaitersListed /\ NodesQueued

=============================================================================
