------------------------------ MODULE Locations ------------------------------
(* The search for the location of a request: ngx_http_init_static_location_trees *)
(* and its helpers in http/ngx_http.c build the tree of a server's locations,    *)
(* ngx_http_core_find_location() of http/ngx_http_core_module.c walks it.        *)
(*                                                                               *)
(* A name is a sequence of characters, a character the number of its place in    *)
(* the order of bytes.  A location is a record [name, exact, auto, noregex, sub] *)
(* where sub are the locations inside it.                                        *)
EXTENDS Integers, Sequences, FiniteSets, SequencesExt

CONSTANTS
  LocationSets,  \* the sets of locations a server may have
  RegexLists,    \* the lists of regex locations: each [matches, sub]
  Uris,          \* the URIs of requests
  Slash          \* the character "/"

VARIABLES
  server,    \* [locations, regexes]
  tree,      \* pclcf->static_locations
  found      \* what the last search left in r->loc_conf, with its result

locationVars == <<server, tree, found>>

Null == [kind |-> "null"]
Nowhere == [rc |-> "none", loc |-> Null, uri |-> <<>>]

\* strcmp() < 0
Precedes(a, b) ==
  \/ Len(a) < Len(b) /\ IsPrefix(a, b)
  \/ \E i \in DOMAIN a \cap DOMAIN b :
       a[i] < b[i] /\ \A j \in 1..(i - 1) : a[j] = b[j]

----------------------------------------------------------------------------
(* Building the tree.                                                            *)

\* a configuration with two exact, or two inclusive, locations of one name is refused
Duplicates(locations) ==
  \E l, m \in locations : l # m /\ l.name = m.name /\ l.exact = m.exact

TheOne(set) == IF set = {} THEN Null ELSE CHOOSE l \in set : TRUE

\* ngx_queue_sort() and ngx_http_join_exact_locations(): one entry per name, in order
ListEntry(locations, name) ==
  [name |-> name,
   exact |-> TheOne({l \in locations : l.name = name /\ l.exact}),
   inclusive |-> TheOne({l \in locations : l.name = name /\ ~l.exact})]
Joined(locations) ==
  SetToSortSeq({ListEntry(locations, n) : n \in {l.name : l \in locations}},
               LAMBDA a, b : Precedes(a.name, b.name))

\* how many entries of the list follow the first and begin with its name
Followers(entries) ==
  CHOOSE n \in 0..(Len(entries) - 1) :
    /\ \A i \in 2..(n + 1) : IsPrefix(entries[1].name, entries[i].name)
    /\ n + 2 <= Len(entries) => ~IsPrefix(entries[1].name, entries[n + 2].name)

\* ngx_http_create_locations_list(): the entries that begin with the name of an
\* inclusive one go to its own list
RECURSIVE CreateList(_)
Owned(entries) == IF entries[1].inclusive = Null THEN 0 ELSE Followers(entries)
CreateList(entries) ==
  IF entries = <<>> THEN <<>>
  ELSE <<[entry |-> entries[1], list |-> CreateList(SubSeq(entries, 2, Owned(entries) + 1))]>>
         \o CreateList(SubSeq(entries, Owned(entries) + 2, Len(entries)))

\* ngx_queue_middle()
Middle(list) == Len(list) \div 2 + 1

\* ngx_http_create_locations_tree(): a binary tree of each list, the names without
\* the prefix that the way to the list has compared
AutoRedirect(entry) ==
  \E l \in {entry.exact, entry.inclusive} \ {Null} : l.auto
RECURSIVE CreateTree(_, _)
Node(list, item, prefix, m) ==
  [kind |-> "node",
   name |-> SubSeq(item.entry.name, prefix + 1, Len(item.entry.name)),
   exact |-> item.entry.exact, inclusive |-> item.entry.inclusive,
   auto |-> AutoRedirect(item.entry),
   left |-> CreateTree(SubSeq(list, 1, m - 1), prefix),
   right |-> CreateTree(SubSeq(list, m + 1, Len(list)), prefix),
   tree |-> CreateTree(item.list, Len(item.entry.name))]
CreateTree(list, prefix) ==
  IF list = <<>> THEN Null ELSE Node(list, list[Middle(list)], prefix, Middle(list))

StaticTree(locations) == CreateTree(CreateList(Joined(locations)), 0)

----------------------------------------------------------------------------
(* Walking it.                                                                   *)

Result(rc, loc) == [rc |-> rc, loc |-> loc]

\* the first n characters agree
Agrees(uri, name, n) == \A i \in 1..n : uri[i] = name[i]
Shorter(uri, name) == IF Len(uri) <= Len(name) THEN Len(uri) ELSE Len(name)

\* a URI that needs only a slash to be the name of a location with auto_redirect
Redirected(node, uri, so_far) ==
  IF Len(uri) + 1 = Len(node.name) /\ node.auto
  THEN Result("done", IF node.exact # Null THEN node.exact ELSE node.inclusive)
  ELSE so_far

\* the branch when the URI is shorter than the name it begins
\* MUTANT: the names that are greater
AfterShorterRight(node) == node.right
AfterShorter(node) == node.left

\* ngx_http_core_find_static_location()
RECURSIVE FindStatic(_, _, _)
FindStatic(node, uri, so_far) ==
  CASE node = Null -> so_far
    [] node # Null /\ ~Agrees(uri, node.name, Shorter(uri, node.name)) ->
         FindStatic(IF Precedes(SubSeq(uri, 1, Shorter(uri, node.name)), node.name)
                    THEN node.left ELSE node.right, uri, so_far)
    [] node # Null /\ Agrees(uri, node.name, Shorter(uri, node.name)) ->
         IF Len(uri) > Len(node.name)
         THEN IF node.inclusive # Null
              THEN FindStatic(node.tree, SubSeq(uri, Len(node.name) + 1, Len(uri)),
                              Result("again", node.inclusive))
              ELSE FindStatic(node.right, uri, so_far)
         ELSE IF Len(uri) = Len(node.name)
         THEN IF node.exact # Null THEN Result("ok", node.exact)
              ELSE Result("again", node.inclusive)
         ELSE FindStatic(AfterShorter(node), uri, Redirected(node, uri, so_far))

\* the first regex that matches, as a set of at most one index
FirstRegex(regexes, uri) ==
  {i \in DOMAIN regexes : uri \in regexes[i].matches
     /\ \A j \in 1..(i - 1) : uri \notin regexes[j].matches}

\* ngx_http_core_find_location(): the static locations, inside the one that was found
\* its own, and then the regular expressions, unless the search ended before.  "again"
\* and "declined" are alike to the caller, which looks at r->loc_conf only.
Kept(outer, inner) == IF inner.loc = Null THEN Result("declined", outer.loc) ELSE inner
RECURSIVE FindLocation(_, _, _, _)
Nested(static, uri) ==
  IF static.rc # "again" THEN static
  ELSE Kept(static, FindLocation(StaticTree(static.loc.sub), <<>>, uri, Null))
TriesRegex(static) == static.rc = "again" => ~static.loc.noregex
WithRegex(static, nested, regexes, uri) ==
  IF nested.rc \in {"ok", "done"} \/ ~TriesRegex(static) THEN nested
  ELSE LET matching == FirstRegex(regexes, uri) IN
       IF matching = {} THEN nested
       ELSE Result("ok", regexes[CHOOSE i \in matching : TRUE])
FindLocation(static_locations, regexes, uri, loc) ==
  WithRegex(FindStatic(static_locations, uri, Result("declined", loc)),
            Nested(FindStatic(static_locations, uri, Result("declined", loc)), uri),
            regexes, uri)

----------------------------------------------------------------------------

LocationsInit ==
  /\ \E locations \in LocationSets, regexes \in RegexLists :
       server = [locations |-> locations, regexes |-> regexes]
  /\ ~Duplicates(server.locations)
  /\ tree = StaticTree(server.locations)
  /\ found = Nowhere

\* a request asks for a URI
Find(uri) ==
  /\ found = Nowhere
  /\ \E result \in {FindLocation(tree, server.regexes, uri, Null)} :
       found' = [rc |-> result.rc, loc |-> result.loc, uri |-> uri]
  /\ UNCHANGED <<server, tree>>

LocationsNext == \E uri \in Uris : Find(uri)

----------------------------------------------------------------------------
(* What the configuration means.                                                 *)

Exact(locations, uri) == {l \in locations : l.exact /\ l.name = uri}
PrefixesOf(locations, uri) == {l \in locations : ~l.exact /\ IsPrefix(l.name, uri)}
Longest(set) == {l \in set : \A m \in set : Len(m.name) <= Len(l.name)}
Slashed(locations, uri) ==
  {l \in locations : /\ l.name = uri \o <<Slash>>
                     /\ \E m \in locations : m.name = l.name /\ m.auto}

\* some location continues the URI with a character below the slash
Hidden(locations, uri) ==
  \E l \in locations : /\ Len(l.name) > Len(uri) /\ IsPrefix(uri, l.name)
                       /\ l.name[Len(uri) + 1] < Slash

\* what a set of locations gives for a URI, without trees: <<rc, locations>>
Static(locations, uri) ==
  IF Exact(locations, uri) # {} THEN <<"ok", Exact(locations, uri)>>
  ELSE IF \E l \in PrefixesOf(locations, uri) : l.name = uri
  THEN <<"again", Longest(PrefixesOf(locations, uri))>>
  ELSE IF Slashed(locations, uri) # {} THEN <<"done", Slashed(locations, uri)>>
  ELSE IF PrefixesOf(locations, uri) # {} THEN <<"again", Longest(PrefixesOf(locations, uri))>>
  ELSE <<"declined", {Null}>>

\* the location, or the locations, that may serve the URI
Meant(uri) ==
  LET outer == Static(server.locations, uri)
      inner == IF outer[1] # "again" THEN <<"declined", {Null}>>
               ELSE Static((CHOOSE l \in outer[2] : TRUE).sub, uri)
      noregex == outer[1] = "again" /\ (CHOOSE l \in outer[2] : TRUE).noregex
      matching == FirstRegex(server.regexes, uri)
  IN CASE outer[1] \in {"ok", "done"} -> outer[2]
       [] outer[1] \in {"again", "declined"} /\ inner[1] \in {"ok", "done"} -> inner[2]
       [] outer[1] \in {"again", "declined"} /\ inner[1] \in {"again", "declined"} ->
            IF ~noregex /\ matching # {} THEN {server.regexes[i] : i \in matching}
            ELSE IF inner[1] = "again" THEN inner[2]
            ELSE outer[2]

\* The tree of locations, whatever its shape, finds what the configuration says: the
\* location that is exactly the URI, else a redirect to the location that the URI names
\* without its slash, else the longest prefix, the ones nested in it before it, and
\* regular expressions before both unless they are switched off.  The redirect alone may
\* be missed, when the name of another location goes on with a character below "/":
\* ngx_http_core_find_static_location() goes left, where smaller names are, and the
\* slash is to the right.
LocationFound ==
  found # Nowhere =>
    \/ found.loc \in Meant(found.uri)
    \/ Slashed(server.locations, found.uri) # {} /\ Hidden(server.locations, found.uri)
=============================================================================
