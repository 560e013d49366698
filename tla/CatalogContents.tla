--------------------------- MODULE CatalogContents ---------------------------
(***************************************************************************)
(* What one compile makes of the features of the components, and what a    *)
(* catalog answers (catalog/compiler.go, catalog.go, pagination.go,        *)
(* routes.go, rewrite.go, namespace/ and request_catalog.go). Everything   *)
(* here is a function of its arguments; CatalogCompiler adds the steps.    *)
(*                                                                         *)
(* Names, URIs and templates are sequences of tokens. A token stands for a *)
(* run of characters, except Underscore, which is one "_": how prefixes    *)
(* and local names join, and where two joins meet, depends on it. A URI is *)
(* a scheme and a path; a template is a URI without its last token, its    *)
(* one variable, so templates that differ only in a variable's name are    *)
(* one. Descriptions, schemas and protocol versions are the definition     *)
(* (def) of an item.                                                       *)
(***************************************************************************)
EXTENDS Naturals, FiniteSets, SequencesExt

CONSTANTS
    Underscore,      \* the token of "_"
    Forbidden,       \* a token no name, prefix or scheme may have
    Wrapper,         \* the token of "mmmcp+"
    Colon,           \* the token of ":"
    MaxNameLength,   \* maxFeatureNameLength
    AuthTool,        \* AuthorizationToolName
    SearchToolName, CallToolName,   \* the two tools of a catalog with tool search
    Nil              \* Go's nil

Families == {"tools", "prompts", "resources", "resourceTemplates"}
Named == {"tools", "prompts"}      \* families with names; the others have URIs

Texts == Seq(Nat)

\* What a component may have, configure and be: Nil is an item that it lists and
\* that is not there.
Items == [id : Texts, def : Nat]
FeatureRecords == [Families -> Seq(Items \cup {Nil})]
Methods == {"", "tools", "prompts", "resources"}
OverrideRecords == [item : Texts, as : Texts, enabled : BOOLEAN]
ServerRecords ==
    [name : STRING, prefix : Texts, label : Texts, method : Methods,
     disableTools : BOOLEAN, overrides : [Families -> Seq(OverrideRecords)]]
ConfigRecords ==
    [servers : Seq(ServerRecords), scoped : BOOLEAN, defer : BOOLEAN, search : BOOLEAN]
RouteRecords ==
    [family : Families, exposed : Texts, component : STRING,
     prefix : Texts, original : Texts, def : Nat]
CatalogRecords ==
    [pending : Seq(STRING), search : BOOLEAN, routes : SUBSET RouteRecords]

ASSUME TokenAssumption ==
    /\ {Underscore, Forbidden, Wrapper, Colon, MaxNameLength} \subseteq Nat
    /\ {AuthTool, SearchToolName, CallToolName} \subseteq Texts
    /\ SearchToolName # CallToolName

-----------------------------------------------------------------------------
(* Order *)

\* The elements of a finite set in the order of a relation: each comes after
\* as many as precede it.
InOrder(S, precedes) ==
    [k \in 1 .. Cardinality(S) |->
        CHOOSE x \in S : Cardinality({y \in S : <<y, x>> \in precedes}) = k - 1]

\* The elements of a sequence at some positions.
Select(s, positions) ==
    LET at == InOrder(positions, {p \in positions \X positions : p[1] < p[2]})
    IN  [k \in DOMAIN at |-> s[at[k]]]

-----------------------------------------------------------------------------
(* Names *)

ValidPart(value) == value # <<>> /\ Forbidden \notin ToSet(value)

\* The configured prefix, or the sanitized component name.
Prefix(server) == IF server.prefix # <<>> THEN server.prefix ELSE server.label

\* The prefix each server of a configuration gets; none if there is no need.
PrefixIn(cfg, server) ==
    IF Len(cfg.servers) <= 1 /\ server.prefix = <<>> THEN <<>> ELSE Prefix(server)

Join(prefix, local) ==
    CASE prefix = <<>>              -> local
      [] Last(prefix) = Underscore  -> prefix \o local
      [] OTHER                      -> prefix \o <<Underscore, Underscore>> \o local

Wrap(prefix, uri) ==
    IF prefix = <<>> THEN uri ELSE <<Wrapper>> \o prefix \o <<Colon>> \o uri

Identity(family, prefix, local) ==
    IF family \in Named THEN Join(prefix, local) ELSE Wrap(prefix, local)

Nameable(family, prefix, local) ==
    /\ prefix = <<>> \/ ValidPart(prefix)
    /\ IF family \in Named
       THEN ValidPart(local) /\ Len(Join(prefix, local)) <= MaxNameLength
       ELSE local # <<>> /\ Head(local) # Forbidden

-----------------------------------------------------------------------------
(* One component *)

\* What Discover lists of a component's features under its discovery method.
Listed(server, features) ==
    [f \in Families |->
        IF \/ server.method \notin {"", f}
              /\ ~(server.method = "resources" /\ f = "resourceTemplates")
           \/ f = "tools" /\ server.disableTools
        THEN <<>> ELSE features[f]]

\* Faulty variant: what was not discovered has no mapping.
NoMappings(server, f) == <<>>

\* Enabled overrides stand in for resources that were not to be discovered.
Mappings(server, f) ==
    LET overrides == server.overrides[f]
        enabled   == Select(overrides, {i \in DOMAIN overrides : overrides[i].enabled})
    IN  [i \in DOMAIN enabled |-> [id |-> enabled[i].item, def |-> 0]]

Discovered(server, features, f) ==
    IF f \notin Named /\ server.method \notin {"", "resources"}
    THEN features[f] \o Mappings(server, f)
    ELSE features[f]

OverridesOf(server, f, id) == {o \in ToSet(server.overrides[f]) : o.item = id}

\* Tool overrides select; the others only hide what they disable.
Hidden(server, f, id) ==
    IF f = "tools"
    THEN server.overrides[f] # <<>> /\ \A o \in OverridesOf(server, f, id) : ~o.enabled
    ELSE \E o \in OverridesOf(server, f, id) : ~o.enabled

Local(server, f, id) ==
    LET renamed == {o \in OverridesOf(server, f, id) : o.as # <<>>}
    IN  IF renamed = {} THEN id ELSE (CHOOSE o \in renamed : TRUE).as

Compiles(server, f) == ~(f = "tools" /\ server.disableTools)

\* The routes of one component: what is exposed, and where it leads.
Routes(server, prefix, features) ==
    UNION {{[family    |-> f,
             exposed   |-> Identity(f, prefix, Local(server, f, item.id)),
             component |-> server.name,
             prefix    |-> prefix,
             original  |-> item.id,
             def       |-> item.def] :
                item \in {i \in ToSet(Discovered(server, features, f)) :
                            ~Hidden(server, f, i.id)}} :
           f \in {g \in Families : Compiles(server, g)}}

Clash(routes) == \E r, s \in routes :
    r # s /\ r.family = s.family /\ r.exposed = s.exposed

\* validateComponent fails.
Invalid(server, prefix, features) ==
    \E f \in {g \in Families : Compiles(server, g)} :
        LET items == Discovered(server, features, f)
            overrides == server.overrides[f]
        IN  \/ \E i, j \in DOMAIN overrides :
                  i # j /\ overrides[i].item = overrides[j].item
            \/ Nil \in ToSet(items)
            \/ \E i, j \in DOMAIN items : i # j /\ items[i].id = items[j].id
            \/ \E i \in DOMAIN items :
                  /\ ~Hidden(server, f, items[i].id)
                  /\ ~Nameable(f, prefix, Local(server, f, items[i].id))
            \/ Clash({r \in Routes(server, prefix, features) : r.family = f})

-----------------------------------------------------------------------------
(* The catalog *)

NoFeatures == [f \in Families |-> <<>>]

\* features[i] is what server i of cfg was found to have; pending are the
\* positions of servers that asked for authorization.
Merged(cfg, features) ==
    UNION {Routes(cfg.servers[i], PrefixIn(cfg, cfg.servers[i]), features[i]) :
           i \in DOMAIN cfg.servers}

Refused(cfg, features) ==
    LET routes == Merged(cfg, features)
    IN  \/ Clash(routes)
        \/ cfg.defer /\ \E r \in routes : r.family = "tools" /\ r.exposed = AuthTool

\* Names in the order of the configuration.
NamesAt(cfg, positions) ==
    LET found == Select(cfg.servers, positions)
    IN  [i \in DOMAIN found |-> found[i].name]

\* Components that are ready stay hidden until every one is authorized.
Catalog(cfg, features, pending) ==
    IF pending = {}
    THEN [pending |-> <<>>, search |-> cfg.search, routes |-> Merged(cfg, features)]
    ELSE [pending |-> NamesAt(cfg, pending), search |-> FALSE, routes |-> {}]

Precedes(a, b) ==
    \/ IsStrictPrefix(a, b)
    \/ \E i \in DOMAIN a \cap DOMAIN b :
           a[i] < b[i] /\ \A j \in 1..(i - 1) : a[j] = b[j]

\* What a catalog has of a family; and what it shows, sorted: with tool search,
\* the two tools that find and call the others.
Exposed(catalog, f) ==
    {[name |-> r.exposed, def |-> r.def] : r \in {s \in catalog.routes : s.family = f}}
SearchTools == {[name |-> tool, def |-> 0] : tool \in {SearchToolName, CallToolName}}

Listing(catalog, f) ==
    IF catalog.pending # <<>>
    THEN IF f = "tools" THEN <<[name |-> AuthTool, def |-> 0]>> ELSE <<>>
    ELSE LET shown == IF f = "tools" /\ catalog.search THEN SearchTools
                      ELSE Exposed(catalog, f)
         IN  InOrder(shown, {p \in shown \X shown : Precedes(p[1].name, p[2].name)})

\* The id is a digest of what the catalog shows, and of the tools it has.
IdOf(catalog) ==
    [search |-> catalog.search, tools |-> Exposed(catalog, "tools"),
     shown |-> [f \in Families |-> Listing(catalog, f)]]

RouteNamed(catalog, f, name) ==
    {r \in catalog.routes : r.family = f /\ r.exposed = name}

-----------------------------------------------------------------------------
(* Pages *)

NoCursor == [id |-> Nil, family |-> "none", after |-> <<>>]
Expired == [items |-> <<>>, next |-> NoCursor, expired |-> TRUE]

\* Faulty variant: a cursor is good in whatever catalog is current.
FitsAnyCatalog(catalog, f, cursor) == cursor.family = f

\* A cursor is good for the catalog and the family that issued it.
Fits(catalog, f, cursor) == cursor.id = IdOf(catalog) /\ cursor.family = f

\* One page, and the cursor of the next; or the refusal of the cursor.
Page(catalog, f, cursor, size) ==
    LET all   == Listing(catalog, f)
        at    == {i \in DOMAIN all : all[i].name = cursor.after}
        start == IF cursor = NoCursor THEN 0 ELSE CHOOSE i \in at : TRUE
        end   == IF size = 0 \/ start + size > Len(all) THEN Len(all) ELSE start + size
    IN  IF cursor # NoCursor /\ (at = {} \/ ~Fits(catalog, f, cursor))
        THEN Expired
        ELSE [items   |-> SubSeq(all, start + 1, end),
              next    |-> IF end < Len(all)
                          THEN [id |-> IdOf(catalog), family |-> f, after |-> all[end].name]
                          ELSE NoCursor,
              expired |-> FALSE]

-----------------------------------------------------------------------------
(* Resource links *)

Matches(template, uri) == uri # <<>> /\ Front(uri) = template
Expand(template, uri) == Append(template, Last(uri))

\* RouteResource: exact resources first, then templates.
RouteResource(catalog, uri) ==
    LET exact    == RouteNamed(catalog, "resources", uri)
        template == {r \in catalog.routes :
                        r.family = "resourceTemplates" /\ Matches(r.exposed, uri)}
    IN  IF exact # {} THEN {[component |-> r.component, uri |-> r.original] : r \in exact}
        ELSE {[component |-> r.component, uri |-> Expand(r.original, uri)] : r \in template}

\* toCompositeURI may return any of these: it ranges over a Go map.
CompositeURI(catalog, prefix, uri) ==
    LET own      == {r \in catalog.routes : r.prefix = prefix}
        exact    == {r \in own : r.family = "resources" /\ r.original = uri}
        template == {r \in own : r.family = "resourceTemplates" /\ Matches(r.original, uri)}
    IN  CASE exact # {}    -> {r.exposed : r \in exact}
          [] exact = {} /\ template # {} -> {Expand(r.exposed, uri) : r \in template}
          [] OTHER         -> {Wrap(prefix, uri)}

\* The links in a result of the component with this prefix, each with what it
\* may become; the rest of the result is copied.
Rewritten(catalog, prefix, links) == [uri \in links |-> CompositeURI(catalog, prefix, uri)]

-----------------------------------------------------------------------------
(* Request-scoped configurations *)

\* The first part of the method that lists or reads a family.
MethodOf(f) == IF f = "resourceTemplates" THEN "resources" ELSE f

\* What discovery a method needs.
ForMethod(cfg, family) ==
    IF ~cfg.scoped THEN cfg
    ELSE [cfg EXCEPT !.servers =
            [i \in DOMAIN cfg.servers |-> [cfg.servers[i] EXCEPT !.method = family]]]

\* Prefixes are only candidates: a local name may contain another's prefix.
Candidate(cfg, server, name) ==
    LET prefix == PrefixIn(cfg, server) IN
    \/ Len(cfg.servers) <= 1 /\ server.prefix = <<>>
    \/ /\ ValidPart(prefix)
       /\ Len(Join(prefix, <<>>)) < MaxNameLength
       /\ IsPrefix(Join(prefix, <<>>), name)

Pinned(server, prefix) == [server EXCEPT !.prefix = prefix]

\* Faulty variant: the longest prefix owns the name.
CandidatesByLongestPrefix(cfg, name) ==
    LET found == SelectSeq(cfg.servers, LAMBDA s :
            /\ Candidate(cfg, s, name)
            /\ \A t \in ToSet(cfg.servers) :
                  Candidate(cfg, t, name) => Len(PrefixIn(cfg, t)) <= Len(PrefixIn(cfg, s)))
    IN  [i \in DOMAIN found |-> Pinned(found[i], PrefixIn(cfg, found[i]))]

Candidates(cfg, name) ==
    LET found == Select(cfg.servers,
                        {i \in DOMAIN cfg.servers : Candidate(cfg, cfg.servers[i], name)})
    IN  [i \in DOMAIN found |-> Pinned(found[i], PrefixIn(cfg, found[i]))]

\* The part of a configuration that may own a tool, given what the registry has
\* cached: a function from configurations to catalogs.
Owning(all, tool, cached) ==
    LET candidates == Candidates(all, tool)
        selected   == IF candidates = <<>> THEN all ELSE [all EXCEPT !.servers = candidates]
        Owners(c)  == IF c \in DOMAIN cached THEN RouteNamed(cached[c], "tools", tool) ELSE {}
        owners     == IF Owners(all) # {} THEN Owners(all) ELSE Owners(selected)
        owner      == CHOOSE r \in owners : TRUE
    IN  IF owners = {} THEN selected
        ELSE [selected EXCEPT !.servers =
                 <<Pinned(CHOOSE s \in ToSet(all.servers) : s.name = owner.component,
                          owner.prefix)>>]

\* The tool of a component that a tools/call is for, Nil if it is for none: with
\* tool search, the one that the arguments of call_tool name. The arguments
\* name Nil when they do not parse.
Sought(cfg, name, named) ==
    CASE ~cfg.search -> name
      [] cfg.search /\ name = CallToolName -> named
      [] OTHER -> Nil

\* The configuration a tools/call runs with.
Narrow(cfg, name, named, cached) ==
    LET all  == ForMethod(cfg, "tools")
        tool == Sought(cfg, name, named)
    IN  CASE ~cfg.scoped                  -> cfg
          [] cfg.scoped /\ cfg.defer      -> all
          [] cfg.scoped /\ ~cfg.defer /\ tool # Nil -> Owning(all, tool, cached)
          [] OTHER -> IF name = CallToolName THEN [all EXCEPT !.servers = <<>>] ELSE all
=============================================================================
