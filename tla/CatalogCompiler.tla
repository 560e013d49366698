--------------------------- MODULE CatalogCompiler ---------------------------
(***************************************************************************)
(* Requests against a set of components that may change: the discovery of  *)
(* the components by parallel workers (catalog/compiler.go), the catalogs  *)
(* kept for later requests, the pages a client walks through and the       *)
(* narrowed configuration a tool call runs with. CatalogContents says what *)
(* a catalog is.                                                           *)
(*                                                                         *)
(* Requests are served one at a time: what happens between two of one      *)
(* configuration is the matter of CatalogRegistry. Here components change  *)
(* and cached catalogs go at any moment, also during a discovery.          *)
(***************************************************************************)
EXTENDS CatalogContents

CONSTANTS
    Configs,        \* the configurations
    Names,          \* tool names that a client may ask for
    URIs,           \* URIs that a component may link to
    Answers,        \* for each component name, the answers it may give
    MaxParallel,    \* maxParallelDiscoveries
    PageSize,       \* Options.PageSize
    Walked,         \* the family whose pages the client lists
    MaxChanges,     \* bound on changes of components
    Free, Stopped,  \* a worker between two servers, or at its end
    None            \* Go's nil

\* What Discover returns, what is kept of it, and why a discovery was canceled;
\* None is no such record.
AnswerKinds == {"features", "nil", "failure", "challenge", "canceled"}
AnswerRecords == [kind : AnswerKinds, features : FeatureRecords]
ResultRecords == [features : FeatureRecords, pending : BOOLEAN, err : BOOLEAN]
CauseRecords == [kind : AnswerKinds, server : Nat]

\* A configuration is loaded only without two components of one name.
ASSUME CompilerAssumption ==
    /\ MaxParallel \in Nat \ {0}
    /\ PageSize \in Nat /\ MaxChanges \in Nat
    /\ Walked \in Families /\ URIs \subseteq Texts
    /\ \A cfg \in Configs :
          /\ cfg \in ConfigRecords
          /\ \A s \in ToSet(cfg.servers) : s.name \in DOMAIN Answers
          /\ \A i, j \in DOMAIN cfg.servers :
                cfg.servers[i].name = cfg.servers[j].name => i = j
    /\ \A s \in DOMAIN Answers : \A a \in Answers[s] :
          a \in AnswerRecords /\ a.kind # "canceled"
    /\ {Free, Stopped} \cap Nat = {} /\ Free # Stopped
    /\ None \notin AnswerRecords \cup ResultRecords \cup CauseRecords \cup CatalogRecords

VARIABLES
    config,     \* the configuration, which stays
    upstream,   \* what each component would answer now
    changes,    \* changes of components so far
    cached,     \* catalogs of the registry, by configuration
    request,    \* the request being served
    stage,      \* how far it is
    at,         \* for each worker: free, done, or the server it discovers
    next,       \* the position of the next server
    results,    \* results of discoverComponents, by server
    cause,      \* the cause the discovery was canceled with
    asked,      \* ghost: the answer each server gave in this discovery
    outcome,    \* what compile, or the registry, returned
    walk        \* the client's walk through the pages

vars == <<config, upstream, changes, cached, request, stage, at, next, results,
          cause, asked, outcome, walk>>

discovery == <<at, next, results, cause, asked>>

-----------------------------------------------------------------------------
Idle == [op |-> "none", name |-> <<>>, cfg |-> None]
NoOutcome == [kind |-> "none", names |-> <<>>, catalog |-> None]
FreshWalk == [items |-> <<>>, cursor |-> NoCursor, from |-> <<>>, complete |-> FALSE]

Servers == request.cfg.servers
WorkersOf(cfg) == 1..(IF Len(cfg.servers) < MaxParallel THEN Len(cfg.servers) ELSE MaxParallel)

AnswersOf(cfg) == [s \in {server.name : server \in ToSet(cfg.servers)} |-> Answers[s]]

Init ==
    /\ config \in Configs
    /\ upstream \in {u \in [DOMAIN AnswersOf(config) -> UNION {Answers[s] : s \in DOMAIN Answers}] :
                        \A s \in DOMAIN u : u[s] \in Answers[s]}
    /\ changes = 0
    /\ cached = <<>>
    /\ request = Idle
    /\ stage = "idle"
    /\ at = <<>>
    /\ next = 1
    /\ results = <<>>
    /\ cause = None
    /\ asked = <<>>
    /\ outcome = NoOutcome
    /\ walk = FreshWalk

-----------------------------------------------------------------------------
(* The environment *)

UpstreamChanges(s) ==
    /\ changes < MaxChanges
    /\ \E a \in Answers[s] \ {upstream[s]} : upstream' = [upstream EXCEPT ![s] = a]
    /\ changes' = changes + 1
    /\ UNCHANGED <<config, cached, request, stage, discovery, outcome, walk>>

\* The registry drops a catalog: a notification, a refresh, an invalidation.
\* One that comes while a request is served looks like one after it.
Evict(cfg) ==
    /\ stage = "idle"
    /\ cfg \in DOMAIN cached
    /\ cached' = [c \in DOMAIN cached \ {cfg} |-> cached[c]]
    /\ UNCHANGED <<config, upstream, changes, request, stage, discovery, outcome, walk>>

\* The context of the request that compiles ends.
CancelRequest ==
    /\ stage = "discovering" /\ cause = None
    /\ cause' = [kind |-> "canceled", server |-> 0]
    /\ UNCHANGED <<config, upstream, changes, cached, request, stage, at, next, results,
                   asked, outcome, walk>>

-----------------------------------------------------------------------------
(* A request gets its catalog *)

\* From the registry's cache.
FindCatalog(op, name, cfg) ==
    /\ cfg \in DOMAIN cached
    /\ request' = [op |-> op, name |-> name, cfg |-> cfg]
    /\ stage' = "answered"
    /\ outcome' = [kind |-> "catalog", names |-> <<>>, catalog |-> cached[cfg]]
    /\ UNCHANGED discovery

Unprefixed(cfg) == \E s \in ToSet(cfg.servers) :
    (Len(cfg.servers) > 1 \/ s.prefix # <<>>) /\ ~ValidPart(Prefix(s))

\* compile fails before it discovers anything.
RefusePrefixes(op, name, cfg) ==
    /\ cfg \notin DOMAIN cached
    /\ Unprefixed(cfg)
    /\ request' = [op |-> op, name |-> name, cfg |-> cfg]
    /\ stage' = "answered"
    /\ outcome' = [kind |-> "prefix", names |-> <<>>, catalog |-> None]
    /\ UNCHANGED discovery

\* compile starts its workers.
StartDiscovery(op, name, cfg) ==
    /\ cfg \notin DOMAIN cached
    /\ ~Unprefixed(cfg)
    /\ request' = [op |-> op, name |-> name, cfg |-> cfg]
    /\ stage' = "discovering"
    /\ outcome' = NoOutcome
    /\ at' = [w \in WorkersOf(cfg) |-> Free]
    /\ next' = 1
    /\ results' = [i \in DOMAIN cfg.servers |-> None]
    /\ cause' = None
    /\ asked' = [i \in DOMAIN cfg.servers |-> None]

Begin(op, name, cfg) ==
    /\ stage = "idle"
    /\ \/ FindCatalog(op, name, cfg)
       \/ RefusePrefixes(op, name, cfg)
       \/ StartDiscovery(op, name, cfg)
    /\ UNCHANGED <<config, upstream, changes, cached, walk>>

ListItems == Begin("list", <<>>, ForMethod(config, MethodOf(Walked)))
CallTool(name, named) == Begin("call", name, Narrow(config, name, named, cached))

-----------------------------------------------------------------------------
(* The workers of discoverComponents *)

\* Under nextMu.
Take(w) ==
    /\ stage = "discovering" /\ at[w] = Free
    /\ cause = None /\ next <= Len(Servers)
    /\ at' = [at EXCEPT ![w] = next]
    /\ next' = next + 1
    /\ UNCHANGED <<config, upstream, changes, cached, request, stage, results, cause,
                   asked, outcome, walk>>

\* The queue is empty, or the discovery was canceled.
Stop(w) ==
    /\ stage = "discovering" /\ at[w] = Free
    /\ cause # None \/ next > Len(Servers)
    /\ at' = [at EXCEPT ![w] = Stopped]
    /\ UNCHANGED <<config, upstream, changes, cached, request, stage, next, results, cause,
                   asked, outcome, walk>>

\* What Discover returns for server s: the component's answer now; or, once
\* the discovery is canceled, that instead.
Returned(s) ==
    {IF upstream[s.name].kind = "features"
     THEN [kind |-> "features", features |-> Listed(s, upstream[s.name].features)]
     ELSE upstream[s.name]}
    \cup IF cause = None THEN {} ELSE {[kind |-> "canceled", features |-> NoFeatures]}

\* A challenge does not stop the siblings.
Challenged(w, i) ==
    /\ results' = [results EXCEPT ![i] =
                      [features |-> NoFeatures, pending |-> TRUE, err |-> ~request.cfg.defer]]
    /\ at' = [at EXCEPT ![w] = Free]
    /\ UNCHANGED cause

\* Faulty variant: the last failure is the one reported.
FailedKeepingLast(w, i, answer) ==
    /\ cause' = [kind |-> answer.kind, server |-> i]
    /\ at' = [at EXCEPT ![w] = Stopped]
    /\ UNCHANGED results

\* Any other failure cancels them, if it is the first.
Failed(w, i, answer) ==
    /\ cause' = IF cause = None THEN [kind |-> answer.kind, server |-> i] ELSE cause
    /\ at' = [at EXCEPT ![w] = Stopped]
    /\ UNCHANGED results

Succeeded(w, i, answer) ==
    /\ results' = [results EXCEPT ![i] =
                      [features |-> answer.features, pending |-> FALSE, err |-> FALSE]]
    /\ at' = [at EXCEPT ![w] = Free]
    /\ UNCHANGED cause

\* nil features are a failure, and so are features that do not compile.
Acceptable(s, answer) ==
    answer.kind = "features" /\ ~Invalid(s, PrefixIn(request.cfg, s), answer.features)

Discover(w) ==
    /\ stage = "discovering" /\ at[w] \in Nat
    /\ LET i == at[w] IN \E answer \in Returned(Servers[i]) :
        /\ asked' = [asked EXCEPT ![i] = answer]
        /\ \/ answer.kind = "challenge" /\ Challenged(w, i)
           \/ Acceptable(Servers[i], answer) /\ Succeeded(w, i, answer)
           \/ /\ answer.kind # "challenge" /\ ~Acceptable(Servers[i], answer)
              /\ Failed(w, i, answer)
    /\ UNCHANGED <<config, upstream, changes, cached, request, stage, next, outcome, walk>>

-----------------------------------------------------------------------------
(* compile after the workers *)

Where(field) == {i \in DOMAIN results : results[i][field]}
Found == [i \in DOMAIN results |-> results[i].features]

\* What compile returns, in the order it looks.
Compiled(cfg) ==
    CASE cause # None ->
            [kind |-> cause.kind, names |-> NamesAt(cfg, {cause.server} \ {0}), catalog |-> None]
      [] cause = None /\ Where("err") # {} ->
            [kind |-> "challenge", names |-> NamesAt(cfg, Where("err")), catalog |-> None]
      [] cause = None /\ Where("err") = {} /\ Refused(cfg, Found) ->
            [kind |-> "collision", names |-> <<>>, catalog |-> None]
      [] OTHER ->
            [kind |-> "catalog", names |-> <<>>,
             catalog |-> Catalog(cfg, Found, Where("pending"))]

\* workers.Wait returns; the registry keeps a catalog that awaits nobody.
Finish ==
    /\ stage = "discovering"
    /\ \A w \in DOMAIN at : at[w] = Stopped
    /\ outcome' = Compiled(request.cfg)
    /\ cached' = IF outcome'.kind = "catalog" /\ outcome'.catalog.pending = <<>>
                 THEN [cfg \in DOMAIN cached \cup {request.cfg} |->
                          IF cfg = request.cfg THEN outcome'.catalog ELSE cached[cfg]]
                 ELSE cached
    /\ stage' = "answered"
    /\ UNCHANGED <<config, upstream, changes, request, discovery, walk>>

-----------------------------------------------------------------------------
(* The request uses its catalog *)

Done ==
    /\ stage = "answered"
    /\ stage' = "idle"
    /\ request' = Idle
    /\ outcome' = NoOutcome
    /\ at' = <<>> /\ next' = 1 /\ results' = <<>> /\ cause' = None /\ asked' = <<>>
    /\ UNCHANGED <<config, upstream, changes, cached>>

\* The Page function of the family; a client whose cursor is refused starts again.
AnswerList ==
    /\ request.op = "list" /\ outcome.kind = "catalog"
    /\ LET page == Page(outcome.catalog, Walked, walk.cursor, PageSize)
       IN  walk' = IF page.expired THEN FreshWalk
                   ELSE [items    |-> IF walk.cursor = NoCursor THEN page.items
                                      ELSE walk.items \o page.items,
                         cursor   |-> page.next,
                         from     |-> IF walk.cursor = NoCursor
                                      THEN Listing(outcome.catalog, Walked) ELSE walk.from,
                         complete |-> page.next = NoCursor]
    /\ Done

\* A call goes where the catalog routes it; errors go to the client.
AnswerOther ==
    /\ request.op # "list" \/ outcome.kind # "catalog"
    /\ UNCHANGED walk
    /\ Done

Next ==
    \/ \E s \in DOMAIN upstream : UpstreamChanges(s)
    \/ \E cfg \in DOMAIN cached : Evict(cfg)
    \/ CancelRequest
    \/ ListItems
    \/ \E name \in Names, named \in Names \cup {Nil} : CallTool(name, named)
    \/ \E w \in DOMAIN at : Take(w) \/ Stop(w) \/ Discover(w)
    \/ Finish
    \/ AnswerList
    \/ AnswerOther

Spec == Init /\ [][Next]_vars
-----------------------------------------------------------------------------
(* Properties *)

Position == 0..Len(Servers)
OutcomeKinds == (AnswerKinds \cup {"none", "prefix", "collision", "catalog"})

\* Types: a worker holds a position of the configuration, and what is known of
\* a server is a result.
TypeOK ==
    /\ config \in Configs
    /\ \A s \in DOMAIN upstream : upstream[s] \in Answers[s]
    /\ changes \in 0..MaxChanges
    /\ \A cfg \in DOMAIN cached : cached[cfg].pending = <<>>
    /\ request.op \in {"none", "list", "call"}
    /\ stage \in {"idle", "discovering", "answered"}
    /\ \A w \in DOMAIN at : at[w] \in {Free, Stopped} \cup DOMAIN Servers
    /\ \A i \in DOMAIN results : results[i] = None \/ results[i].pending \in BOOLEAN
    /\ cause = None \/ (cause.kind \in AnswerKinds /\ cause.server \in Position)
    /\ outcome.kind \in OutcomeKinds
    /\ walk.complete \in BOOLEAN

Genuine(i) == asked[i].kind \notin {"challenge", "canceled"}
Asked == {i \in DOMAIN asked : asked[i] # None}
Broken == {i \in Asked : Genuine(i) /\ ~Acceptable(Servers[i], asked[i])}
Challenges == {i \in Asked : asked[i].kind = "challenge"}

\* What a server should be seen to offer, item by item: those it has that are
\* not hidden, under their own names.
Offers(cfg, i, f, item, route) ==
    /\ item \in ToSet(Discovered(cfg.servers[i], asked[i].features, f))
    /\ Compiles(cfg.servers[i], f)
    /\ ~Hidden(cfg.servers[i], f, item.id)
    /\ route.component = cfg.servers[i].name
    /\ route.original = item.id

\* Each thing a server offers has a route, each route leads to one thing.
ShowsWhatIsOffered(cfg, catalog) ==
    /\ \A i \in Asked, f \in Families :
          \A item \in ToSet(Discovered(cfg.servers[i], asked[i].features, f)) :
             (Compiles(cfg.servers[i], f) /\ ~Hidden(cfg.servers[i], f, item.id)) =>
                Cardinality({r \in catalog.routes : r.family = f /\ Offers(cfg, i, f, item, r)}) = 1
    /\ \A r \in catalog.routes :
          /\ \E i \in Asked : \E item \in ToSet(Discovered(cfg.servers[i], asked[i].features, r.family)) :
                Offers(cfg, i, r.family, item, r)
          /\ Cardinality(RouteNamed(catalog, r.family, r.exposed)) = 1

\* A compile returns what the servers' answers call for, however its workers
\* interleave (compile, discoverComponents): a failure is that of a server that
\* did fail, never the cancellation of a sibling; challenges are those of all
\* servers, in order; a catalog shows all that every server offers.
OutcomeMatchesAnswers ==
    stage = "answered" /\ asked # <<>> =>
        CASE outcome.kind \in {"failure", "nil", "features"} ->
                \E i \in Broken : /\ asked[i].kind = outcome.kind
                                  /\ outcome.names = <<Servers[i].name>>
          [] outcome.kind = "canceled" -> outcome.names = <<>>
          [] outcome.kind = "challenge" ->
                /\ Asked = DOMAIN Servers /\ Broken = {} /\ ~request.cfg.defer
                /\ outcome.names = NamesAt(request.cfg, Challenges)
          [] outcome.kind = "collision" -> Asked = DOMAIN Servers /\ Broken = {}
          [] outcome.kind = "catalog" ->
                /\ Asked = DOMAIN Servers /\ Broken = {}
                /\ outcome.catalog.pending = NamesAt(request.cfg, Challenges)
                /\ Challenges = {} => ShowsWhatIsOffered(request.cfg, outcome.catalog)
          [] OTHER -> FALSE

-----------------------------------------------------------------------------
\* What a compile of cfg would find if nothing changed: a catalog, or None.
Now(cfg) ==
    LET answer(s) == upstream[s.name]
        listed(s) == Listed(s, answer(s).features)
        found     == [i \in DOMAIN cfg.servers |-> listed(cfg.servers[i])]
    IN  IF \/ Unprefixed(cfg)
           \/ \E s \in ToSet(cfg.servers) : answer(s).kind # "features"
        THEN None
        ELSE IF \/ \E s \in ToSet(cfg.servers) : Invalid(s, PrefixIn(cfg, s), listed(s))
                \/ Refused(cfg, found)
             THEN None
             ELSE Catalog(cfg, found, {})

Destinations(catalog, tool) ==
    IF catalog = None \/ tool = Nil THEN {}
    ELSE {<<r.component, r.original>> : r \in RouteNamed(catalog, "tools", tool)}

\* A call runs with part of the configuration (requestCatalogConfig), whose
\* prefixes and cached owners only suggest where it goes. Where all servers
\* answer, the part leads where the whole would, except that the owner of a
\* cached catalog may no longer have the tool; with tool search, the part for the
\* tool that the arguments of call_tool name.
NarrowingAgrees ==
    stage = "idle" => \A name \in Names, named \in Names \cup {Nil} :
        LET all    == ForMethod(config, "tools")
            tool   == Sought(config, name, named)
            narrow == Narrow(config, name, named, cached)
            owned  == {r \in UNION {RouteNamed(cached[c], "tools", tool) : c \in DOMAIN cached} :
                          <<r.component, r.original>> \notin Destinations(Now(all), tool)}
        IN  Now(all) # None /\ owned = {} =>
                Destinations(Now(narrow), tool) = Destinations(Now(all), tool)

\* The catalog that lists resources, and that of a call.
ForReading == ForMethod(config, "resources")
ForCalling == ForMethod(config, "tools")

PrefixIsUnique(cfg, s) == \A t \in ToSet(cfg.servers) :
    PrefixIn(cfg, t) = PrefixIn(cfg, s) => t = s

\* The URIs server s shows as it is configured: listed and not hidden, or
\* covered by a template that is, and named by no override.
Shown(s, uris) ==
    LET features == Listed(s, upstream[s.name].features)
        has(f)   == {item.id : item \in {i \in ToSet(features[f]) : ~Hidden(s, f, i.id)}}
    IN  {u \in uris :
            \/ u \in has("resources")
            \/ /\ \E t \in has("resourceTemplates") : Matches(t, u)
               /\ OverridesOf(s, "resources", u) = {}}

\* No URI is exposed by a resource and by a template that means another.
Unambiguous(catalog) ==
    \A r, t \in catalog.routes :
        /\ r.family = "resources" /\ t.family = "resourceTemplates"
        /\ Matches(t.exposed, r.exposed)
        => r.component = t.component /\ Expand(t.original, r.exposed) = r.original

\* Every template override names a template that the component lists: a link
\* is mapped through the override in any case.
TemplatesAreListed(s) ==
    \A o \in ToSet(s.overrides["resourceTemplates"]) :
        \E t \in ToSet(upstream[s.name].features["resourceTemplates"]) : t.id = o.item

\* A link in the result of a call (toCompositeURI in a catalog that discovered
\* no resources) is read (RouteResource in the one that did) at the component
\* it came from, under the URI the component gave it.
LinksReturnHome ==
    LET reading == Now(ForReading)
        calling == Now(ForCalling)
    IN  stage = "idle" /\ reading # None /\ calling # None /\ Unambiguous(reading) =>
            \A s \in ToSet(ForReading.servers) :
                PrefixIsUnique(ForReading, s) /\ TemplatesAreListed(s) =>
                    LET links == Rewritten(calling, PrefixIn(config, s), Shown(s, URIs))
                    IN  \A u \in DOMAIN links : \A link \in links[u] :
                            RouteResource(reading, link) = {[component |-> s.name, uri |-> u]}

-----------------------------------------------------------------------------
\* A client that walks through the pages of a family, over catalogs that come
\* and go, has at the end exactly what the catalog of its first page listed, or
\* was refused (page, decodeCursor).
PagesListOneCatalog ==
    /\ IsPrefix(walk.items, walk.from)
    /\ walk.complete => walk.items = walk.from
=============================================================================
