----------------------------- MODULE SearchIndex -----------------------------
(***************************************************************************)
(* The search index of each compiled catalog (toolsearch/search.go), the   *)
(* search_tools and call_tool requests that use it (catalog/search.go,     *)
(* catalog/tool_calls.go), and the registry steps that start and stop it   *)
(* (catalog/registry.go), for one configuration with tool search on.       *)
(*                                                                         *)
(* A catalog is a number; it is compiled once and never changes.  An index *)
(* has one builder goroutine, whose ready and stopped channels are flags.  *)
(* The ranking the full-text engine computes for a query is data of the    *)
(* catalog's contents.  A refresh is one step here: who waits for it is    *)
(* the subject of CatalogRegistry.                                         *)
(***************************************************************************)
EXTENDS Integers, Sequences, FiniteSets, SequencesExt

CONSTANTS
    Clients,       \* clients, each with one request at a time
    Contents,      \* what the compiles find, in the order in which they end:
                   \* tools, and the ranking of those that match a query
    Asks,          \* the client, query and limit of each search, 0 for none
    DefaultLimit,  \* the limit of a search that names none
    MaxEvents,     \* bound on refreshes, invalidations and failed compiles
    MaxFailures,   \* bound on failed builds of one index
    None, Compiling, Failed

\* An event is followed by one more entry and, when it fails a compile, by one
\* of each client that waited for it.
Catalogs == 1 .. Len(Contents)
Entries == 1 .. (1 + MaxEvents)

ASSUME SearchAssumption ==
    /\ MaxEvents \in Nat /\ MaxFailures \in Nat
    /\ IsFiniteSet(Clients) /\ Clients # {}
    /\ \A a \in Asks : a.client \in Clients /\ a.limit \in Int
    /\ DefaultLimit \in Nat \ {0}
    /\ Len(Contents) = 1 + MaxEvents * Cardinality(Clients)

\* A tool is what its revision digests of it; the engine ranks each document at
\* most once.
ASSUME ContentsAssumption ==
    \A i \in Catalogs :
        /\ IsFiniteSet(DOMAIN Contents[i].tools)
        /\ \A n \in DOMAIN Contents[i].tools :
              Contents[i].tools[n] \in
                  [component : STRING, original : STRING, definition : STRING]
        /\ \A a \in Asks :
              /\ Contents[i].ranking[a.text] \in Seq(DOMAIN Contents[i].tools)
              /\ IsInjective(Contents[i].ranking[a.text])

VARIABLES
    compiled,   \* the number of catalogs compiled so far
    installed,  \* r.entries[fingerprint]
    holding,    \* entry.catalog, Compiling or Failed
    superseded, \* entries whose catalog an explicit Refresh is about to stop
    closed,     \* r.closed
    events,     \* what happened to the registry
    builder,    \* run, and the channels and context of each index
    client      \* the request of each client and what it has learnt

vars == <<compiled, installed, holding, superseded, closed, events, builder, client>>
registryVars == <<compiled, installed, holding, superseded, closed, events>>

NewCatalog == compiled + 1
NewEntry == Cardinality({e \in Entries : holding[e] # None}) + 1

----------------------------------------------------------------------------
(* The builder goroutine of an index.                                      *)

NewBuilder == [at |-> "unstarted", cancelled |-> FALSE, ready |-> FALSE,
               stopped |-> FALSE, failures |-> 0]

\* Start runs the builder under the registry's context.
Start == [NewBuilder EXCEPT !.at = "building", !.cancelled = closed]

\* Stop cancels a builder that was started.
Stop(b) == IF b.at = "unstarted" THEN b ELSE [b EXCEPT !.cancelled = TRUE]

\* A build that returned is published unless the context has ended; run tests
\* the context before it takes the mutex.
BuildReturns(i) ==
    /\ builder[i].at = "building"
    /\ builder' = [builder EXCEPT ![i] = [@ EXCEPT !.failures = 0, !.at =
                      IF builder[i].cancelled THEN "leaving" ELSE "publishing"]]

BuildFails(i) ==
    LET b == builder[i] IN
    /\ b.at = "building"
    /\ b.cancelled \/ b.failures < MaxFailures
    /\ builder' = [builder EXCEPT ![i] =
          IF b.cancelled THEN [b EXCEPT !.at = "leaving", !.failures = 0]
          ELSE [b EXCEPT !.at = "backoff", !.failures = @ + 1]]

\* The retry delay passes, or the context ends it.
\* Faulty variant: one failure ends the builder.
BackoffGivesUp(i) ==
    /\ builder[i].at = "backoff"
    /\ builder' = [builder EXCEPT ![i].at = "leaving"]
BackoffEnds(i) ==
    /\ builder[i].at = "backoff"
    /\ builder' = [builder EXCEPT ![i].at =
                      IF builder[i].cancelled THEN "leaving" ELSE "building"]

Publish(i) ==
    /\ builder[i].at = "publishing"
    /\ builder' = [builder EXCEPT ![i] = [@ EXCEPT !.ready = TRUE, !.at = "leaving"]]

\* The deferred calls of run.
RunReturns(i) ==
    /\ builder[i].at = "leaving"
    /\ builder' = [builder EXCEPT ![i] =
          [@ EXCEPT !.cancelled = TRUE, !.at = "ended", !.stopped = TRUE]]

\* The builder of an index that no entry or request holds runs on unobserved.
Observed(i) ==
    \/ \E e \in Entries : holding[e] = i /\ (installed = e \/ e \in superseded)
    \/ \E c \in Clients :
          \/ client[c].pc = "using" /\ client[c].at = i
          \/ client[c].pc = "joining" /\ holding[client[c].at] = i

BuilderStep(i) ==
    /\ Observed(i)
    /\ \/ BuildReturns(i) \/ BuildFails(i) \/ BackoffEnds(i)
       \/ Publish(i) \/ RunReturns(i)
    /\ UNCHANGED <<registryVars, client>>

----------------------------------------------------------------------------
(* Searching one index, and calling what was found.                        *)

\* The exact name a query may be comes first, matched or not.
Promote(o, text, hits) ==
    IF text \notin DOMAIN o.tools THEN hits
    ELSE IF \E k \in DOMAIN hits : hits[k] = text
    THEN LET k == CHOOSE k \in DOMAIN hits : hits[k] = text
         IN  <<text>> \o SubSeq(hits, 1, k - 1) \o SubSeq(hits, k + 1, Len(hits))
    ELSE <<text>> \o hits

\* Revision is a digest of the reference, the component's name, the name of
\* the tool there and the exposed definition.
\* Faulty variant: the component's name is left out.
RevisionOfDefinition(name, tool) == <<name, tool.original, tool.definition>>
Revision(name, tool) ==
    <<name, tool.component, tool.original, tool.definition>>

Hit(o, name) == [name |-> name, revision |-> Revision(name, o.tools[name]),
                 tool |-> o.tools[name]]

Least(m, n) == IF m < n THEN m ELSE n

\* The engine is asked for one hit past the page, never for more than there
\* are documents.
\* Faulty variant: it is asked for the page only.
FetchPage(size, end) == end
Fetch(size, end) == IF end < size THEN end + 1 ELSE end

Search(o, text, limit, offset) ==
    LET size == Cardinality(DOMAIN o.tools)
        end  == offset + Least(limit, size - offset)
        some == o.ranking[text]
        hits == Promote(o, text, SubSeq(some, 1, Least(Fetch(size, end), Len(some))))
        page == SubSeq(hits, offset + 1, Least(end, Len(hits)))
    IN  IF offset >= size THEN [hits |-> <<>>, hasMore |-> FALSE]
        ELSE [hits |-> [k \in DOMAIN page |-> Hit(o, page[k])],
              hasMore |-> Len(hits) > end]

\* What clients may have been shown.
Hits == UNION {{Hit(Contents[i], n) : n \in DOMAIN Contents[i].tools} : i \in Catalogs}

ASSUME NilAssumption ==
    /\ None \notin {Compiling, Failed} /\ Compiling # Failed
    /\ {None, Compiling, Failed} \cap (Entries \cup Catalogs) = {}
    /\ None \notin Hits

Answer(kind) == [kind |-> kind, hasMore |-> FALSE]

\* ErrNotReady, which await returns for a stopped index and for its timer: the
\* client is told the same, and asks again.
Retried == {"not_ready", "timed_out"}

\* RouteReference and the revision test of ResolveToolCall.
Resolve(o, hit) ==
    IF hit.name \notin DOMAIN o.tools THEN "unavailable"
    ELSE IF Revision(hit.name, o.tools[hit.name]) # hit.revision
         THEN "stale" ELSE "ran"

----------------------------------------------------------------------------
(* A client's request.                                                     *)

\* walk holds the hits of the pages read so far and of the catalog they came
\* from, None once they came from several; called is the hit a call_tool
\* names, and ran the tool it ran.
NewClient == [pc |-> "idle", at |-> 0, text |-> None, limit |-> 0,
              walk |-> <<>>, of |-> None, called |-> None, ran |-> None,
              answer |-> Answer("none")]

Init ==
    /\ compiled = 0
    /\ installed = None
    /\ holding = [e \in Entries |-> None]
    /\ superseded = {}
    /\ closed = FALSE
    /\ events = 0
    /\ builder = [i \in Catalogs |-> NewBuilder]
    /\ client = [c \in Clients |-> NewClient]

\* Get finds the entry or makes it; the maker compiles.
Arrive(c, request) ==
    IF installed # None
    THEN /\ client' = [client EXCEPT ![c] =
                          [request EXCEPT !.pc = "joining", !.at = installed]]
         /\ UNCHANGED <<registryVars, builder>>
    ELSE /\ client' = [client EXCEPT ![c] =
                          [request EXCEPT !.pc = "compiling", !.at = NewEntry]]
         /\ installed' = NewEntry
         /\ holding' = [holding EXCEPT ![NewEntry] = Compiling]
         /\ UNCHANGED <<compiled, superseded, closed, events, builder>>

AskFirst(a) ==
    /\ client[a.client].pc = "idle"
    /\ client[a.client].answer.kind \notin Retried
    /\ Arrive(a.client, [NewClient EXCEPT !.text = a.text, !.limit = a.limit])

\* The next page, or the same again of an index that was not ready.
AskAgain(c) ==
    /\ client[c].pc = "idle"
    /\ client[c].answer.hasMore \/ client[c].answer.kind \in Retried
    /\ Arrive(c, client[c])

Call(c, hit) ==
    /\ client[c].pc = "idle"
    /\ client[c].answer.kind = "page"
    /\ Arrive(c, [NewClient EXCEPT !.called = hit])

\* The limits a search accepts; an omitted limit is 0.
LimitOf(limit) == IF limit = 0 THEN DefaultLimit ELSE limit

\* The request is over and has told the client nothing, or to ask again.
End(c) == client' = [client EXCEPT ![c] = NewClient]
ToldToRetry(c, kind) ==
    client' = [client EXCEPT ![c] =
                  [@ EXCEPT !.pc = "idle", !.at = 0, !.answer = Answer(kind)]]

Resolves(c) ==
    LET o == Contents[client[c].at]
        hit == client[c].called
    IN  /\ client[c].pc = "using"
        /\ hit # None
        /\ IF Resolve(o, hit) = "ran"
           THEN client' = [client EXCEPT ![c] =
                   [NewClient EXCEPT !.called = hit, !.ran = o.tools[hit.name],
                                     !.answer = Answer("ran")]]
           ELSE End(c)

RefusesArguments(c) ==
    /\ client[c].pc = "using"
    /\ client[c].called = None
    /\ LimitOf(client[c].limit) < 1
    /\ End(c)

\* await, on the index of the catalog the request holds.
Awaits(c) ==
    /\ client[c].pc = "using"
    /\ client[c].called = None
    /\ LimitOf(client[c].limit) >= 1

FindsReady(c) ==
    LET r == client[c]
        o == Contents[r.at]
    IN  /\ Awaits(c)
        /\ builder[r.at].ready
        /\ \E found \in {Search(o, r.text, LimitOf(r.limit), Len(r.walk))} :
              client' = [client EXCEPT ![c] =
                 [r EXCEPT !.pc = "idle", !.at = 0,
                           !.answer = [kind |-> "page", hasMore |-> found.hasMore],
                           !.walk = r.walk \o found.hits,
                           !.of = IF r.walk = <<>> \/ r.of = o THEN o ELSE None]]

\* stopped is closed; ready is tested again, for both may be.
\* Faulty variant: it is not.
GivesUpStopped(c) ==
    /\ Awaits(c)
    /\ builder[client[c].at].stopped
    /\ ToldToRetry(c, "not_ready")
FindsStopped(c) ==
    /\ Awaits(c)
    /\ builder[client[c].at].stopped
    /\ ~builder[client[c].at].ready
    /\ ToldToRetry(c, "not_ready")

\* The timer fired.  The select may take it although a channel is closed too:
\* a goroutine that stalled before the select finds both.
TimesOut(c) ==
    /\ Awaits(c)
    /\ ToldToRetry(c, "timed_out")

Cancels(c) ==
    /\ client[c].pc \in {"joining", "using"}
    /\ End(c)

UseCatalog(c, i) == client' = [client EXCEPT ![c] = [@ EXCEPT !.pc = "using", !.at = i]]

\* waitForCatalog returns what the entry holds by now.
Joins(c) ==
    /\ client[c].pc = "joining"
    /\ holding[client[c].at] \in Catalogs
    /\ UseCatalog(c, holding[client[c].at])

Uses(c) ==
    /\ \/ Resolves(c) \/ RefusesArguments(c) \/ FindsStopped(c) \/ Joins(c)
    /\ UNCHANGED <<registryVars, builder>>

Finds(c) == FindsReady(c) /\ UNCHANGED <<registryVars, builder>>

----------------------------------------------------------------------------
(* The registry.                                                           *)

\* A compile succeeds; its index is started, unless the registry is closed
\* and the path looks.
Make(started) ==
    /\ compiled' = NewCatalog
    /\ builder' = [builder EXCEPT ![NewCatalog] = IF started THEN Start ELSE @]

\* The second critical section of Get.  An entry invalidated meanwhile is
\* not put back, but its catalog is started for those who wait for it.
\* Faulty variant: only an installed catalog is started.
CompileInstalledOnly(c) ==
    LET e == client[c].at IN
    /\ client[c].pc = "compiling"
    /\ Make(~closed /\ installed = e)
    /\ holding' = [holding EXCEPT ![e] = NewCatalog]
    /\ UseCatalog(c, NewCatalog)
    /\ UNCHANGED <<installed, superseded, closed, events>>
Compile(c) ==
    LET e == client[c].at IN
    /\ client[c].pc = "compiling"
    /\ Make(~closed)
    /\ holding' = [holding EXCEPT ![e] = NewCatalog]
    /\ UseCatalog(c, NewCatalog)
    /\ UNCHANGED <<installed, superseded, closed, events>>

Event == events < MaxEvents /\ events' = events + 1

CompileFails(c) ==
    LET e == client[c].at IN
    /\ client[c].pc = "compiling"
    /\ Event
    /\ holding' = [holding EXCEPT ![e] = Failed]
    /\ installed' = IF installed = e THEN None ELSE installed
    /\ End(c)
    /\ UNCHANGED <<compiled, superseded, closed, builder>>

\* Who waited for a compile that failed fails with it, or, when it failed on
\* the credentials of its own request, compiles again and publishes.
JoinFails(c) ==
    /\ client[c].pc = "joining"
    /\ holding[client[c].at] = Failed
    /\ End(c)
    /\ UNCHANGED <<registryVars, builder>>

CompilesAgain(c) ==
    /\ client[c].pc = "joining"
    /\ holding[client[c].at] = Failed
    /\ Make(~closed)
    /\ IF closed \/ installed # None THEN UNCHANGED <<installed, holding>>
       ELSE /\ installed' = NewEntry
            /\ holding' = [holding EXCEPT ![NewEntry] = NewCatalog]
    /\ UseCatalog(c, NewCatalog)
    /\ UNCHANGED <<superseded, closed, events>>

\* finishRefresh of a refresh that succeeded: for a notification on the
\* installed entry, for an explicit one on the entry it had found.
FinishRefresh(e) ==
    /\ holding[e] \in Catalogs
    /\ installed = e \/ ~closed
    /\ Event
    /\ compiled' = NewCatalog
    /\ holding' = [holding EXCEPT ![e] = NewCatalog]
    /\ builder' = [[builder EXCEPT ![holding[e]] = Stop(@)] EXCEPT ![NewCatalog] = Start]
    /\ UNCHANGED <<installed, superseded, closed, client>>

\* A Refresh that had found no entry replaces whatever is there now, and
\* stops that after it has left the mutex.
RefreshReplaces ==
    /\ Event
    /\ Make(TRUE)
    /\ holding' = [holding EXCEPT ![NewEntry] = NewCatalog]
    /\ installed' = NewEntry
    /\ superseded' = superseded \cup ({installed} \ {None})
    /\ UNCHANGED <<closed, client>>

\* StopSearchIndex of what entry e holds; nothing when it holds no catalog.
StopHeld(e) ==
    builder' = [builder EXCEPT ![IF holding[e] \in Catalogs THEN holding[e] ELSE 1] =
                   IF holding[e] \in Catalogs THEN Stop(@) ELSE @]

RefreshStops(e) ==
    /\ e \in superseded
    /\ superseded' = superseded \ {e}
    /\ StopHeld(e)
    /\ UNCHANGED <<compiled, installed, holding, closed, events, client>>

InvalidateComponent ==
    /\ installed # None
    /\ Event
    /\ installed' = None
    /\ StopHeld(installed)
    /\ UNCHANGED <<compiled, holding, superseded, closed, client>>

\* Close cancels the registry's context, from which every builder's derives.
Close ==
    /\ ~closed
    /\ closed' = TRUE
    /\ builder' = [i \in Catalogs |-> Stop(builder[i])]
    /\ UNCHANGED <<compiled, installed, holding, superseded, events, client>>

Next ==
    \/ \E i \in Catalogs : BuilderStep(i)
    \/ \E a \in Asks : AskFirst(a)
    \/ \E c \in Clients : AskAgain(c) \/ CompileFails(c) \/ JoinFails(c)
    \/ \E c \in Clients : Uses(c) \/ Finds(c)
    \/ \E c \in Clients : \E h \in ToSet(client[c].walk) : Call(c, h)
    \/ \E c \in Clients :
          (TimesOut(c) \/ Cancels(c)) /\ UNCHANGED <<registryVars, builder>>
    \/ \E c \in Clients : Compile(c) \/ CompilesAgain(c)
    \/ \E e \in Entries : FinishRefresh(e) \/ RefreshStops(e)
    \/ RefreshReplaces
    \/ InvalidateComponent
    \/ Close

\* The scheduler runs every goroutine that can move; a compile ends, and a
\* client told to retry does.  Timers, refreshes and cancellations need not come.
Proceeds(c) ==
    \/ Uses(c) \/ Compile(c) \/ CompileFails(c) \/ CompilesAgain(c) \/ JoinFails(c)
    \/ client[c].answer.kind \in Retried /\ AskAgain(c)

\* Clients that make searches with arguments that are accepted.
Searchers == {a.client : a \in {b \in Asks : LimitOf(b.limit) >= 1}}

\* A select chooses at random among the cases that are ready, so a client that
\* again and again waits for a published index finds it in the end.
Fairness ==
    /\ \A i \in Catalogs : WF_vars(BuilderStep(i))
    /\ \A c \in Clients : WF_vars(Proceeds(c))
    /\ \A c \in Searchers :
          SF_vars(Finds(c))

Spec == Init /\ [][Next]_vars /\ Fairness

----------------------------------------------------------------------------
(* Properties.                                                             *)

BuilderRecords ==
    [at : {"unstarted", "building", "backoff", "publishing", "leaving", "ended"},
     cancelled : BOOLEAN, ready : BOOLEAN, stopped : BOOLEAN,
     failures : 0 .. MaxFailures]

\* Every variable keeps its kind of value; a request that uses a catalog uses
\* one that was compiled, and the registry holds only such catalogs.
TypeOK ==
    /\ compiled \in 0 .. Len(Contents)
    /\ installed \in Entries \cup {None}
    /\ \A e \in Entries : holding[e] \in (1 .. compiled) \cup {None, Compiling, Failed}
    /\ superseded \subseteq Entries
    /\ closed \in BOOLEAN
    /\ events \in 0 .. MaxEvents
    /\ builder \in [Catalogs -> BuilderRecords]
    /\ \A c \in Clients :
          /\ client[c].pc \in {"idle", "compiling", "joining", "using"}
          /\ client[c].pc = "using" => client[c].at \in 1 .. compiled

\* A client that follows hasMore to the end, with any limit, through pages of
\* one catalog has seen the ranking of the whole catalog, once each and the
\* tool of that exact name first, wherever the engine had ranked it (search.go
\* Search pages after promoting, over a prefix it fetched anew each time).
WalkFindsAll ==
    \A c \in Clients :
      LET r == client[c] IN
      r.answer.kind = "page" /\ ~r.answer.hasMore /\ r.of # None =>
        r.walk = [k \in DOMAIN Promote(r.of, r.text, r.of.ranking[r.text]) |->
                     Hit(r.of, Promote(r.of, r.text, r.of.ranking[r.text])[k])]

\* What call_tool runs is the tool of the component and with the definition
\* that search_tools showed, whatever refreshes came between: a tool that has
\* changed hands or shape under its name is refused (tool_calls.go
\* ResolveToolCall, search.go Revision).
CallRunsWhatWasFound ==
    \A c \in Clients :
      client[c].ran # None => client[c].ran = client[c].called.tool

\* A search ends without its timer: the index of whatever catalog Get returned
\* is being built, that of an entry invalidated while it compiled included, and
\* a build that is stopped wakes those who wait for it.  Only the catalogs that
\* a closed registry compiled are never started (registry.go:133-136, search.go
\* run closes stopped whatever way it ends, await selects on it).
SearchNeedsNoTimer ==
    \A c \in Searchers :
      (Awaits(c) /\ ~(closed /\ builder[client[c].at].at = "unstarted")) ~> ~Awaits(c)

\* A search whose timer did not fire is told to retry only while its index has
\* not been published: the builder closes both channels, and await does not
\* take the wrong one for the end of a builder that never published.
PublishedIndexAnswers ==
    [][\A c \in Clients :
         Awaits(c) /\ builder[client[c].at].ready =>
           Awaits(c)' \/ client'[c].answer.kind # "not_ready"]_vars

\* A client that retries as it is told to is served in the end, although timers
\* fire and refreshes and invalidations stop the builds it waits for: the catalog a
\* later Get returns has an index that is being built, for a refresh starts the
\* new one and stops the old, and a build that fails is made again
\* (registry.go:295-309, 412-416, search.go:234-260).
RetriesAreServed ==
    \A c \in Searchers :
      (client[c].answer.kind \in Retried) ~>
         (closed \/ client[c].answer.kind \notin Retried)

=============================================================================
