--------------------------- MODULE FrontendRequests ---------------------------
(***************************************************************************)
(* The HTTP requests of one user, from the POST that selects a             *)
(* configuration to the handler that lists or calls under it               *)
(* (http_config_bridge.go, http.go, handler.go), and how a client learns   *)
(* that the tools it has listed are no longer those it would list          *)
(* (handler.go featureMiddleware, notifications.go observe).               *)
(*                                                                         *)
(* The requests belong to one stateful session, or are stateless requests  *)
(* under one configuration ID whose clients may listen for changes; each   *)
(* stateless request has a frontend server of its own.  A configuration    *)
(* that does not change lists the same tools throughout: what a changed    *)
(* upstream does is in CatalogRegistry.  A POST may end before its handler *)
(* does: the client has gone, or the message was a notification, and then  *)
(* what it selected is no longer found.                                    *)
(***************************************************************************)
EXTENDS Naturals, FiniteSets

CONSTANTS
    Session,     \* the client of the stateful session
    Listeners,   \* clients of stateless requests
    Posts,       \* requests in flight at a time in the session
    Others,      \* requests in flight at a time beside those that listen
    Configs,     \* configurations the user may select
    Default,     \* the composite's default configuration
    MaxEvents,   \* bound on selections of another configuration and sign-ins
    Outlived,    \* methods whose handlers may outlive their POST in a session
    None

ASSUME FrontendAssumption ==
    /\ Configs \subseteq [tools : SUBSET STRING, search : BOOLEAN,
                          scoped : BOOLEAN, defer : BOOLEAN]
    /\ Default \in Configs
    /\ MaxEvents \in Nat
    /\ Outlived \subseteq {"list", "prompts", "call", "other"}
    /\ Listeners \cap (Posts \cup Others) = {}
    /\ Session \notin Listeners
    /\ None \notin Listeners \cup {Session}

\* What is found; None is nil.  A component's tool is never the one that the
\* composite shows while authorization is pending: compile refuses its name.
CatalogRecords ==
    [cfg : Configs, pending : BOOLEAN,
     family : {"all", "tools", "one tool", "prompts", "initialize"}]
Snapshots == [cat : CatalogRecords, search : BOOLEAN]

ASSUME CatalogAssumption ==
    /\ None \notin CatalogRecords \cup Snapshots
    /\ \A cfg \in Configs : "authorize" \notin cfg.tools

VARIABLES
    stateful,    \* whether the user's requests are those of the session
    current,     \* the configuration the user's next request selects
    late,        \* the configuration in the context of the session's handlers
    signedIn,    \* whether components find the user's credentials
    events,      \* selections and sign-ins so far
    selections,  \* c.requestConfigs.entries
    request,     \* the handler of each request
    last,        \* the snapshot that the next full one is compared with
    listeners,   \* the servers of the configuration ID's subscription
    client       \* what each client holds, and what it has been told

vars == <<stateful, current, late, signedIn, events, selections, request,
          last, listeners, client>>
userVars == <<stateful, current, late, signedIn, events>>

\* A listener's subscriptions/listen is a request of its own.
Requests == Posts \cup Others \cup Listeners
Clients == IF stateful THEN {Session} ELSE Listeners

----------------------------------------------------------------------------
(* Catalogs.                                                               *)

\* What requestCatalogConfig leaves a method to discover.
Family(cfg, method) ==
    IF ~cfg.scoped THEN "all"
    ELSE IF method \in {"list", "listen"} \/ (method = "call" /\ cfg.defer) THEN "tools"
    ELSE IF method = "call" THEN "one tool"
    ELSE IF method = "prompts" THEN "prompts"
    ELSE "initialize"

\* Get, for the user's credentials as they are (a cached catalog may outlive them).
Get(cfg, family) ==
    [cfg |-> cfg, family |-> family, pending |-> cfg.defer /\ ~signedIn]

Fingerprint(cat) == <<cat.cfg, cat.family>>
Tools(cat) ==
    IF cat.pending THEN {"authorize"}
    ELSE IF cat.family \in {"all", "tools"} THEN cat.cfg.tools
    ELSE IF cat.family = "one tool" THEN {CHOOSE t \in cat.cfg.tools : TRUE}
    ELSE {}

\* What tools/list shows of a catalog.
View(cat) == IF cat.cfg.search /\ ~cat.pending THEN {"search_tools", "call_tool"}
             ELSE Tools(cat)

\* Deferred authorization completed, or began.
SetupChanged(before, now) == before.pending # now.pending

\* A partial catalog does not describe the full tool list.
\* Faulty variant: every catalog is compared.
AnyCatalog(cfg, method) == TRUE
FullTools(cfg, method) ==
    \/ ~cfg.scoped
    \/ method \in {"list", "listen"}
    \/ cfg.defer /\ method = "call"

----------------------------------------------------------------------------
(* The bridge from the POST to the handler.                                *)

Idle == [at |-> "idle", client |-> None, method |-> None, token |-> None,
         cfg |-> None, used |-> None, found |-> None, tell |-> {}, to |-> {}]

NewClient == [on |-> FALSE, stale |-> {"tools", "setup"}, listed |-> None,
              hidden |-> None, notices |-> {}]

Init ==
    /\ stateful \in BOOLEAN
    /\ current \in Configs
    /\ late \in {[cfg |-> Default, family |-> "all"]} \cup
          IF stateful THEN {[cfg |-> current, family |-> Family(current, "other")]} ELSE {}
    /\ signedIn = FALSE
    /\ events = 0
    /\ selections = [t \in {} |-> None]
    /\ request = [r \in Requests |-> Idle]
    /\ last = None
    /\ listeners = {}
    /\ client = [c \in Listeners \cup {Session} |->
                    [NewClient EXCEPT !.on = c = Session]]

\* The user selects another configuration.
Edit(cfg) ==
    /\ events < MaxEvents
    /\ cfg # current
    /\ current' = cfg
    /\ events' = events + 1
    /\ UNCHANGED <<stateful, late, signedIn, selections, request, last, listeners, client>>

\* The user signs in to the components, or is signed out.
Sign ==
    /\ events < MaxEvents
    /\ signedIn' = ~signedIn
    /\ events' = events + 1
    /\ UNCHANGED <<stateful, current, late, selections, request, last, listeners, client>>

\* The flag of a list that the client would make again.
FamilyOf(method) == IF method = "list" THEN {"tools"}
                    ELSE IF method = "prompts" THEN {"setup"} ELSE {}

\* put draws a token for every POST.
\* Faulty variant: the requests of a client share one.
ClientToken(r, c) == c
Token(r, c) == r

Put(t, selection) ==
    [u \in DOMAIN selections \cup {t} |-> IF u = t THEN selection ELSE selections[u]]
Deleted(t) == [u \in DOMAIN selections \ {t} |-> selections[u]]

\* configBridge keeps what the request selects.  A client has one list of a kind
\* in flight.
Post(r, c, method) ==
    /\ request[r].at = "idle"
    /\ method = "listen" => r = c /\ ~stateful
    /\ method # "listen" => client[c].on /\ r \in IF stateful THEN Posts ELSE Others
    /\ FamilyOf(method) # {} =>
          \A q \in Requests : request[q].client = c => request[q].method # method
    /\ selections' = Put(Token(r, c), [cfg |-> current, family |-> Family(current, method),
                                      pending |-> None])
    /\ request' = [request EXCEPT ![r] =
          [Idle EXCEPT !.at = "bridged", !.client = c, !.method = method,
                       !.token = Token(r, c), !.cfg = current]]
    /\ client' = [client EXCEPT ![c].stale = @ \ FamilyOf(method)]
    /\ UNCHANGED <<userVars, last, listeners>>

\* setPending: nothing when the selection is gone.
WithPending(t, cat) ==
    [u \in DOMAIN selections |->
        IF u = t /\ cat.pending THEN [selections[u] EXCEPT !.pending = cat]
        ELSE selections[u]]

\* selectFrontendImplementation: the request keeps the catalog that it finds
\* pending.
Identifies(r) ==
    LET cfg == request[r].cfg IN
    /\ request[r].at = "bridged"
    /\ selections' = WithPending(request[r].token,
                                 Get(cfg, Family(cfg, request[r].method)))
    /\ request' = [request EXCEPT ![r].at = "posted"]
    /\ UNCHANGED <<userVars, last, listeners, client>>

\* The POST ends before its handler; one that ends while its catalog is sought
\* gets no handler (DiscoveryFails).  A client that gave up a list makes it
\* again.  (An end between the comparison and the answer leaves what one just
\* before the comparison does.)
Departs(r) ==
    LET c == request[r].client IN
    /\ request[r].at \in {"posted", "selected", "resolved", "listening"}
    /\ c # None
    /\ stateful => request[r].method \in Outlived
    /\ selections' = Deleted(request[r].token)
    /\ request' = [request EXCEPT ![r].client = None]
    /\ client' = [client EXCEPT ![c] =
          IF request[r].method = "listen" THEN NewClient
          ELSE [client[c] EXCEPT !.stale = @ \cup FamilyOf(request[r].method)]]
    /\ UNCHANGED <<userVars, last, listeners>>

Selected(r) == request[r].token \in DOMAIN selections

----------------------------------------------------------------------------
(* The handler: configMiddleware, then featureMiddleware.                  *)

\* The selection while there is one, or whatever the context of the handler
\* holds: the request's own without a session, otherwise the session's.
ConfigFor(r) ==
    IF Selected(r) THEN [cfg |-> selections[request[r].token].cfg,
                         family |-> selections[request[r].token].family]
    ELSE IF stateful THEN late
    ELSE [cfg |-> request[r].cfg, family |-> Family(request[r].cfg, request[r].method)]

\* configMiddleware leaves it in the context, where configForRequest finds it
\* should the POST end.
Selects(r) ==
    /\ request[r].at = "posted"
    /\ request' = [request EXCEPT ![r] = [@ EXCEPT !.at = "selected", !.used = ConfigFor(r)]]
    /\ UNCHANGED <<userVars, selections, last, listeners, client>>

\* catalogForRequest: the catalog this request found pending, or another Get.
Resolves(r) ==
    LET used == request[r].used
        own == IF Selected(r) THEN selections[request[r].token].pending ELSE None
        family == IF request[r].method = "call" THEN Family(used.cfg, "call") ELSE used.family
    IN
    /\ request[r].at = "selected"
    /\ request' = [request EXCEPT ![r] = [@ EXCEPT !.at = "resolved", !.used = used.cfg,
                      !.found = IF own # None THEN own ELSE Get(used.cfg, family)]]
    /\ UNCHANGED <<userVars, selections, last, listeners, client>>

\* The discovery of either failed: the client has no answer.
DiscoveryFails(r) ==
    LET c == request[r].client IN
    /\ request[r].at \in {"bridged", "selected"}
    /\ request' = [request EXCEPT ![r] = Idle]
    /\ selections' = Deleted(request[r].token)
    /\ client' = IF c = None THEN client
                 ELSE [client EXCEPT ![c].stale = @ \cup FamilyOf(request[r].method)]
    /\ UNCHANGED <<userVars, last, listeners>>

\* What a full snapshot changes, for those who hold the one before; a session
\* that lists its tools need not be told that they changed.
SetupDone(found) == last # None /\ SetupChanged(last.cat, found)
ToolsDiffer(found, search) ==
    /\ last # None
    /\ Fingerprint(last.cat) # Fingerprint(found) \/ SetupDone(found)
    /\ last.search # search \/ Tools(last.cat) # Tools(found)

\* Faulty variant: nor that the sign-in did.
ChangesUnlessListed(r, alsoLists) ==
    IF ~alsoLists /\ request[r].method = "list" THEN {}
    ELSE (IF ToolsDiffer(request[r].found, request[r].used.search) THEN {"tools"} ELSE {})
           \cup (IF SetupDone(request[r].found) THEN {"setup"} ELSE {})
Changes(r, alsoLists) ==
    (IF /\ ToolsDiffer(request[r].found, request[r].used.search)
        /\ alsoLists \/ request[r].method # "list"
     THEN {"tools"} ELSE {})
      \cup (IF SetupDone(request[r].found) THEN {"setup"} ELSE {})

\* Whom it has to be said to: without a change, nobody.
Addressed(clients, changes) == IF changes = {} THEN {} ELSE clients

Snapshot(r) == [cat |-> request[r].found, search |-> request[r].used.search]

\* The critical section over previous, for a session.
ObservesSession(r) ==
    LET changes == Changes(r, FALSE) IN
    /\ request[r].at = "resolved"
    /\ stateful
    /\ FullTools(request[r].used, request[r].method)
    /\ request' = [request EXCEPT ![r] =
          [@ EXCEPT !.at = "observed", !.to = Addressed({Session}, changes), !.tell = changes]]
    /\ last' = Snapshot(r)
    /\ UNCHANGED <<userVars, selections, listeners, client>>

\* observe: there is a snapshot while there are listeners.
ObservesListeners(r) ==
    LET listens == request[r].method = "listen"
        changes == Changes(r, TRUE)
    IN
    /\ request[r].at = "resolved"
    /\ ~stateful
    /\ FullTools(request[r].used, request[r].method)
    /\ request' = [request EXCEPT ![r] =
          [@ EXCEPT !.at = "observed", !.to = Addressed(listeners, changes), !.tell = changes]]
    /\ last' = IF listens \/ last # None THEN Snapshot(r) ELSE None
    /\ listeners' = IF listens THEN listeners \cup {r} ELSE listeners
    /\ UNCHANGED <<userVars, selections, client>>

ObservesNothing(r) ==
    /\ request[r].at = "resolved"
    /\ ~FullTools(request[r].used, request[r].method)
    /\ request' = [request EXCEPT ![r].at = "observed"]
    /\ UNCHANGED <<userVars, selections, last, listeners, client>>

\* Notices go out after the mutex is left, then the answer.
Answered(r, c) ==
    LET q == request[r]
        held == client[c]
        told == IF c \in q.to /\ held.on THEN [held EXCEPT !.notices = @ \cup q.tell] ELSE held
        shown == IF FullTools(q.used, q.method) THEN q.found.pending ELSE None
    IN  IF q.client # c THEN told
        ELSE [told EXCEPT !.on = @ \/ q.method = "listen",
                          !.listed = IF q.method = "list" THEN View(q.found) ELSE @,
                          !.hidden = IF q.method = "prompts" THEN shown ELSE @]

Responds(r) ==
    LET listens == request[r].method = "listen" IN
    /\ request[r].at = "observed"
    /\ client' = [c \in DOMAIN client |-> Answered(r, c)]
    /\ request' = [request EXCEPT ![r] =
          IF listens THEN [@ EXCEPT !.at = "listening", !.tell = {}, !.to = {}] ELSE Idle]
    /\ selections' = IF listens THEN selections ELSE Deleted(request[r].token)
    /\ UNCHANGED <<userVars, last, listeners>>

\* The cleanup of observe, when the handler of a listener that has gone ends.
CleansUp(r) ==
    /\ request[r].at = "listening"
    /\ request[r].client = None
    /\ listeners' = listeners \ {r}
    /\ last' = IF listeners \subseteq {r} THEN None ELSE last
    /\ request' = [request EXCEPT ![r] = Idle]
    /\ UNCHANGED <<userVars, selections, client>>

\* A notice reaches its client.
Deliver(c) ==
    /\ client[c].notices # {}
    /\ client' = [client EXCEPT ![c] =
          [@ EXCEPT !.stale = client[c].stale \cup client[c].notices, !.notices = {}]]
    /\ UNCHANGED <<userVars, selections, request, last, listeners>>

Next ==
    \/ \E cfg \in Configs : Edit(cfg)
    \/ Sign
    \/ \E r \in Requests, c \in Clients,
          m \in {"list", "prompts", "call", "other", "listen"} : Post(r, c, m)
    \/ \E r \in Requests :
          \/ Identifies(r) \/ Departs(r) \/ DiscoveryFails(r) \/ Selects(r) \/ Resolves(r)
          \/ ObservesSession(r) \/ ObservesListeners(r) \/ ObservesNothing(r)
          \/ Responds(r) \/ CleansUp(r)
    \/ \E c \in Clients : Deliver(c)

Spec == Init /\ [][Next]_vars

----------------------------------------------------------------------------
(* Properties.                                                             *)

\* Every variable keeps its kind of value, and a configuration ID has a
\* snapshot exactly while it has listeners.
TypeOK ==
    /\ {current, late.cfg} \subseteq Configs
    /\ events \in 0 .. MaxEvents
    /\ DOMAIN selections \subseteq {request[r].token : r \in Requests}
    /\ \A r \in Requests :
          /\ request[r].at \in {"idle", "bridged", "posted", "selected", "resolved",
                                "observed", "listening"}
          /\ request[r].found \in CatalogRecords \cup {None}
    /\ last # None => last.cat \in CatalogRecords
    /\ listeners \subseteq Listeners
    /\ ~stateful => (last = None <=> listeners = {})

\* No notice is on its way to the client, and it waits for no list.
Quiet(c) ==
    /\ client[c].on
    /\ client[c].stale = {}
    /\ client[c].notices = {}
    /\ \A r \in Requests : request[r].at = "observed" => request[r].tell = {}
    /\ \A r \in Requests :
          request[r].client = c => FamilyOf(request[r].method) = {}

\* A client that has been told nothing since it listed holds the tools, and
\* knows of the sign-in, that the last full snapshot shows, however requests
\* under older and newer configurations overtook each other on their way from
\* their catalogs to the comparison (handler.go:42-69, notifications.go:41-91).
QuietClientIsCurrent ==
    \A c \in Clients :
      Quiet(c) /\ last # None =>
        /\ client[c].listed = View(last.cat)
        /\ client[c].hidden \in {None, last.cat.pending}

\* A client is told of a change only by a request under another configuration
\* or another sign-in than the one before: catalogs narrowed to what a request
\* needs are never taken for changes (handler.go:33-37).
NoticesMeanChanges ==
    [][\A r \in Requests :
         request[r].at = "resolved" /\ request'[r].tell # {} =>
           \/ request[r].found.cfg # last.cat.cfg
           \/ request[r].found.pending # last.cat.pending]_vars

\* While its POST is open a request is served under the configuration that it
\* selected, whatever other requests of the user select and whichever of them
\* end (http_config_bridge.go:115-118).
ServedBySelection ==
    \A r \in Requests :
      request[r].at = "resolved" /\ request[r].client # None =>
        /\ request[r].used = request[r].cfg
        /\ request[r].found.cfg = request[r].cfg

=============================================================================
