------------------------ MODULE FrontendRequestsProofs ------------------------
(***************************************************************************)
(* Proofs about FrontendRequests, for any clients, requests and            *)
(* configurations and any number of changes: each request is served under  *)
(* the configuration it selected, and no client that was told nothing      *)
(* holds anything but what the last snapshot shows.                        *)
(*                                                                         *)
(* A snapshot and the notices about it are one critical section, but the   *)
(* notices and the answer of that request come later, in any order with    *)
(* those of others.  So the invariant follows each flag of a client on its *)
(* way: held, travelling, with a request that has compared, or about to be *)
(* made superfluous by a list that is under way.                           *)
(***************************************************************************)
EXTENDS FrontendRequests, TLAPS

Methods == {"list", "prompts", "call", "other", "listen"}
Flags == {"tools", "setup"}
Families == {"all", "tools", "one tool", "prompts", "initialize"}
Users == Listeners \cup {Session}
Selections == [cfg : Configs, family : Families]
Views == {View(cat) : cat \in CatalogRecords} \cup {None}

RequestRecords ==
    [at : {"idle", "bridged", "posted", "selected", "resolved", "observed", "listening"},
     client : Users \cup {None}, method : Methods \cup {None},
     token : Requests \cup {None}, cfg : Configs \cup {None},
     used : Selections \cup Configs \cup {None},
     found : CatalogRecords \cup {None},
     tell : SUBSET Flags, to : SUBSET Users]

ClientRecords ==
    [on : BOOLEAN, stale : SUBSET Flags, listed : Views,
     hidden : BOOLEAN \cup {None}, notices : SUBSET Flags]

\* TypeOK in full: the fields of requests, selections and clients too.
Typed ==
    /\ stateful \in BOOLEAN
    /\ current \in Configs
    /\ late \in Selections
    /\ signedIn \in BOOLEAN
    /\ events \in 0 .. MaxEvents
    /\ selections \in [DOMAIN selections ->
                          [cfg : Configs, family : Families,
                           pending : CatalogRecords \cup {None}]]
    /\ DOMAIN selections \subseteq Requests
    /\ request \in [Requests -> RequestRecords]
    /\ last \in Snapshots \cup {None}
    /\ listeners \subseteq Listeners
    /\ client \in [Users -> ClientRecords]

\* What a handler knows at each point, and that a POST keeps its selection under
\* its own token until it ends.
Served(r) == r \in DOMAIN selections
RequestFits(r) ==
    LET q == request[r] IN
    /\ q.at = "idle" => q = Idle
    /\ q.at # "idle" => q.token = r /\ q.method \in Methods /\ q.cfg \in Configs
    /\ q.client # None <=> Served(r)
    /\ Served(r) =>
          /\ q.client \in Clients
          /\ selections[r].cfg = q.cfg
          /\ selections[r].pending # None => selections[r].pending.cfg = q.cfg
    /\ q.at # "idle" /\ ~Served(r) /\ stateful => q.method \in Outlived
    /\ q.at # "idle" => (q.method = "listen" <=> r \in Listeners)
    /\ q.at # "idle" /\ q.method = "listen" => ~stateful /\ q.client \in {r, None}
    /\ q.at = "listening" => q.method = "listen"
    /\ q.at = "selected" =>
          /\ q.used \in Selections
          /\ Served(r) => q.used.cfg = q.cfg
    /\ q.at \in {"resolved", "observed"} =>
          /\ q.used \in Configs /\ q.found \in CatalogRecords
          /\ q.found.cfg = q.used
          /\ Served(r) => q.used = q.cfg
    /\ q.at # "observed" => q.tell = {} /\ q.to = {}

RequestsFit == \A r \in Requests : RequestFits(r)

\* A client has one list of a kind in flight.
OneList ==
    \A q, r \in Requests :
        /\ request[q].client = request[r].client /\ request[q].client # None
        /\ request[q].method = request[r].method
        /\ FamilyOf(request[q].method) # {}
        => q = r

\* The last snapshot shows a configuration by its own setting.  Without a
\* session, a client is on while its listener is counted.
LastFits == last # None => last.search = last.cat.cfg.search
SessionFits == stateful => listeners = {} /\ client[Session].on
ListenersCounted == ~stateful => (last = None <=> listeners = {})
ListenerFits(c) ==
    /\ client[c].on <=> request[c].at = "listening" /\ request[c].client = c
    /\ request[c].at \in {"observed", "listening"} => c \in listeners
    /\ ~client[c].on => client[c].stale = Flags /\ client[c].notices = {}

SnapshotFits ==
    /\ LastFits /\ SessionFits /\ ListenersCounted
    /\ ~stateful => \A c \in Listeners : ListenerFits(c)

Base == Typed /\ RequestsFit /\ OneList /\ SnapshotFits

\* Only catalogs that have all tools are compared.
FullFamily(cfg, method, family) ==
    FullTools(cfg, method) => family \in {"all", "tools"}
FamiliesFull ==
    /\ ~late.cfg.scoped => late.family = "all"
    /\ last # None => last.cat.family \in {"all", "tools"}
    /\ \A r \in DOMAIN selections :
          /\ FullFamily(selections[r].cfg, request[r].method, selections[r].family)
          /\ selections[r].pending # None =>
                FullFamily(selections[r].cfg, request[r].method, selections[r].pending.family)
    /\ \A r \in Requests :
          /\ request[r].at = "selected" /\ request[r].method # "call" =>
                FullFamily(request[r].used.cfg, request[r].method, request[r].used.family)
          /\ request[r].at = "resolved" =>
                FullFamily(request[r].used, request[r].method, request[r].found.family)

\* A client has been told of a flag, or will be.
IsTold(c, f) ==
    \/ f \in client[c].stale \cup client[c].notices
    \/ \E r \in Requests : f \in request[r].tell /\ c \in request[r].to

\* A list of client c that is at one of some points.
Lists(c, r, method, points) ==
    request[r].client = c /\ request[r].method = method /\ request[r].at \in points
Coming == {"bridged", "posted", "selected", "resolved"}

\* A client that knows of no change of the tools has them, or a list under way
\* will bring them.
ToolsKnown(c) ==
    \/ IsTold(c, "tools")
    \/ \E r \in Requests : Lists(c, r, "list", Coming)
    \/ last # None /\ \E r \in Requests :
          Lists(c, r, "list", {"observed"}) /\ View(request[r].found) = View(last.cat)
    \/ /\ last # None /\ client[c].listed = View(last.cat)
       /\ \A r \in Requests : ~Lists(c, r, "list", {"observed"})

\* The same for the sign-in, of which only a full catalog tells.
Shown(r) == IF FullTools(request[r].used, "prompts") THEN request[r].found.pending ELSE None
SetupAgrees(hidden) == hidden # None => last # None /\ hidden = last.cat.pending
SetupKnown(c) ==
    \/ IsTold(c, "setup")
    \/ \E r \in Requests : Lists(c, r, "prompts", Coming)
    \/ \E r \in Requests : Lists(c, r, "prompts", {"observed"}) /\ SetupAgrees(Shown(r))
    \/ /\ SetupAgrees(client[c].hidden)
       /\ \A r \in Requests : ~Lists(c, r, "prompts", {"observed"})

ClientsKnow == \A c \in Clients : client[c].on => ToolsKnown(c) /\ SetupKnown(c)

IndInv == Base /\ FamiliesFull /\ ClientsKnow


----------------------------------------------------------------------------
(* Lemmas about the operators.                                             *)

LEMMA ConfigFields ==
    ASSUME NEW cfg \in Configs
    PROVE  /\ cfg \in [tools : SUBSET STRING, search : BOOLEAN,
                       scoped : BOOLEAN, defer : BOOLEAN]
           /\ "authorize" \notin cfg.tools
  BY FrontendAssumption, CatalogAssumption

LEMMA FamilyFits ==
    ASSUME NEW cfg \in Configs, NEW m \in Methods
    PROVE  Family(cfg, m) \in Families /\ FullFamily(cfg, m, Family(cfg, m))
<1>1. cfg.scoped \in BOOLEAN /\ cfg.defer \in BOOLEAN
  BY ConfigFields
<1>2. CASE ~cfg.scoped
  BY <1>2 DEF Family, Families, FullFamily
<1>3. CASE cfg.scoped /\ (m \in {"list", "listen"} \/ (m = "call" /\ cfg.defer))
  BY <1>3 DEF Family, Families, FullFamily
<1>4. CASE cfg.scoped /\ m \notin {"list", "listen"} /\ ~(m = "call" /\ cfg.defer)
  <2>1. ~FullTools(cfg, m)
    BY <1>1, <1>4 DEF FullTools
  <2>2. Family(cfg, m) \in Families
    BY <1>4 DEF Family, Families
  <2> QED BY <2>1, <2>2 DEF FullFamily
<1> QED BY <1>1, <1>2, <1>3, <1>4

LEMMA GetFits ==
    ASSUME NEW cfg \in Configs, NEW family \in Families, signedIn \in BOOLEAN
    PROVE  /\ Get(cfg, family) \in CatalogRecords
           /\ Get(cfg, family).cfg = cfg /\ Get(cfg, family).family = family
  BY ConfigFields DEF Get, CatalogRecords, Families

LEMMA RecordFacts ==
    /\ Users \cap {None} = {}
    /\ Clients \subseteq Users
    /\ Listeners \subseteq Requests
    /\ "listen" \notin {"list", "prompts", "call", "other"}
  BY FrontendAssumption DEF Users, Clients, Requests

LEMMA IdleFits == Idle \in RequestRecords
<1>1. "idle" \in {"idle", "bridged", "posted", "selected", "resolved", "observed", "listening"}
  OBVIOUS
<1> QED BY <1>1 DEF Idle, RequestRecords

LEMMA NewClientFits == NewClient \in ClientRecords
<1>1. {"tools", "setup"} \in SUBSET Flags /\ FALSE \in BOOLEAN
  BY DEF Flags
<1> QED BY <1>1 DEF NewClient, ClientRecords, Views

LEMMA FlagsFit ==
    ASSUME NEW m, NEW r
    PROVE  /\ FamilyOf(m) \subseteq Flags
           /\ Changes(r, TRUE) \subseteq Flags /\ Changes(r, FALSE) \subseteq Flags
  BY DEF FamilyOf, Flags, Changes

\* How handlers and clients change.
LEMMA RequestUpdates ==
    ASSUME NEW q \in RequestRecords
    PROVE  /\ [q EXCEPT !.client = None] \in RequestRecords
           /\ [q EXCEPT !.at = "posted"] \in RequestRecords
           /\ \A u \in Selections :
                 [q EXCEPT !.at = "selected", !.used = u] \in RequestRecords
           /\ \A u \in Configs, cat \in CatalogRecords :
                 [q EXCEPT !.at = "resolved", !.used = u, !.found = cat]
                    \in RequestRecords
           /\ \A to \in SUBSET Users, tell \in SUBSET Flags :
                 [q EXCEPT !.at = "observed", !.to = to, !.tell = tell]
                    \in RequestRecords
           /\ [q EXCEPT !.at = "observed"] \in RequestRecords
           /\ [q EXCEPT !.at = "listening", !.tell = {}, !.to = {}]
                 \in RequestRecords
<1> DEFINE Used == Selections \cup Configs \cup {None}
           Found == CatalogRecords \cup {None}
           Tokens == Requests \cup {None}
           Cfgs == Configs \cup {None}
           Ms == Methods \cup {None}
           Who == Users \cup {None}
           Ats == {"idle", "bridged", "posted", "selected", "resolved", "observed", "listening"}
<1>1. /\ RequestRecords =
            [at : Ats, client : Who, method : Ms, token : Tokens, cfg : Cfgs,
             used : Used, found : Found, tell : SUBSET Flags, to : SUBSET Users]
      /\ None \in Who /\ Selections \subseteq Used /\ Configs \subseteq Used
      /\ CatalogRecords \subseteq Found
      /\ {"posted", "selected", "resolved", "observed", "listening"} \subseteq Ats
  BY DEF RequestRecords
<1> HIDE DEF Used, Found, Tokens, Cfgs, Ms, Who, Ats
<1>2. [q EXCEPT !.client = None] \in RequestRecords
  BY <1>1
<1>3. ASSUME NEW u \in Used
      PROVE  [q EXCEPT !.at = "selected", !.used = u] \in RequestRecords
  BY <1>1
<1>4. ASSUME NEW u \in Used, NEW cat \in Found
      PROVE  [q EXCEPT !.at = "resolved", !.used = u, !.found = cat] \in RequestRecords
  BY <1>1
<1>5. ASSUME NEW to \in SUBSET Users, NEW tell \in SUBSET Flags
      PROVE  [q EXCEPT !.at = "observed", !.to = to, !.tell = tell] \in RequestRecords
  BY <1>1
<1>6. [q EXCEPT !.at = "observed"] \in RequestRecords
  BY <1>1
<1>7. [q EXCEPT !.at = "listening", !.tell = {}, !.to = {}] \in RequestRecords
  BY <1>1
<1>8. [q EXCEPT !.at = "posted"] \in RequestRecords
  BY <1>1
<1> QED BY <1>1, <1>2, <1>3, <1>4, <1>5, <1>6, <1>7, <1>8

LEMMA ClientUpdates ==
    ASSUME NEW h \in ClientRecords
    PROVE  /\ \A f \in SUBSET Flags :
                 /\ [h EXCEPT !.stale = @ \ f] \in ClientRecords
                 /\ [h EXCEPT !.stale = @ \cup f] \in ClientRecords
                 /\ [h EXCEPT !.notices = @ \cup f] \in ClientRecords
           /\ [h EXCEPT !.stale = @ \cup h.notices, !.notices = {}] \in ClientRecords
           /\ [h EXCEPT !.on = TRUE] \in ClientRecords
           /\ \A v \in Views : [h EXCEPT !.listed = v] \in ClientRecords
           /\ \A b \in BOOLEAN \cup {None} : [h EXCEPT !.hidden = b] \in ClientRecords
  BY DEF ClientRecords


----------------------------------------------------------------------------
(* What requests hold.                                                     *)

\* What the bridge hands to a handler, and what the handler makes of it.
LEMMA ConfigForFits ==
    ASSUME Typed, RequestsFit, NEW r \in Requests, request[r].at = "posted"
    PROVE  /\ ConfigFor(r) \in Selections
           /\ Served(r) => ConfigFor(r).cfg = request[r].cfg
           /\ ConfigFor(r).cfg \in Configs
<1>1. /\ request[r].token = r /\ request[r].method \in Methods
      /\ request[r].cfg \in Configs
      /\ Served(r) => selections[r].cfg = request[r].cfg
  BY DEF RequestsFit, RequestFits
<1>2. Family(request[r].cfg, request[r].method) \in Families
  BY <1>1, FamilyFits
<1>3. CASE Served(r)
  BY <1>1, <1>3 DEF Typed, ConfigFor, Selected, Served, Selections
<1>4. CASE ~Served(r)
  BY <1>1, <1>2, <1>4 DEF Typed, ConfigFor, Selected, Served, Selections
<1> QED BY <1>3, <1>4

LEMMA ResolvesFinds ==
    ASSUME Typed, RequestsFit, NEW r \in Requests, Resolves(r)
    PROVE  /\ request[r].used \in Selections /\ request[r].used.cfg \in Configs
           /\ \E cat \in CatalogRecords :
                 /\ cat.cfg = request[r].used.cfg
                 /\ \/ Served(r) /\ selections[r].pending # None
                          /\ cat = selections[r].pending
                    \/ cat.family = IF request[r].method = "call"
                                    THEN Family(request[r].used.cfg, "call")
                                    ELSE request[r].used.family
                 /\ request' = [request EXCEPT ![r] = [request[r] EXCEPT
                       !.at = "resolved", !.used = request[r].used.cfg, !.found = cat]]
<1> DEFINE used == request[r].used
           own == IF Selected(r) THEN selections[request[r].token].pending ELSE None
           family == IF request[r].method = "call" THEN Family(used.cfg, "call")
                     ELSE used.family
           cat == IF own # None THEN own ELSE Get(used.cfg, family)
<1>1. /\ request[r].token = r
      /\ used \in Selections
      /\ Served(r) => used.cfg = request[r].cfg
      /\ Served(r) /\ selections[r].pending # None =>
            selections[r].pending.cfg = request[r].cfg
  BY DEF RequestsFit, RequestFits, Resolves
<1>2. used.cfg \in Configs /\ used.family \in Families
  BY <1>1 DEF Selections
<1>3. family \in Families
  BY <1>2, FamilyFits DEF Methods
<1>4. /\ Get(used.cfg, family) \in CatalogRecords
      /\ Get(used.cfg, family).cfg = used.cfg
      /\ Get(used.cfg, family).family = family
  BY <1>2, <1>3, GetFits DEF Typed
<1>5. own # None => /\ Served(r) /\ own = selections[r].pending
                    /\ own \in CatalogRecords /\ own.cfg = used.cfg
  <2>1. CASE Served(r)
    <3>1. selections[r] \in [cfg : Configs, family : Families,
                             pending : CatalogRecords \cup {None}]
      BY <2>1 DEF Typed, Served
    <3> QED BY <1>1, <2>1, <3>1 DEF Selected, Served
  <2>2. CASE ~Served(r)
    BY <1>1, <2>2 DEF Selected, Served
  <2> QED BY <2>1, <2>2
<1>6. request' = [request EXCEPT ![r] = [request[r] EXCEPT
                    !.at = "resolved", !.used = used.cfg, !.found = cat]]
  BY DEF Resolves
<1>7. cat \in CatalogRecords /\ cat.cfg = used.cfg
  BY <1>4, <1>5
<1>8. \/ Served(r) /\ selections[r].pending # None /\ cat = selections[r].pending
      \/ cat.family = family
  BY <1>4, <1>5
<1> HIDE DEF cat
<1> QED BY <1>1, <1>2, <1>6, <1>7, <1>8

LEMMA SnapshotInSnapshots ==
    ASSUME Typed, RequestsFit, NEW r \in Requests, request[r].at = "resolved"
    PROVE  /\ Snapshot(r) \in Snapshots
           /\ Snapshot(r).cat = request[r].found
           /\ Snapshot(r).search = Snapshot(r).cat.cfg.search
<1>1. /\ request[r].used \in Configs /\ request[r].found \in CatalogRecords
      /\ request[r].found.cfg = request[r].used
  BY DEF RequestsFit, RequestFits
<1>2. request[r].used.search \in BOOLEAN
  BY <1>1, ConfigFields
<1> QED BY <1>1, <1>2 DEF Snapshot, Snapshots

\* setPending keeps what the selections select, and touches one of them.
LEMMA WithPendingFits ==
    ASSUME Typed, NEW t, NEW cat \in CatalogRecords
    PROVE  /\ WithPending(t, cat) \in [DOMAIN selections ->
                  [cfg : Configs, family : Families, pending : CatalogRecords \cup {None}]]
           /\ \A u \in DOMAIN selections :
                 /\ u # t => WithPending(t, cat)[u] = selections[u]
                 /\ WithPending(t, cat)[u].cfg = selections[u].cfg
                 /\ WithPending(t, cat)[u].family = selections[u].family
                 /\ WithPending(t, cat)[u].pending \in {selections[u].pending, cat}
<1> DEFINE S == [cfg : Configs, family : Families, pending : CatalogRecords \cup {None}]
<1>1. \A u \in DOMAIN selections : selections[u] \in S
  BY DEF Typed
<1>2. \A s \in S : /\ [s EXCEPT !.pending = cat] \in S
                   /\ [s EXCEPT !.pending = cat].cfg = s.cfg
                   /\ [s EXCEPT !.pending = cat].family = s.family
                   /\ [s EXCEPT !.pending = cat].pending = cat
  OBVIOUS
<1> HIDE DEF S
<1>3. /\ WithPending(t, cat) \in [DOMAIN selections -> S]
      /\ \A u \in DOMAIN selections :
            WithPending(t, cat)[u] \in {selections[u], [selections[u] EXCEPT !.pending = cat]}
      /\ \A u \in DOMAIN selections : u # t => WithPending(t, cat)[u] = selections[u]
  BY <1>1, <1>2 DEF WithPending
<1> QED BY <1>1, <1>2, <1>3 DEF S

LEMMA DeletedFits ==
    ASSUME Typed, NEW t
    PROVE  /\ Deleted(t) \in [DOMAIN Deleted(t) ->
                  [cfg : Configs, family : Families, pending : CatalogRecords \cup {None}]]
           /\ DOMAIN Deleted(t) \subseteq Requests
  BY DEF Typed, Deleted

\* What a client makes of the notices and the answer of a request.
LEMMA AnsweredFits ==
    ASSUME Typed, RequestsFit, NEW r \in Requests, request[r].at = "observed",
           NEW c \in Users
    PROVE  Answered(r, c) \in ClientRecords
<1> DEFINE q == request[r]
           told == IF c \in q.to /\ client[c].on
                   THEN [client[c] EXCEPT !.notices = @ \cup q.tell] ELSE client[c]
           shown == IF FullTools(q.used, q.method) THEN q.found.pending ELSE None
<1>1. client[c] \in ClientRecords /\ q.tell \in SUBSET Flags
  BY DEF Typed, RequestRecords
<1>2. told \in ClientRecords
  BY <1>1, ClientUpdates
<1>3. q.found \in CatalogRecords
  BY DEF RequestsFit, RequestFits
<1>4. View(q.found) \in Views /\ shown \in BOOLEAN \cup {None}
  BY <1>3 DEF Views, CatalogRecords
<1> DEFINE b == told.on \/ q.method = "listen"
           v == IF q.method = "list" THEN View(q.found) ELSE told.listed
           s == IF q.method = "prompts" THEN shown ELSE told.hidden
<1>5. Answered(r, c) = IF q.client # c THEN told
                       ELSE [told EXCEPT !.on = b, !.listed = v, !.hidden = s]
  BY DEF Answered
<1>6. b \in BOOLEAN /\ v \in Views /\ s \in BOOLEAN \cup {None}
  BY <1>2, <1>4 DEF ClientRecords
<1> HIDE DEF q, told, shown, b, v, s
<1>7. [told EXCEPT !.on = b, !.listed = v, !.hidden = s] \in ClientRecords
  BY <1>2, <1>6 DEF ClientRecords
<1> QED BY <1>2, <1>5, <1>7

LEMMA BaseInit == Init => Base
<1> SUFFICES ASSUME Init PROVE Base
  OBVIOUS
<1> USE RecordFacts, FrontendAssumption
<1>1. \A r \in Requests : request[r] = Idle
  BY DEF Init
<1>2. \A c \in Users : client[c] = [NewClient EXCEPT !.on = c = Session]
  BY DEF Init, Users
<1>3. Idle.at = "idle" /\ Idle.client = None /\ Idle.tell = {} /\ Idle.to = {}
      /\ Idle.method = None
  BY DEF Idle
<1>4. DOMAIN selections = {}
  BY DEF Init
<1>5. Typed
  <2>1. request \in [Requests -> RequestRecords]
    BY IdleFits DEF Init
  <2>2. client \in [Users -> ClientRecords]
    <3>1. \A c \in Users : [NewClient EXCEPT !.on = c = Session] \in ClientRecords
      BY NewClientFits DEF ClientRecords
    <3> QED BY <3>1 DEF Init, Users
  <2>3. late \in Selections
    <3>1. Family(current, "other") \in Families
      BY FamilyFits DEF Init, Methods
    <3>2. "all" \in Families /\ Default \in Configs /\ current \in Configs
      BY DEF Init, Families
    <3>3. \/ late = [cfg |-> Default, family |-> "all"]
          \/ late = [cfg |-> current, family |-> Family(current, "other")]
      BY DEF Init
    <3> QED BY <3>1, <3>2, <3>3 DEF Selections
  <2>4. signedIn \in BOOLEAN
    BY DEF Init
  <2> QED BY <1>4, <2>1, <2>2, <2>3, <2>4 DEF Typed, Init
<1>6. RequestsFit
  BY <1>1, <1>3, <1>4 DEF RequestsFit, RequestFits, Served, Init
<1>7. OneList
  BY <1>1, <1>3 DEF OneList
<1>8. SnapshotFits
  <2>1. \A c \in Users : /\ client[c].on <=> c = Session
                         /\ client[c].stale = Flags /\ client[c].notices = {}
    <3> SUFFICES ASSUME NEW c \in Users
                 PROVE  /\ client[c].on <=> c = Session
                        /\ client[c].stale = Flags /\ client[c].notices = {}
      OBVIOUS
    <3>1. NewClient.stale = Flags /\ NewClient.notices = {}
      BY DEF NewClient, Flags
    <3>2. client[c] = [NewClient EXCEPT !.on = c = Session]
      BY <1>2
    <3>3. client[c].stale = NewClient.stale /\ client[c].notices = NewClient.notices
      BY <3>2 DEF NewClient
    <3>4. client[c].on = (c = Session)
      BY <3>2 DEF NewClient
    <3> QED BY <3>1, <3>3, <3>4
  <2>2. last = None /\ listeners = {} /\ stateful \in BOOLEAN
    BY DEF Init
  <2> QED BY <1>1, <1>3, <2>1, <2>2
           DEF SnapshotFits, LastFits, SessionFits, ListenersCounted, ListenerFits, Users
<1> QED BY <1>5, <1>6, <1>7, <1>8 DEF Base

LEMMA TypedStep == Base /\ [Next]_vars => Typed'
<1> SUFFICES ASSUME Base, [Next]_vars PROVE Typed'
  OBVIOUS
<1> USE RecordFacts DEF userVars
<1>t. Typed
  BY DEF Base
<1>f. RequestsFit
  BY DEF Base
<1>1. ASSUME NEW cfg \in Configs, Edit(cfg)
     PROVE  Typed'
  BY <1>1, <1>t, FrontendAssumption DEF Edit, Typed
<1>2. CASE Sign
  BY <1>2, <1>t, FrontendAssumption DEF Sign, Typed
<1>3. ASSUME NEW r \in Requests, NEW c \in Clients, NEW m \in Methods, Post(r, c, m)
     PROVE  Typed'
  <2> DEFINE selection == [cfg |-> current, family |-> Family(current, m), pending |-> None]
  <2>2. selection \in [cfg : Configs, family : Families,
                       pending : CatalogRecords \cup {None}]
    BY <1>t, FamilyFits DEF Typed
  <2>3. /\ selections' = Put(r, selection)
        /\ request' = [request EXCEPT ![r] =
              [Idle EXCEPT !.at = "bridged", !.client = c, !.method = m,
                           !.token = r, !.cfg = current]]
        /\ client' = [client EXCEPT ![c].stale = @ \ FamilyOf(m)]
        /\ UNCHANGED <<userVars, last, listeners>>
    BY <1>3 DEF Post, Token
  <2>4. [Idle EXCEPT !.at = "bridged", !.client = c, !.method = m,
                     !.token = r, !.cfg = current] \in RequestRecords
    <3>1. /\ c \in Users \cup {None} /\ m \in Methods \cup {None}
          /\ r \in Requests \cup {None} /\ current \in Configs \cup {None}
      BY <1>3, <1>t DEF Typed
    <3> QED BY <3>1, IdleFits DEF Idle, RequestRecords
  <2>5. [client[c] EXCEPT !.stale = @ \ FamilyOf(m)] \in ClientRecords
    <3>1. client[c] \in ClientRecords /\ FamilyOf(m) \in SUBSET Flags
      BY <1>t, FlagsFit DEF Typed
    <3> QED BY <3>1, ClientUpdates
  <2>6. client' \in [Users -> ClientRecords]
    BY <2>3, <2>5, <1>t DEF Typed
  <2>7. request' \in [Requests -> RequestRecords]
    BY <2>3, <2>4, <1>t DEF Typed
  <2>8. /\ selections' \in [DOMAIN selections' ->
                    [cfg : Configs, family : Families, pending : CatalogRecords \cup {None}]]
        /\ DOMAIN selections' \subseteq Requests
    BY <2>2, <2>3, <1>t DEF Typed, Put
  <2> QED BY <2>3, <2>6, <2>7, <2>8, <1>t DEF Typed
<1>4. ASSUME NEW r \in Requests,
             \/ Identifies(r) \/ Departs(r) \/ Selects(r) \/ Resolves(r)
             \/ DiscoveryFails(r) \/ ObservesSession(r) \/ ObservesListeners(r)
             \/ ObservesNothing(r) \/ Responds(r) \/ CleansUp(r)
     PROVE  Typed'
  <2>0. CASE Identifies(r)
    <3> DEFINE cat == Get(request[r].cfg, Family(request[r].cfg, request[r].method))
    <3>1. cat \in CatalogRecords
      BY <2>0, <1>t, <1>f, GetFits, FamilyFits DEF Identifies, RequestsFit, RequestFits, Typed
    <3>2. /\ selections' = WithPending(request[r].token, cat)
          /\ request' = [request EXCEPT ![r] = [request[r] EXCEPT !.at = "posted"]]
          /\ UNCHANGED <<userVars, last, listeners, client>>
      BY <2>0 DEF Identifies
    <3> HIDE DEF cat
    <3>3. request' \in [Requests -> RequestRecords]
      BY <3>2, <1>t, RequestUpdates DEF Typed
    <3>4. selections' \in [DOMAIN selections ->
                [cfg : Configs, family : Families, pending : CatalogRecords \cup {None}]]
      BY <3>1, <3>2, <1>t, WithPendingFits
    <3> QED BY <3>2, <3>3, <3>4, <1>t DEF Typed
  <2>1. CASE Departs(r)
    <3>1. request' = [request EXCEPT ![r] = [request[r] EXCEPT !.client = None]]
      BY <2>1 DEF Departs
    <3>2. request' \in [Requests -> RequestRecords]
      BY <3>1, <1>t, RequestUpdates DEF Typed
    <3>3. request[r].client \in Users
      BY <2>1, <1>t DEF Departs, Typed, RequestRecords
    <3>4. \A h \in ClientRecords :
             [h EXCEPT !.stale = @ \cup FamilyOf(request[r].method)] \in ClientRecords
      BY ClientUpdates, FlagsFit
    <3>5. client' \in [Users -> ClientRecords]
      <4> DEFINE c == request[r].client
                 left == IF request[r].method = "listen" THEN NewClient
                         ELSE [client[c] EXCEPT !.stale = @ \cup FamilyOf(request[r].method)]
      <4>1. client' = [client EXCEPT ![c] = left]
        <5>1. CASE request[r].method = "listen"
          BY <2>1, <5>1 DEF Departs
        <5>2. CASE request[r].method # "listen"
          <6>1. left = [client[c] EXCEPT !.stale = @ \cup FamilyOf(request[r].method)]
            BY <5>2
          <6>2. client' = [client EXCEPT ![c] =
                   IF request[r].method = "listen" THEN NewClient
                   ELSE [client[c] EXCEPT !.stale = @ \cup FamilyOf(request[r].method)]]
            BY <2>1 DEF Departs
          <6> QED BY <6>1, <6>2, <5>2
        <5> QED BY <5>1, <5>2
      <4>2. client[c] \in ClientRecords
        BY <3>3, <1>t DEF Typed
      <4>3. left \in ClientRecords
        BY <3>4, <4>2, NewClientFits
      <4> HIDE DEF left
      <4> QED BY <4>1, <4>3, <1>t DEF Typed
    <3>6. selections' = Deleted(request[r].token)
      BY <2>1 DEF Departs
    <3> QED BY <2>1, <3>2, <3>5, <3>6, <1>t, DeletedFits DEF Departs, Typed
  <2>2. CASE Selects(r)
    <3>1. ConfigFor(r) \in Selections
      BY <2>2, <1>t, <1>f, ConfigForFits DEF Selects
    <3>2. request' = [request EXCEPT ![r] =
                         [request[r] EXCEPT !.at = "selected", !.used = ConfigFor(r)]]
      BY <2>2 DEF Selects
    <3>3. request' \in [Requests -> RequestRecords]
      BY <3>1, <3>2, <1>t, RequestUpdates DEF Typed
    <3> QED BY <2>2, <3>3, <1>t DEF Selects, Typed
  <2>3. CASE Resolves(r)
    <3>1. PICK cat \in CatalogRecords :
             /\ request[r].used.cfg \in Configs
             /\ request' = [request EXCEPT ![r] = [request[r] EXCEPT
                   !.at = "resolved", !.used = request[r].used.cfg, !.found = cat]]
      BY <2>3, <1>t, <1>f, ResolvesFinds
    <3>2. request' \in [Requests -> RequestRecords]
      BY <3>1, <1>t, RequestUpdates DEF Typed
    <3> QED BY <2>3, <3>2, <1>t DEF Resolves, Typed
  <2>4. CASE DiscoveryFails(r)
    <3>1. request' \in [Requests -> RequestRecords]
      BY <2>4, <1>t, IdleFits DEF DiscoveryFails, Typed
    <3>2. \A h \in ClientRecords :
             [h EXCEPT !.stale = @ \cup FamilyOf(request[r].method)] \in ClientRecords
      BY ClientUpdates, FlagsFit
    <3>3. request[r].client \in Users \cup {None}
      BY <1>t DEF Typed, RequestRecords
    <3>4. client' \in [Users -> ClientRecords]
      BY <2>4, <3>2, <3>3, <1>t DEF DiscoveryFails, Typed
    <3>5. selections' = Deleted(request[r].token)
      BY <2>4 DEF DiscoveryFails
    <3> QED BY <2>4, <3>1, <3>4, <3>5, <1>t, DeletedFits DEF DiscoveryFails, Typed
  <2>5. CASE ObservesSession(r)
    <3>1. request' = [request EXCEPT ![r] = [request[r] EXCEPT
             !.at = "observed", !.to = Addressed({Session}, Changes(r, FALSE)),
             !.tell = Changes(r, FALSE)]]
      BY <2>5 DEF ObservesSession
    <3>2. /\ Addressed({Session}, Changes(r, FALSE)) \in SUBSET Users
          /\ Changes(r, FALSE) \in SUBSET Flags
      BY FlagsFit DEF Users, Addressed
    <3>3. request' \in [Requests -> RequestRecords]
      BY <3>1, <3>2, <1>t, RequestUpdates DEF Typed
    <3>4. Snapshot(r) \in Snapshots
      BY <2>5, <1>t, <1>f, SnapshotInSnapshots DEF ObservesSession
    <3> QED BY <2>5, <3>3, <3>4, <1>t DEF ObservesSession, Typed
  <2>6. CASE ObservesListeners(r)
    <3>1. request' = [request EXCEPT ![r] = [request[r] EXCEPT
             !.at = "observed", !.to = Addressed(listeners, Changes(r, TRUE)),
             !.tell = Changes(r, TRUE)]]
      BY <2>6 DEF ObservesListeners
    <3>2. /\ Addressed(listeners, Changes(r, TRUE)) \in SUBSET Users
          /\ Changes(r, TRUE) \in SUBSET Flags
      BY <1>t, FlagsFit DEF Users, Addressed, Typed
    <3>3. request' \in [Requests -> RequestRecords]
      BY <3>1, <3>2, <1>t, RequestUpdates DEF Typed
    <3>4. Snapshot(r) \in Snapshots
      BY <2>6, <1>t, <1>f, SnapshotInSnapshots DEF ObservesListeners
    <3>5. request[r].method = "listen" => r \in Listeners
      BY <2>6, <1>f DEF ObservesListeners, RequestsFit, RequestFits
    <3> QED BY <2>6, <3>3, <3>4, <3>5, <1>t DEF ObservesListeners, Typed
  <2>7. CASE ObservesNothing(r)
    <3>1. request' \in [Requests -> RequestRecords]
      BY <2>7, <1>t, RequestUpdates DEF ObservesNothing, Typed
    <3> QED BY <2>7, <3>1, <1>t DEF ObservesNothing, Typed
  <2>8. CASE Responds(r)
    <3>1. request' \in [Requests -> RequestRecords]
      BY <2>8, <1>t, RequestUpdates, IdleFits DEF Responds, Typed
    <3>2. \A c \in Users : Answered(r, c) \in ClientRecords
      BY <2>8, <1>t, <1>f, AnsweredFits DEF Responds
    <3>3. client' \in [Users -> ClientRecords]
      BY <2>8, <3>2, <1>t DEF Responds, Typed
    <3>4. selections' = selections \/ selections' = Deleted(request[r].token)
      BY <2>8 DEF Responds
    <3> QED BY <2>8, <3>1, <3>3, <3>4, <1>t, DeletedFits DEF Responds, Typed
  <2>9. CASE CleansUp(r)
    <3>1. request' \in [Requests -> RequestRecords]
      BY <2>9, <1>t, IdleFits DEF CleansUp, Typed
    <3> QED BY <2>9, <3>1, <1>t DEF CleansUp, Typed
  <2> QED BY <1>4, <2>0, <2>1, <2>2, <2>3, <2>4, <2>5, <2>6, <2>7, <2>8, <2>9
<1>5. ASSUME NEW c \in Clients, Deliver(c)
     PROVE  Typed'
  <2>1. client' = [client EXCEPT ![c] =
           [client[c] EXCEPT !.stale = client[c].stale \cup client[c].notices, !.notices = {}]]
    BY <1>5 DEF Deliver
  <2>2. client' \in [Users -> ClientRecords]
    BY <2>1, <1>t, ClientUpdates DEF Typed
  <2> QED BY <1>5, <2>2, <1>t DEF Deliver, Typed
<1>6. CASE UNCHANGED vars
  BY <1>6, <1>t DEF vars, userVars, Typed
<1> QED BY <1>1, <1>2, <1>3, <1>4, <1>5, <1>6 DEF Next, Methods

----------------------------------------------------------------------------
(* What each action does, field by field.                                  *)

SameRequest(x) ==
    /\ request'[x] = request[x]
    /\ x \in DOMAIN selections' <=> x \in DOMAIN selections
    /\ x \in DOMAIN selections => selections'[x] = selections[x]
Handles(r) ==
    /\ \A x \in Requests \ {r} : SameRequest(x)
    /\ stateful' = stateful /\ current' = current /\ late' = late

SameSelection(r) ==
    /\ r \in DOMAIN selections' <=> r \in DOMAIN selections
    /\ r \in DOMAIN selections => selections'[r] = selections[r]
SameOrigin(r) ==
    /\ request'[r].client = request[r].client
    /\ request'[r].method = request[r].method
    /\ request'[r].token = request[r].token
    /\ request'[r].cfg = request[r].cfg
SameFinding(r) ==
    /\ request'[r].used = request[r].used
    /\ request'[r].found = request[r].found
SameNotice(r) ==
    /\ request'[r].tell = request[r].tell
    /\ request'[r].to = request[r].to
Ends(r) == request'[r] = Idle /\ r \notin DOMAIN selections'

\* Only what a client must list again changes for it.
OthersKeep(c) == \A x \in Users \ {c} : client'[x] = client[x]
OnlyStale(c) ==
    /\ client'[c].on = client[c].on
    /\ client'[c].listed = client[c].listed
    /\ client'[c].hidden = client[c].hidden
    /\ client'[c].notices = client[c].notices

LEMMA TokenIsOwn ==
    ASSUME Base, NEW r \in Requests, request[r].at # "idle"
    PROVE  /\ request[r].token = r
           /\ \A x \in Requests : x # r =>
                 /\ x \in DOMAIN Deleted(request[r].token) <=> x \in DOMAIN selections
                 /\ x \in DOMAIN selections =>
                       Deleted(request[r].token)[x] = selections[x]
           /\ r \notin DOMAIN Deleted(request[r].token)
<1>1. request[r].token = r
  BY DEF Base, RequestsFit, RequestFits
<1> QED BY <1>1 DEF Deleted

LEMMA PostEffect ==
    ASSUME Base, NEW r \in Requests, NEW c \in Clients, NEW m \in Methods,
           Post(r, c, m)
    PROVE  /\ Handles(r) /\ last' = last /\ listeners' = listeners
           /\ request[r].at = "idle"
           /\ m = "listen" => r = c /\ ~stateful
           /\ m # "listen" => client[c].on /\ r \in Posts \cup Others
           /\ FamilyOf(m) # {} => \A q \in Requests :
                 request[q].client = c => request[q].method # m
           /\ request'[r].at = "bridged" /\ request'[r].client = c
           /\ request'[r].method = m /\ request'[r].token = r
           /\ request'[r].cfg = current
           /\ request'[r].tell = {} /\ request'[r].to = {}
           /\ r \in DOMAIN selections'
           /\ selections'[r].cfg = current
           /\ selections'[r].family = Family(current, m)
           /\ selections'[r].pending = None
           /\ OthersKeep(c) /\ OnlyStale(c)
           /\ client'[c].stale = client[c].stale \ FamilyOf(m)
<1> DEFINE selection == [cfg |-> current, family |-> Family(current, m), pending |-> None]
<1> USE RecordFacts
<1>t. Typed
  BY DEF Base
<1>2. /\ selection.cfg = current /\ selection.family = Family(current, m)
      /\ selection.pending = None
  OBVIOUS
<1>3. /\ selections' = Put(r, selection)
      /\ request' = [request EXCEPT ![r] =
            [Idle EXCEPT !.at = "bridged", !.client = c, !.method = m,
                         !.token = r, !.cfg = current]]
      /\ client' = [client EXCEPT ![c] =
            [client[c] EXCEPT !.stale = @ \ FamilyOf(m)]]
      /\ UNCHANGED <<userVars, last, listeners>>
  BY DEF Post, Token
<1> HIDE DEF selection
<1>4. Handles(r)
  BY <1>3, <1>t DEF Handles, SameRequest, Typed, userVars, Put
<1>5. /\ r \in DOMAIN selections' /\ selections'[r] = selection
  BY <1>3 DEF Put
<1>6. request'[r] = [Idle EXCEPT !.at = "bridged", !.client = c, !.method = m,
                                 !.token = r, !.cfg = current]
  BY <1>3, <1>t DEF Typed
<1>7. /\ request'[r].at = "bridged" /\ request'[r].client = c
      /\ request'[r].method = m /\ request'[r].token = r
      /\ request'[r].cfg = current
      /\ request'[r].tell = {} /\ request'[r].to = {}
  BY <1>6 DEF Idle
<1>8. /\ OthersKeep(c)
      /\ client'[c] = [client[c] EXCEPT !.stale = @ \ FamilyOf(m)]
  BY <1>3, <1>t DEF Typed, OthersKeep
<1>9. OnlyStale(c) /\ client'[c].stale = client[c].stale \ FamilyOf(m)
  <2>1. client[c] \in ClientRecords
    BY <1>t DEF Typed
  <2> QED BY <1>8, <2>1 DEF OnlyStale, ClientRecords
<1>10. /\ request[r].at = "idle"
       /\ m = "listen" => r = c /\ ~stateful
       /\ m # "listen" => client[c].on /\ r \in Posts \cup Others
       /\ FamilyOf(m) # {} => \A q \in Requests :
             request[q].client = c => request[q].method # m
  BY DEF Post
<1> QED BY <1>2, <1>3, <1>4, <1>5, <1>7, <1>8, <1>9, <1>10

LEMMA IdentifiesEffect ==
    ASSUME Base, NEW r \in Requests, Identifies(r)
    PROVE  /\ Handles(r) /\ last' = last /\ listeners' = listeners /\ client' = client
           /\ request[r].at = "bridged" /\ request'[r].at = "posted"
           /\ SameOrigin(r) /\ SameFinding(r) /\ SameNotice(r)
           /\ r \in DOMAIN selections' <=> r \in DOMAIN selections
           /\ r \in DOMAIN selections =>
                 /\ selections'[r].cfg = selections[r].cfg
                 /\ selections'[r].family = selections[r].family
                 /\ \/ selections'[r].pending = selections[r].pending
                    \/ /\ selections'[r].pending.cfg = request[r].cfg
                       /\ selections'[r].pending.family =
                             Family(request[r].cfg, request[r].method)
<1> DEFINE cat == Get(request[r].cfg, Family(request[r].cfg, request[r].method))
<1>t. Typed /\ RequestsFit
  BY DEF Base
<1>1. /\ request[r].at = "bridged" /\ request[r].token = r
      /\ selections' = WithPending(r, cat)
      /\ request' = [request EXCEPT ![r] = [request[r] EXCEPT !.at = "posted"]]
      /\ UNCHANGED <<userVars, last, listeners, client>>
  BY <1>t DEF Identifies, RequestsFit, RequestFits
<1>2. /\ cat \in CatalogRecords /\ cat.cfg = request[r].cfg
      /\ cat.family = Family(request[r].cfg, request[r].method)
  BY <1>1, <1>t, GetFits, FamilyFits DEF RequestsFit, RequestFits, Typed
<1> HIDE DEF cat
<1>3. /\ DOMAIN selections' = DOMAIN selections
      /\ \A u \in DOMAIN selections :
            /\ u # r => selections'[u] = selections[u]
            /\ selections'[u].cfg = selections[u].cfg
            /\ selections'[u].family = selections[u].family
            /\ selections'[u].pending \in {selections[u].pending, cat}
  BY <1>1, <1>2, <1>t, WithPendingFits
<1>4. Handles(r)
  BY <1>1, <1>3, <1>t DEF Handles, SameRequest, Typed, userVars
<1>5. request'[r] = [request[r] EXCEPT !.at = "posted"] /\ request[r] \in RequestRecords
  BY <1>1, <1>t DEF Typed
<1>6. /\ request'[r].at = "posted"
      /\ SameOrigin(r) /\ SameFinding(r) /\ SameNotice(r)
  BY <1>5 DEF RequestRecords, SameOrigin, SameFinding, SameNotice
<1> QED BY <1>1, <1>2, <1>3, <1>4, <1>6

LEMMA DepartsEffect ==
    ASSUME Base, NEW r \in Requests, Departs(r)
    PROVE  /\ Handles(r) /\ last' = last /\ listeners' = listeners
           /\ request[r].at \in {"posted", "selected", "resolved", "listening"}
           /\ request[r].client \in Users /\ request'[r].client = None
           /\ stateful => request[r].method \in Outlived
           /\ request'[r].at = request[r].at
           /\ request'[r].method = request[r].method
           /\ request'[r].token = request[r].token
           /\ request'[r].cfg = request[r].cfg
           /\ SameFinding(r) /\ SameNotice(r)
           /\ r \notin DOMAIN selections'
           /\ OthersKeep(request[r].client)
           /\ IF request[r].method = "listen"
              THEN client'[request[r].client] = NewClient
              ELSE /\ OnlyStale(request[r].client)
                   /\ client'[request[r].client].stale =
                         client[request[r].client].stale \cup FamilyOf(request[r].method)
<1> DEFINE c == request[r].client
<1> USE RecordFacts
<1>t. Typed
  BY DEF Base
<1>1. /\ request[r].at \in {"posted", "selected", "resolved", "listening"}
      /\ c # None
      /\ stateful => request[r].method \in Outlived
      /\ selections' = Deleted(request[r].token)
      /\ request' = [request EXCEPT ![r] = [request[r] EXCEPT !.client = None]]
      /\ UNCHANGED <<userVars, last, listeners>>
  BY DEF Departs
<1>2. request[r] \in RequestRecords
  BY <1>t DEF Typed
<1>3. c \in Users
  BY <1>1, <1>2 DEF RequestRecords
<1>4. Handles(r) /\ r \notin DOMAIN selections'
  BY <1>1, <1>t, TokenIsOwn DEF Handles, SameRequest, Typed, userVars
<1>5. request'[r] = [request[r] EXCEPT !.client = None]
  BY <1>1, <1>t DEF Typed
<1>6. /\ request'[r].client = None
      /\ request'[r].at = request[r].at
      /\ request'[r].method = request[r].method
      /\ request'[r].token = request[r].token
      /\ request'[r].cfg = request[r].cfg
      /\ SameFinding(r) /\ SameNotice(r)
  BY <1>2, <1>5 DEF RequestRecords, SameFinding, SameNotice
<1>7. OthersKeep(c)
  BY <1>3, <1>t DEF Departs, Typed, OthersKeep
<1>8. CASE request[r].method = "listen"
  <2>1. client'[c] = NewClient
    BY <1>3, <1>8, <1>t DEF Departs, Typed
  <2> QED BY <1>1, <1>3, <1>4, <1>6, <1>7, <1>8, <2>1
<1>9. CASE request[r].method # "listen"
  <2>1. client'[c] = [client[c] EXCEPT !.stale = @ \cup FamilyOf(request[r].method)]
    BY <1>3, <1>9, <1>t DEF Departs, Typed
  <2>2. client[c] \in ClientRecords
    BY <1>3, <1>t DEF Typed
  <2>3. /\ OnlyStale(c)
        /\ client'[c].stale = client[c].stale \cup FamilyOf(request[r].method)
    BY <2>1, <2>2 DEF OnlyStale, ClientRecords
  <2> QED BY <1>1, <1>3, <1>4, <1>6, <1>7, <1>9, <2>3
<1> QED BY <1>8, <1>9

LEMMA SelectsEffect ==
    ASSUME Base, NEW r \in Requests, Selects(r)
    PROVE  /\ Handles(r) /\ last' = last /\ listeners' = listeners /\ client' = client
           /\ request[r].at = "posted" /\ request'[r].at = "selected"
           /\ request'[r].used = ConfigFor(r)
           /\ SameOrigin(r) /\ SameNotice(r) /\ SameSelection(r)
<1>t. Typed
  BY DEF Base
<1>1. /\ request[r].at = "posted"
      /\ request' = [request EXCEPT ![r] =
            [request[r] EXCEPT !.at = "selected", !.used = ConfigFor(r)]]
      /\ UNCHANGED <<userVars, selections, last, listeners, client>>
  BY DEF Selects
<1>2. Handles(r) /\ SameSelection(r)
  BY <1>1, <1>t DEF Handles, SameRequest, SameSelection, Typed, userVars
<1>3. request'[r] = [request[r] EXCEPT !.at = "selected", !.used = ConfigFor(r)]
  BY <1>1, <1>t DEF Typed
<1>4. request[r] \in RequestRecords
  BY <1>t DEF Typed
<1>5. /\ request'[r].at = "selected" /\ request'[r].used = ConfigFor(r)
      /\ SameOrigin(r) /\ SameNotice(r)
  BY <1>3, <1>4 DEF RequestRecords, SameOrigin, SameNotice
<1> QED BY <1>1, <1>2, <1>5

LEMMA ResolvesEffect ==
    ASSUME Base, NEW r \in Requests, Resolves(r)
    PROVE  /\ Handles(r) /\ last' = last /\ listeners' = listeners /\ client' = client
           /\ request[r].at = "selected" /\ request'[r].at = "resolved"
           /\ request[r].used \in Selections
           /\ request'[r].used = request[r].used.cfg
           /\ request'[r].used \in Configs
           /\ request'[r].found \in CatalogRecords
           /\ request'[r].found.cfg = request'[r].used
           /\ \/ Served(r) /\ selections[r].pending # None
                    /\ request'[r].found = selections[r].pending
              \/ request'[r].found.family =
                    IF request[r].method = "call"
                    THEN Family(request[r].used.cfg, "call") ELSE request[r].used.family
           /\ SameOrigin(r) /\ SameNotice(r) /\ SameSelection(r)
<1>t. Typed /\ RequestsFit
  BY DEF Base
<1>1. /\ request[r].at = "selected"
      /\ UNCHANGED <<userVars, selections, last, listeners, client>>
  BY DEF Resolves
<1>2. PICK cat \in CatalogRecords :
         /\ cat.cfg = request[r].used.cfg
         /\ \/ Served(r) /\ selections[r].pending # None
                  /\ cat = selections[r].pending
            \/ cat.family = IF request[r].method = "call"
                            THEN Family(request[r].used.cfg, "call")
                            ELSE request[r].used.family
         /\ request' = [request EXCEPT ![r] = [request[r] EXCEPT
               !.at = "resolved", !.used = request[r].used.cfg, !.found = cat]]
  BY <1>t, ResolvesFinds
<1>3. request[r].used \in Selections /\ request[r].used.cfg \in Configs
  BY <1>t, ResolvesFinds
<1>4. Handles(r) /\ SameSelection(r)
  BY <1>1, <1>2, <1>t DEF Handles, SameRequest, SameSelection, Typed, userVars
<1>5. request'[r] = [request[r] EXCEPT
               !.at = "resolved", !.used = request[r].used.cfg, !.found = cat]
  BY <1>2, <1>t DEF Typed
<1>6. request[r] \in RequestRecords
  BY <1>t DEF Typed
<1>7. /\ request'[r].at = "resolved" /\ request'[r].used = request[r].used.cfg
      /\ request'[r].found = cat
      /\ SameOrigin(r) /\ SameNotice(r)
  BY <1>5, <1>6 DEF RequestRecords, SameOrigin, SameNotice
<1> QED BY <1>1, <1>2, <1>3, <1>4, <1>7

LEMMA DiscoveryFailsEffect ==
    ASSUME Base, NEW r \in Requests, DiscoveryFails(r)
    PROVE  /\ Handles(r) /\ last' = last /\ listeners' = listeners
           /\ request[r].at \in {"bridged", "selected"} /\ Ends(r)
           /\ request[r].client = None => client' = client
           /\ request[r].client # None =>
                 /\ request[r].client \in Users
                 /\ OthersKeep(request[r].client) /\ OnlyStale(request[r].client)
                 /\ client'[request[r].client].stale =
                       client[request[r].client].stale \cup FamilyOf(request[r].method)
<1> DEFINE c == request[r].client
<1>t. Typed
  BY DEF Base
<1>1. /\ request[r].at \in {"bridged", "selected"}
      /\ request' = [request EXCEPT ![r] = Idle]
      /\ selections' = Deleted(request[r].token)
      /\ UNCHANGED <<userVars, last, listeners>>
  BY DEF DiscoveryFails
<1>2. Handles(r) /\ Ends(r)
  BY <1>1, <1>t, TokenIsOwn DEF Handles, SameRequest, Ends, Typed, userVars
<1>3. CASE c = None
  BY <1>1, <1>2, <1>3 DEF DiscoveryFails
<1>4. CASE c # None
  <2>1. c \in Users
    BY <1>4, <1>t DEF Typed, RequestRecords
  <2>2. client' = [client EXCEPT ![c] =
           [client[c] EXCEPT !.stale = @ \cup FamilyOf(request[r].method)]]
    BY <1>4 DEF DiscoveryFails
  <2>3. /\ OthersKeep(c)
        /\ client'[c] = [client[c] EXCEPT !.stale = @ \cup FamilyOf(request[r].method)]
    BY <2>1, <2>2, <1>t DEF Typed, OthersKeep
  <2>4. client[c] \in ClientRecords
    BY <2>1, <1>t DEF Typed
  <2>5. /\ OnlyStale(c)
        /\ client'[c].stale = client[c].stale \cup FamilyOf(request[r].method)
    BY <2>3, <2>4 DEF OnlyStale, ClientRecords
  <2> QED BY <1>1, <1>2, <1>4, <2>1, <2>3, <2>5
<1> QED BY <1>3, <1>4


Compared(r) ==
    /\ request[r].at = "resolved" /\ request'[r].at = "observed"
    /\ request[r].used \in Configs /\ request[r].found \in CatalogRecords
    /\ request[r].found.cfg = request[r].used
    /\ SameOrigin(r) /\ SameFinding(r) /\ SameSelection(r)

LEMMA ObservesSessionEffect ==
    ASSUME Base, NEW r \in Requests, ObservesSession(r)
    PROVE  /\ Handles(r) /\ Compared(r) /\ listeners' = listeners /\ client' = client
           /\ stateful /\ FullTools(request[r].used, request[r].method)
           /\ request'[r].to = Addressed({Session}, Changes(r, FALSE))
           /\ request'[r].tell = Changes(r, FALSE)
           /\ last' \in Snapshots /\ last'.cat = request[r].found
           /\ last'.search = last'.cat.cfg.search
<1>t. Typed /\ RequestsFit
  BY DEF Base
<1>1. /\ request[r].at = "resolved" /\ stateful
      /\ FullTools(request[r].used, request[r].method)
      /\ request' = [request EXCEPT ![r] = [request[r] EXCEPT
            !.at = "observed", !.to = Addressed({Session}, Changes(r, FALSE)),
            !.tell = Changes(r, FALSE)]]
      /\ last' = Snapshot(r)
      /\ UNCHANGED <<userVars, selections, listeners, client>>
  BY DEF ObservesSession
<1>2. Handles(r) /\ SameSelection(r)
  BY <1>1, <1>t DEF Handles, SameRequest, SameSelection, Typed, userVars
<1>3. request'[r] = [request[r] EXCEPT
            !.at = "observed", !.to = Addressed({Session}, Changes(r, FALSE)),
            !.tell = Changes(r, FALSE)]
  BY <1>1, <1>t DEF Typed
<1>4. request[r] \in RequestRecords
  BY <1>t DEF Typed
<1>5. /\ request'[r].at = "observed"
      /\ request'[r].to = Addressed({Session}, Changes(r, FALSE))
      /\ request'[r].tell = Changes(r, FALSE)
      /\ SameOrigin(r) /\ SameFinding(r)
  BY <1>3, <1>4 DEF RequestRecords, SameOrigin, SameFinding
<1>6. /\ last' \in Snapshots /\ last'.cat = request[r].found
      /\ last'.search = last'.cat.cfg.search
  BY <1>1, <1>t, SnapshotInSnapshots
<1>7. /\ request[r].used \in Configs /\ request[r].found \in CatalogRecords
      /\ request[r].found.cfg = request[r].used
  BY <1>1, <1>t DEF RequestsFit, RequestFits
<1> QED BY <1>1, <1>2, <1>5, <1>6, <1>7 DEF Compared

LEMMA ObservesListenersEffect ==
    ASSUME Base, NEW r \in Requests, ObservesListeners(r)
    PROVE  /\ Handles(r) /\ Compared(r) /\ client' = client
           /\ ~stateful /\ FullTools(request[r].used, request[r].method)
           /\ request'[r].to = Addressed(listeners, Changes(r, TRUE))
           /\ request'[r].tell = Changes(r, TRUE)
           /\ IF request[r].method = "listen" \/ last # None
              THEN /\ last' \in Snapshots /\ last'.cat = request[r].found
                   /\ last'.search = last'.cat.cfg.search
              ELSE last' = None
           /\ listeners' = IF request[r].method = "listen" THEN listeners \cup {r}
                           ELSE listeners
<1>t. Typed /\ RequestsFit
  BY DEF Base
<1>1. /\ request[r].at = "resolved" /\ ~stateful
      /\ FullTools(request[r].used, request[r].method)
      /\ request' = [request EXCEPT ![r] = [request[r] EXCEPT
            !.at = "observed", !.to = Addressed(listeners, Changes(r, TRUE)),
            !.tell = Changes(r, TRUE)]]
      /\ last' = IF request[r].method = "listen" \/ last # None THEN Snapshot(r) ELSE None
      /\ listeners' = IF request[r].method = "listen" THEN listeners \cup {r}
                      ELSE listeners
      /\ UNCHANGED <<userVars, selections, client>>
  BY DEF ObservesListeners
<1>2. Handles(r) /\ SameSelection(r)
  BY <1>1, <1>t DEF Handles, SameRequest, SameSelection, Typed, userVars
<1>3. request'[r] = [request[r] EXCEPT
            !.at = "observed", !.to = Addressed(listeners, Changes(r, TRUE)),
            !.tell = Changes(r, TRUE)]
  BY <1>1, <1>t DEF Typed
<1>4. request[r] \in RequestRecords
  BY <1>t DEF Typed
<1>5. /\ request'[r].at = "observed"
      /\ request'[r].to = Addressed(listeners, Changes(r, TRUE))
      /\ request'[r].tell = Changes(r, TRUE)
      /\ SameOrigin(r) /\ SameFinding(r)
  BY <1>3, <1>4 DEF RequestRecords, SameOrigin, SameFinding
<1>6. /\ Snapshot(r) \in Snapshots /\ Snapshot(r).cat = request[r].found
      /\ Snapshot(r).search = Snapshot(r).cat.cfg.search
  BY <1>1, <1>t, SnapshotInSnapshots
<1>7. /\ request[r].used \in Configs /\ request[r].found \in CatalogRecords
      /\ request[r].found.cfg = request[r].used
  BY <1>1, <1>t DEF RequestsFit, RequestFits
<1> QED BY <1>1, <1>2, <1>5, <1>6, <1>7 DEF Compared

LEMMA ObservesNothingEffect ==
    ASSUME Base, NEW r \in Requests, ObservesNothing(r)
    PROVE  /\ Handles(r) /\ Compared(r) /\ last' = last /\ listeners' = listeners
           /\ client' = client
           /\ ~FullTools(request[r].used, request[r].method)
           /\ SameNotice(r)
<1>t. Typed /\ RequestsFit
  BY DEF Base
<1>1. /\ request[r].at = "resolved"
      /\ ~FullTools(request[r].used, request[r].method)
      /\ request' = [request EXCEPT ![r] = [request[r] EXCEPT !.at = "observed"]]
      /\ UNCHANGED <<userVars, selections, last, listeners, client>>
  BY DEF ObservesNothing
<1>2. Handles(r) /\ SameSelection(r)
  BY <1>1, <1>t DEF Handles, SameRequest, SameSelection, Typed, userVars
<1>3. request'[r] = [request[r] EXCEPT !.at = "observed"]
  BY <1>1, <1>t DEF Typed
<1>4. request[r] \in RequestRecords
  BY <1>t DEF Typed
<1>5. /\ request'[r].at = "observed" /\ SameNotice(r)
      /\ SameOrigin(r) /\ SameFinding(r)
  BY <1>3, <1>4 DEF RequestRecords, SameOrigin, SameFinding, SameNotice
<1>7. /\ request[r].used \in Configs /\ request[r].found \in CatalogRecords
      /\ request[r].found.cfg = request[r].used
  BY <1>1, <1>t DEF RequestsFit, RequestFits
<1> QED BY <1>1, <1>2, <1>5, <1>7 DEF Compared

\* What the answer of request r leaves a client c with.
AnswerEffect(r, c) ==
    /\ client'[c].stale = client[c].stale
    /\ client'[c].notices = IF c \in request[r].to /\ client[c].on
                            THEN client[c].notices \cup request[r].tell
                            ELSE client[c].notices
    /\ client'[c].on = (\/ client[c].on
                        \/ request[r].client = c /\ request[r].method = "listen")
    /\ client'[c].listed = IF request[r].client = c /\ request[r].method = "list"
                           THEN View(request[r].found) ELSE client[c].listed
    /\ client'[c].hidden = IF request[r].client = c /\ request[r].method = "prompts"
                           THEN IF FullTools(request[r].used, request[r].method)
                                THEN request[r].found.pending ELSE None
                           ELSE client[c].hidden

LEMMA AnswerFields ==
    ASSUME Typed, NEW r \in Requests, NEW c \in Users, client'[c] = Answered(r, c)
    PROVE  AnswerEffect(r, c)
<1> DEFINE q == request[r]
           told == IF c \in q.to /\ client[c].on
                   THEN [client[c] EXCEPT !.notices = @ \cup q.tell] ELSE client[c]
           shown == IF FullTools(q.used, q.method) THEN q.found.pending ELSE None
           b == told.on \/ q.method = "listen"
           v == IF q.method = "list" THEN View(q.found) ELSE told.listed
           s == IF q.method = "prompts" THEN shown ELSE told.hidden
<1>1. client[c] \in ClientRecords /\ q.tell \in SUBSET Flags
  BY DEF Typed, RequestRecords
<1>2. /\ told \in ClientRecords
      /\ told.on = client[c].on /\ told.stale = client[c].stale
      /\ told.listed = client[c].listed /\ told.hidden = client[c].hidden
      /\ told.notices = IF c \in q.to /\ client[c].on
                        THEN client[c].notices \cup q.tell ELSE client[c].notices
  <2>1. CASE c \in q.to /\ client[c].on
    <3>1. told = [client[c] EXCEPT !.notices = @ \cup q.tell]
      BY <2>1
    <3>2. told \in ClientRecords
      BY <1>1, <3>1, ClientUpdates
    <3> HIDE DEF told, q
    <3> QED BY <1>1, <2>1, <3>1, <3>2 DEF ClientRecords
  <2>2. CASE ~(c \in q.to /\ client[c].on)
    BY <1>1, <2>2
  <2> QED BY <2>1, <2>2
<1>3. client'[c] = IF q.client # c THEN told
                   ELSE [told EXCEPT !.on = b, !.listed = v, !.hidden = s]
  BY DEF Answered
<1>4. b = (client[c].on \/ q.method = "listen")
      /\ v = (IF q.method = "list" THEN View(q.found) ELSE client[c].listed)
      /\ s = (IF q.method = "prompts" THEN shown ELSE client[c].hidden)
  BY <1>2
<1>5. CASE q.client # c
  <2>1. client'[c] = told
    BY <1>3, <1>5
  <2>2. client[c].on = (client[c].on \/ (q.client = c /\ q.method = "listen"))
    BY <1>1, <1>5 DEF ClientRecords
  <2> HIDE DEF told
  <2> QED BY <1>2, <1>5, <2>1, <2>2 DEF AnswerEffect
<1>6. CASE q.client = c
  <2>1. client'[c] = [told EXCEPT !.on = b, !.listed = v, !.hidden = s]
    BY <1>3, <1>6
  <2> HIDE DEF told, b, v, s
  <2>2. /\ client'[c].on = b /\ client'[c].listed = v /\ client'[c].hidden = s
        /\ client'[c].stale = told.stale /\ client'[c].notices = told.notices
    BY <1>2, <2>1 DEF ClientRecords
  <2> QED BY <1>2, <1>4, <1>6, <2>2 DEF AnswerEffect
<1> QED BY <1>5, <1>6

LEMMA RespondsEffect ==
    ASSUME Base, NEW r \in Requests, Responds(r)
    PROVE  /\ Handles(r) /\ last' = last /\ listeners' = listeners
           /\ request[r].at = "observed"
           /\ \A c \in Users : AnswerEffect(r, c)
           /\ IF request[r].method = "listen"
              THEN /\ request'[r].at = "listening"
                   /\ request'[r].tell = {} /\ request'[r].to = {}
                   /\ SameOrigin(r) /\ SameFinding(r) /\ SameSelection(r)
              ELSE Ends(r)
<1>t. Typed
  BY DEF Base
<1>1. /\ request[r].at = "observed"
      /\ client' = [c \in DOMAIN client |-> Answered(r, c)]
      /\ UNCHANGED <<userVars, last, listeners>>
  BY DEF Responds
<1>2. \A c \in Users : AnswerEffect(r, c)
  BY <1>1, <1>t, AnswerFields DEF Typed
<1>3. request[r] \in RequestRecords
  BY <1>t DEF Typed
<1>4. CASE request[r].method = "listen"
  <2>1. /\ request' = [request EXCEPT ![r] =
              [request[r] EXCEPT !.at = "listening", !.tell = {}, !.to = {}]]
        /\ selections' = selections
    BY <1>4 DEF Responds
  <2>2. Handles(r) /\ SameSelection(r)
    BY <1>1, <1>t, <2>1 DEF Handles, SameRequest, SameSelection, Typed, userVars
  <2>3. request'[r] = [request[r] EXCEPT !.at = "listening", !.tell = {}, !.to = {}]
    BY <1>t, <2>1 DEF Typed
  <2>4. /\ request'[r].at = "listening"
        /\ request'[r].tell = {} /\ request'[r].to = {}
        /\ SameOrigin(r) /\ SameFinding(r)
    BY <1>3, <2>3 DEF RequestRecords, SameOrigin, SameFinding
  <2> QED BY <1>1, <1>2, <1>4, <2>2, <2>4
<1>5. CASE request[r].method # "listen"
  <2>1. request' = [request EXCEPT ![r] = Idle] /\ selections' = Deleted(request[r].token)
    BY <1>5 DEF Responds
  <2>2. Handles(r) /\ Ends(r)
    BY <1>1, <1>t, <2>1, TokenIsOwn DEF Handles, SameRequest, Ends, Typed, userVars
  <2> QED BY <1>1, <1>2, <1>5, <2>2
<1> QED BY <1>4, <1>5

LEMMA CleansUpEffect ==
    ASSUME Base, NEW r \in Requests, CleansUp(r)
    PROVE  /\ Handles(r) /\ client' = client
           /\ request[r].at = "listening" /\ request[r].client = None /\ Ends(r)
           /\ listeners' = listeners \ {r}
           /\ last' = IF listeners \subseteq {r} THEN None ELSE last
<1>t. Typed /\ RequestsFit
  BY DEF Base
<1>1. /\ request[r].at = "listening" /\ request[r].client = None
      /\ request' = [request EXCEPT ![r] = Idle]
      /\ UNCHANGED <<userVars, selections, client>>
      /\ listeners' = listeners \ {r}
      /\ last' = IF listeners \subseteq {r} THEN None ELSE last
  BY DEF CleansUp
<1>2. r \notin DOMAIN selections
  BY <1>1, <1>t DEF RequestsFit, RequestFits, Served
<1>3. Handles(r) /\ Ends(r)
  BY <1>1, <1>2, <1>t DEF Handles, SameRequest, Ends, Typed, userVars
<1> QED BY <1>1, <1>3

LEMMA DeliverEffect ==
    ASSUME Base, NEW c \in Clients, Deliver(c)
    PROVE  /\ request' = request /\ selections' = selections
           /\ last' = last /\ listeners' = listeners /\ UNCHANGED userVars
           /\ OthersKeep(c)
           /\ client'[c].on = client[c].on
           /\ client'[c].listed = client[c].listed
           /\ client'[c].hidden = client[c].hidden
           /\ client'[c].stale = client[c].stale \cup client[c].notices
           /\ client'[c].notices = {} /\ client[c].notices # {}
<1>t. Typed
  BY DEF Base
<1>1. /\ client' = [client EXCEPT ![c] =
            [client[c] EXCEPT !.stale = client[c].stale \cup client[c].notices, !.notices = {}]]
      /\ UNCHANGED <<userVars, selections, request, last, listeners>>
      /\ client[c].notices # {}
  BY DEF Deliver
<1>2. c \in Users /\ client[c] \in ClientRecords
  BY <1>t, RecordFacts DEF Typed
<1>3. /\ OthersKeep(c)
      /\ client'[c] = [client[c] EXCEPT !.stale = client[c].stale \cup client[c].notices, !.notices = {}]
  BY <1>1, <1>2, <1>t DEF OthersKeep, Typed
<1>4. /\ client'[c].on = client[c].on
      /\ client'[c].listed = client[c].listed
      /\ client'[c].hidden = client[c].hidden
      /\ client'[c].stale = client[c].stale \cup client[c].notices
      /\ client'[c].notices = {}
  BY <1>2, <1>3 DEF ClientRecords
<1> QED BY <1>1, <1>3, <1>4


----------------------------------------------------------------------------
(* Selections, lists and snapshots keep to their requests.                 *)

LEMMA FitsKept ==
    ASSUME NEW x, RequestFits(x), SameRequest(x), stateful' = stateful
    PROVE  RequestFits(x)'
  BY DEF RequestFits, SameRequest, Served, Clients

LEMMA EndsFits == ASSUME NEW r, Ends(r) PROVE RequestFits(r)'
<1>1. /\ request'[r] = Idle /\ Idle.at = "idle" /\ Idle.client = None
      /\ Idle.tell = {} /\ Idle.to = {} /\ r \notin DOMAIN selections'
  BY DEF Ends, Idle
<1> QED BY <1>1 DEF RequestFits, Served

LEMMA ComparedFits ==
    ASSUME NEW r, RequestFits(r), Compared(r), stateful' = stateful
    PROVE  RequestFits(r)'
  BY DEF RequestFits, Served, Compared, SameOrigin, SameFinding, SameSelection, Clients

LEMMA RequestsFitStep == Base /\ [Next]_vars => RequestsFit'
<1> SUFFICES ASSUME Base, [Next]_vars PROVE RequestsFit'
  OBVIOUS
<1> USE RecordFacts DEF userVars
<1>t. Typed
  BY DEF Base
<1>f. RequestsFit
  BY DEF Base
<1>r. \A x \in Requests : RequestFits(x)
  BY <1>f DEF RequestsFit
<1>k. ASSUME NEW r \in Requests, Handles(r), RequestFits(r)' PROVE RequestsFit'
  BY <1>k, <1>r, FitsKept DEF Handles, RequestsFit
<1>s. ASSUME request' = request, selections' = selections, stateful' = stateful
      PROVE  RequestsFit'
  BY <1>s, <1>r, FitsKept DEF SameRequest, RequestsFit
<1>1. ASSUME NEW cfg \in Configs, Edit(cfg)
     PROVE  RequestsFit'
  BY <1>1, <1>s DEF Edit
<1>2. CASE Sign
  BY <1>2, <1>s DEF Sign
<1>3. ASSUME NEW r \in Requests, NEW c \in Clients, NEW m \in Methods, Post(r, c, m)
     PROVE  RequestsFit'
  <2>e. Base /\ Post(r, c, m)
    BY <1>3
  <2>1. RequestFits(r)'
    <3>1. /\ current \in Configs
          /\ stateful' = stateful
          /\ r \in Listeners <=> m = "listen"
      BY <1>3, <1>t, PostEffect, FrontendAssumption DEF Typed, Handles, Clients
    <3>2. c # None /\ c \in Clients'
      BY <1>3, <3>1 DEF Clients
    <3> QED BY <1>3, <3>1, <3>2, PostEffect DEF RequestFits, Served
  <2>2. Handles(r)
    BY <1>3, PostEffect
  <2> QED BY <2>1, <2>2, <1>k
<1>4. ASSUME NEW r \in Requests,
             \/ Identifies(r) \/ Departs(r) \/ Selects(r) \/ Resolves(r)
             \/ DiscoveryFails(r) \/ ObservesSession(r) \/ ObservesListeners(r)
             \/ ObservesNothing(r) \/ Responds(r) \/ CleansUp(r)
     PROVE  RequestsFit'
  <2>0. CASE Identifies(r)
    <3>1. RequestFits(r)'
      BY <2>0, <1>t, <1>r, IdentifiesEffect
         DEF RequestFits, Served, Handles, SameOrigin, SameFinding, SameNotice, Clients
    <3>2. Handles(r)
      BY <2>0, IdentifiesEffect
    <3> QED BY <3>1, <3>2, <1>k
  <2>1. CASE Departs(r)
    <3>1. RequestFits(r)'
      BY <2>1, <1>t, <1>r, DepartsEffect
         DEF RequestFits, Served, Handles, SameFinding, SameNotice, Clients
    <3>2. Handles(r)
      BY <2>1, DepartsEffect
    <3> QED BY <3>1, <3>2, <1>k
  <2>2. CASE Selects(r)
    <3>1. /\ ConfigFor(r) \in Selections
          /\ Served(r) => ConfigFor(r).cfg = request[r].cfg
      BY <2>2, <1>t, <1>f, ConfigForFits DEF Selects
    
    <3>2. RequestFits(r)'
      BY <2>2, <1>t, <1>r, SelectsEffect, <3>1
         DEF RequestFits, Served, Handles, SameOrigin, SameNotice, SameSelection, Clients
    <3>3. Handles(r)
      BY <2>2, SelectsEffect
    <3> QED BY <3>2, <3>3, <1>k
  <2>3. CASE Resolves(r)
    <3>1. RequestFits(r)'
      BY <2>3, <1>t, <1>r, ResolvesEffect
         DEF RequestFits, Served, Handles, SameOrigin, SameNotice, SameSelection, Clients
    <3>2. Handles(r)
      BY <2>3, ResolvesEffect
    <3> QED BY <3>1, <3>2, <1>k
  <2>4. CASE DiscoveryFails(r)
    BY <2>4, <1>k, DiscoveryFailsEffect, EndsFits
  <2>5. CASE ObservesSession(r)
    BY <2>5, <1>r, <1>k, ObservesSessionEffect, ComparedFits DEF Handles
  <2>6. CASE ObservesListeners(r)
    BY <2>6, <1>r, <1>k, ObservesListenersEffect, ComparedFits DEF Handles
  <2>7. CASE ObservesNothing(r)
    BY <2>7, <1>r, <1>k, ObservesNothingEffect, ComparedFits DEF Handles
  <2>8. CASE Responds(r)
    <3>1. RequestFits(r)'
      <4>1. CASE request[r].method = "listen"
        BY <2>8, <4>1, <1>t, <1>r, RespondsEffect
           DEF RequestFits, Served, Handles, SameOrigin, SameFinding, SameSelection, Clients
      <4>2. CASE request[r].method # "listen"
        BY <2>8, <4>2, RespondsEffect, EndsFits
      <4> QED BY <4>1, <4>2
    <3>2. Handles(r)
      BY <2>8, RespondsEffect
    <3> QED BY <3>1, <3>2, <1>k
  <2>9. CASE CleansUp(r)
    BY <2>9, <1>k, CleansUpEffect, EndsFits
  <2> QED BY <1>4, <2>0, <2>1, <2>2, <2>3, <2>4, <2>5, <2>6, <2>7, <2>8, <2>9
<1>5. ASSUME NEW c \in Clients, Deliver(c)
     PROVE  RequestsFit'
  BY <1>5, <1>s, DeliverEffect
<1>6. CASE UNCHANGED vars
  BY <1>6, <1>s DEF vars, userVars
<1> QED BY <1>1, <1>2, <1>3, <1>4, <1>5, <1>6 DEF Next, Methods

\* Only Post brings a list under way.
LEMMA OneListKept ==
    ASSUME OneList, NEW r \in Requests, Handles(r),
           \/ request'[r].client = None
           \/ request'[r].client = request[r].client /\ request'[r].method = request[r].method
    PROVE  OneList'
  BY DEF OneList, Handles, SameRequest

LEMMA OneListStep == Base /\ [Next]_vars => OneList'
<1> SUFFICES ASSUME Base, [Next]_vars PROVE OneList'
  OBVIOUS
<1> USE RecordFacts DEF userVars
<1>t. Typed
  BY DEF Base
<1>f. RequestsFit
  BY DEF Base
<1>o. OneList
  BY DEF Base
<1>s. ASSUME request' = request PROVE OneList'
  BY <1>s, <1>o DEF OneList
<1>1. ASSUME NEW cfg \in Configs, Edit(cfg)
     PROVE  OneList'
  BY <1>1, <1>s DEF Edit
<1>2. CASE Sign
  BY <1>2, <1>s DEF Sign
<1>3. ASSUME NEW r \in Requests, NEW c \in Clients, NEW m \in Methods, Post(r, c, m)
     PROVE  OneList'
  BY <1>3, <1>o, PostEffect DEF OneList, Handles, SameRequest
<1>4. ASSUME NEW r \in Requests,
             \/ Identifies(r) \/ Departs(r) \/ Selects(r) \/ Resolves(r)
             \/ DiscoveryFails(r) \/ ObservesSession(r) \/ ObservesListeners(r)
             \/ ObservesNothing(r) \/ Responds(r) \/ CleansUp(r)
     PROVE  OneList'
  <2>0. CASE Identifies(r)
    BY <2>0, <1>o, IdentifiesEffect, OneListKept DEF SameOrigin
  <2>1. CASE Departs(r)
    BY <2>1, <1>o, DepartsEffect, OneListKept
  <2>2. CASE Selects(r)
    BY <2>2, <1>o, SelectsEffect, OneListKept DEF SameOrigin
  <2>3. CASE Resolves(r)
    BY <2>3, <1>o, ResolvesEffect, OneListKept DEF SameOrigin
  <2>4. CASE DiscoveryFails(r)
    BY <2>4, <1>o, DiscoveryFailsEffect, OneListKept DEF Ends, Idle
  <2>5. CASE ObservesSession(r)
    BY <2>5, <1>o, ObservesSessionEffect, OneListKept DEF Compared, SameOrigin
  <2>6. CASE ObservesListeners(r)
    BY <2>6, <1>o, ObservesListenersEffect, OneListKept DEF Compared, SameOrigin
  <2>7. CASE ObservesNothing(r)
    BY <2>7, <1>o, ObservesNothingEffect, OneListKept DEF Compared, SameOrigin
  <2>8. CASE Responds(r)
    BY <2>8, <1>o, RespondsEffect, OneListKept DEF Ends, Idle, SameOrigin
  <2>9. CASE CleansUp(r)
    BY <2>9, <1>o, CleansUpEffect, OneListKept DEF Ends, Idle
  <2> QED BY <1>4, <2>0, <2>1, <2>2, <2>3, <2>4, <2>5, <2>6, <2>7, <2>8, <2>9
<1>5. ASSUME NEW c \in Clients, Deliver(c)
     PROVE  OneList'
  BY <1>5, <1>s, DeliverEffect
<1>6. CASE UNCHANGED vars
  BY <1>6, <1>s DEF vars, userVars
<1> QED BY <1>1, <1>2, <1>3, <1>4, <1>5, <1>6 DEF Next, Methods

LEMMA SnapshotFitsStep == Base /\ [Next]_vars => SnapshotFits'
<1> SUFFICES ASSUME Base, [Next]_vars PROVE SnapshotFits'
  OBVIOUS
<1> USE RecordFacts DEF userVars
<1>t. Typed
  BY DEF Base
<1>f. RequestsFit
  BY DEF Base
<1>q. /\ LastFits /\ SessionFits /\ ListenersCounted
      /\ ~stateful => \A l \in Listeners : ListenerFits(l)
  BY DEF Base, SnapshotFits
<1>v. \A r \in Requests :
         /\ request[r].at # "idle" => (request[r].method = "listen" <=> r \in Listeners)
         /\ request[r].method = "listen" /\ request[r].at # "idle" =>
               ~stateful /\ request[r].client \in {r, None}
  BY <1>f DEF RequestsFit, RequestFits
<1>a. /\ Session \in Users /\ Session \notin Listeners /\ None \notin Users
      /\ \A m : FamilyOf(m) \subseteq Flags
      /\ Listeners \subseteq Users /\ Listeners \subseteq Requests
      /\ None \notin Snapshots
  BY FrontendAssumption, CatalogAssumption, FlagsFit DEF Users
<1>c. \A l \in Users : client[l].on \in BOOLEAN /\ client[l].stale \subseteq Flags
  BY <1>t DEF Typed, ClientRecords
<1>s. ASSUME UNCHANGED <<stateful, request, last, listeners, client>> PROVE SnapshotFits'
  BY <1>s, <1>q DEF SnapshotFits, LastFits, SessionFits, ListenersCounted, ListenerFits
<1>1. ASSUME NEW cfg \in Configs, Edit(cfg)
     PROVE  SnapshotFits'
  BY <1>1, <1>s DEF Edit
<1>2. CASE Sign
  BY <1>2, <1>s DEF Sign
<1>3. ASSUME NEW r \in Requests, NEW c \in Clients, NEW m \in Methods, Post(r, c, m)
     PROVE  SnapshotFits'
  <2>e. /\ Base /\ Post(r, c, m) /\ c \in Users
        /\ m = "listen" \/ r \notin Listeners
    BY <1>3, PostEffect, FrontendAssumption DEF Clients
  <2>1. LastFits' /\ SessionFits' /\ ListenersCounted'
    BY <2>e, <1>3, <1>q, <1>a, PostEffect
       DEF LastFits, SessionFits, ListenersCounted, Handles, OnlyStale, OthersKeep
  <2>2. stateful' = stateful
    BY <1>3, PostEffect DEF Handles
  <2>3. ASSUME ~stateful, NEW l \in Listeners PROVE ListenerFits(l)'
    <3>1. /\ client'[l].on = client[l].on
          /\ client'[l].notices = client[l].notices
          /\ ~client[l].on => client'[l].stale = client[l].stale
      <4>1. CASE l = c
        <5>1. OnlyStale(c) /\ client'[c].stale = client[c].stale \ FamilyOf(m)
          BY <1>3, PostEffect
        <5>2. ~client[c].on => FamilyOf(m) = {}
          BY <1>3, PostEffect DEF FamilyOf
        <5> QED BY <4>1, <5>1, <5>2 DEF OnlyStale
      <4>2. CASE l # c
        BY <4>2, <1>3, <1>a, PostEffect DEF OthersKeep
      <4> QED BY <4>1, <4>2
    <3>2. l # r => request'[l] = request[l]
      BY <1>3, <1>a, PostEffect DEF Handles, SameRequest
    <3>3. l = r => request'[l].at = "bridged" /\ request[l].at = "idle"
      BY <1>3, PostEffect
    <3>4. ListenerFits(l)
      BY <2>3, <1>q
    <3>5. listeners' = listeners
      BY <1>3, PostEffect
    <3> QED BY <3>1, <3>2, <3>3, <3>4, <3>5 DEF ListenerFits
  <2> QED BY <2>1, <2>2, <2>3 DEF SnapshotFits
<1>4. ASSUME NEW r \in Requests,
             \/ Identifies(r) \/ Departs(r) \/ Selects(r) \/ Resolves(r)
             \/ DiscoveryFails(r) \/ ObservesSession(r) \/ ObservesListeners(r)
             \/ ObservesNothing(r) \/ Responds(r) \/ CleansUp(r)
     PROVE  SnapshotFits'
  <2>0. CASE Identifies(r)
    <3>1. LastFits' /\ SessionFits' /\ ListenersCounted'
      BY <2>0, <1>q, <1>v, <1>a, IdentifiesEffect
         DEF LastFits, SessionFits, ListenersCounted, Handles
    <3>2. stateful' = stateful
      BY <2>0, IdentifiesEffect DEF Handles
    <3>3. ASSUME ~stateful, NEW l \in Listeners PROVE ListenerFits(l)'
      BY <2>0, <3>3, <1>q, <1>v, <1>a, IdentifiesEffect
         DEF ListenerFits, Handles, SameRequest, SameOrigin
    <3> QED BY <3>1, <3>2, <3>3 DEF SnapshotFits
  <2>1. CASE Departs(r)
    <3>1. LastFits' /\ SessionFits' /\ ListenersCounted'
      BY <2>1, <1>q, <1>v, <1>a, DepartsEffect
         DEF LastFits, SessionFits, ListenersCounted, Handles, OnlyStale, OthersKeep
    <3>2. stateful' = stateful
      BY <2>1, DepartsEffect DEF Handles
    <3>3. ASSUME ~stateful, NEW l \in Listeners PROVE ListenerFits(l)'
      <4>1. ListenerFits(l)
        BY <3>3, <1>q
      <4>2. CASE request[r].method = "listen"
        <5>1. request[r].client = r /\ client'[r] = NewClient
          BY <2>1, <4>2, <1>v, <1>a, DepartsEffect
        <5>2. CASE l = r
          BY <2>1, <5>1, <5>2, <4>1, <1>a, DepartsEffect DEF ListenerFits, NewClient, Flags
        <5>3. CASE l # r
          BY <2>1, <5>1, <5>3, <4>1, <1>a, DepartsEffect
             DEF ListenerFits, Handles, SameRequest, OthersKeep
        <5> QED BY <5>2, <5>3
      <4>3. CASE request[r].method # "listen"
        <5>1. l # r
          BY <2>1, <4>3, <1>v, DepartsEffect
        <5>2. /\ client'[l].on = client[l].on
              /\ client'[l].notices = client[l].notices
              /\ ~client[l].on => client'[l].stale = client[l].stale
          <6>1. CASE l = request[r].client
            <7>1. /\ OnlyStale(l)
                  /\ client'[l].stale = client[l].stale \cup FamilyOf(request[r].method)
              BY <2>1, <4>3, <6>1, DepartsEffect
            <7> QED BY <7>1, <4>1, <1>a DEF OnlyStale, ListenerFits
          <6>2. CASE l # request[r].client
            BY <2>1, <6>2, <1>a, DepartsEffect DEF OthersKeep
          <6> QED BY <6>1, <6>2
        <5> QED BY <2>1, <5>1, <5>2, <4>1, <1>a, DepartsEffect
                DEF ListenerFits, Handles, SameRequest
      <4> QED BY <4>2, <4>3
    <3> QED BY <3>1, <3>2, <3>3 DEF SnapshotFits
  <2>2. CASE Selects(r)
    <3>1. LastFits' /\ SessionFits' /\ ListenersCounted'
      BY <2>2, <1>q, <1>v, <1>a, SelectsEffect DEF LastFits, SessionFits, ListenersCounted, Handles
    <3>2. stateful' = stateful
      BY <2>2, SelectsEffect DEF Handles
    <3>3. ASSUME ~stateful, NEW l \in Listeners PROVE ListenerFits(l)'
      BY <2>2, <3>3, <1>q, <1>v, <1>a, SelectsEffect DEF ListenerFits, Handles, SameRequest, SameOrigin
    <3> QED BY <3>1, <3>2, <3>3 DEF SnapshotFits
  <2>3. CASE Resolves(r)
    <3>1. LastFits' /\ SessionFits' /\ ListenersCounted'
      BY <2>3, <1>q, <1>v, <1>a, ResolvesEffect DEF LastFits, SessionFits, ListenersCounted, Handles
    <3>2. stateful' = stateful
      BY <2>3, ResolvesEffect DEF Handles
    <3>3. ASSUME ~stateful, NEW l \in Listeners PROVE ListenerFits(l)'
      BY <2>3, <3>3, <1>q, <1>v, <1>a, ResolvesEffect DEF ListenerFits, Handles, SameRequest, SameOrigin
    <3> QED BY <3>1, <3>2, <3>3 DEF SnapshotFits
  <2>4. CASE DiscoveryFails(r)
    <3>1. LastFits' /\ SessionFits' /\ ListenersCounted'
      BY <2>4, <1>q, <1>v, <1>a, DiscoveryFailsEffect
         DEF LastFits, SessionFits, ListenersCounted, Handles, OnlyStale, OthersKeep
    <3>2. stateful' = stateful
      BY <2>4, DiscoveryFailsEffect DEF Handles
    <3>3. ASSUME ~stateful, NEW l \in Listeners PROVE ListenerFits(l)'
      <4>1. ListenerFits(l)
        BY <3>3, <1>q
      <4>2. /\ client'[l].on = client[l].on
            /\ client'[l].notices = client[l].notices
            /\ ~client[l].on => client'[l].stale = client[l].stale
        BY <2>4, <4>1, <1>a, DiscoveryFailsEffect DEF OnlyStale, OthersKeep, ListenerFits
      <4>3. l = r => request'[l].at = "idle" /\ request[l].at \in {"bridged", "selected"}
        BY <2>4, DiscoveryFailsEffect DEF Ends, Idle
      <4>4. l # r => request'[l] = request[l]
        BY <2>4, <1>a, DiscoveryFailsEffect DEF Handles, SameRequest
      <4>5. listeners' = listeners
        BY <2>4, DiscoveryFailsEffect
      <4> QED BY <4>1, <4>2, <4>3, <4>4, <4>5 DEF ListenerFits
    <3> QED BY <3>1, <3>2, <3>3 DEF SnapshotFits
  <2>5. CASE ObservesSession(r)
    <3>1. LastFits' /\ SessionFits' /\ ListenersCounted'
      BY <2>5, <1>q, <1>a, ObservesSessionEffect
         DEF LastFits, SessionFits, ListenersCounted, Handles
    <3>2. stateful' = stateful /\ stateful
      BY <2>5, ObservesSessionEffect DEF Handles
    <3> QED BY <3>1, <3>2 DEF SnapshotFits
  <2>6. CASE ObservesListeners(r)
    <3>1. LastFits' /\ SessionFits' /\ ListenersCounted'
      BY <2>6, <1>q, <1>v, <1>a, ObservesListenersEffect
         DEF LastFits, SessionFits, ListenersCounted, Handles
    <3>2. stateful' = stateful
      BY <2>6, ObservesListenersEffect DEF Handles
    <3>3. ASSUME ~stateful, NEW l \in Listeners PROVE ListenerFits(l)'
      <4>1. ListenerFits(l)
        BY <3>3, <1>q
      <4>2. /\ client' = client /\ listeners \subseteq listeners'
            /\ request[r].method = "listen" => r \in listeners'
            /\ request[r].at = "resolved" /\ request'[r].at = "observed"
        BY <2>6, ObservesListenersEffect DEF Compared
      <4>3. l = r => request[r].method = "listen"
        BY <4>2, <1>v
      <4>4. l # r => request'[l] = request[l]
        BY <2>6, <1>a, ObservesListenersEffect DEF Handles, SameRequest
      <4> QED BY <4>1, <4>2, <4>3, <4>4 DEF ListenerFits
    <3> QED BY <3>1, <3>2, <3>3 DEF SnapshotFits
  <2>7. CASE ObservesNothing(r)
    <3>1. LastFits' /\ SessionFits' /\ ListenersCounted'
      BY <2>7, <1>q, ObservesNothingEffect
         DEF LastFits, SessionFits, ListenersCounted, Handles
    <3>2. stateful' = stateful
      BY <2>7, ObservesNothingEffect DEF Handles
    <3>3. ASSUME ~stateful, NEW l \in Listeners PROVE ListenerFits(l)'
      <4>1. ListenerFits(l)
        BY <3>3, <1>q
      <4>2. request[r].at = "resolved" /\ request[r].method # "listen"
        BY <2>7, ObservesNothingEffect DEF Compared, FullTools
      <4>3. l # r
        BY <4>2, <1>v
      <4> QED BY <2>7, <4>1, <4>3, <1>a, ObservesNothingEffect
              DEF ListenerFits, Handles, SameRequest
    <3> QED BY <3>1, <3>2, <3>3 DEF SnapshotFits
  <2>8. CASE Responds(r)
    <3>1. LastFits' /\ SessionFits' /\ ListenersCounted'
      BY <2>8, <1>q, <1>a, <1>c, RespondsEffect
         DEF LastFits, SessionFits, ListenersCounted, Handles, AnswerEffect
    <3>2. stateful' = stateful
      BY <2>8, RespondsEffect DEF Handles
    <3>3. ASSUME ~stateful, NEW l \in Listeners PROVE ListenerFits(l)'
      <4>1. ListenerFits(l)
        BY <3>3, <1>q
      <4>2. /\ client'[l].stale = client[l].stale
            /\ ~client[l].on => client'[l].notices = client[l].notices
            /\ client'[l].on <=> \/ client[l].on
                                 \/ request[r].client = l /\ request[r].method = "listen"
        BY <2>8, <1>a, <1>c, RespondsEffect DEF AnswerEffect
      <4>3. l # r => request'[l] = request[l]
        BY <2>8, <1>a, RespondsEffect DEF Handles, SameRequest
      <4>4. /\ request[r].at = "observed" /\ listeners' = listeners
            /\ l = r => /\ request'[l].at = "listening"
                        /\ request'[l].client = request[l].client
                        /\ request[l].method = "listen"
        BY <2>8, <1>v, RespondsEffect DEF SameOrigin
      <4>5. request[r].client = l /\ request[r].method = "listen" => l = r
        BY <4>4, <1>v, <1>a
      <4> QED BY <4>1, <4>2, <4>3, <4>4, <4>5 DEF ListenerFits
    <3> QED BY <3>1, <3>2, <3>3 DEF SnapshotFits
  <2>9. CASE CleansUp(r)
    <3>0. ~stateful /\ r \in Listeners /\ r \in listeners
      BY <2>9, <1>f, <1>q, CleansUpEffect DEF RequestsFit, RequestFits, ListenerFits
    <3>1. LastFits' /\ SessionFits' /\ ListenersCounted'
      BY <2>9, <3>0, <1>q, <1>v, <1>a, CleansUpEffect
         DEF LastFits, SessionFits, ListenersCounted, Handles
    <3>2. stateful' = stateful
      BY <2>9, CleansUpEffect DEF Handles
    <3>3. ASSUME ~stateful, NEW l \in Listeners PROVE ListenerFits(l)'
      <4>1. ListenerFits(l)
        BY <3>3, <1>q
      <4>2. l = r => /\ request'[l].at = "idle" /\ request[l].at = "listening"
                     /\ request[l].client # l
        BY <2>9, <1>a, CleansUpEffect DEF Ends, Idle
      <4>3. l # r => request'[l] = request[l]
        BY <2>9, <1>a, CleansUpEffect DEF Handles, SameRequest
      <4>4. client' = client /\ listeners' = listeners \ {r}
        BY <2>9, CleansUpEffect
      <4> QED BY <4>1, <4>2, <4>3, <4>4 DEF ListenerFits
    <3> QED BY <3>1, <3>2, <3>3 DEF SnapshotFits
  <2> QED BY <1>4, <2>0, <2>1, <2>2, <2>3, <2>4, <2>5, <2>6, <2>7, <2>8, <2>9
<1>5. ASSUME NEW c \in Clients, Deliver(c)
     PROVE  SnapshotFits'
  <2>1. /\ UNCHANGED <<stateful, request, last, listeners>> /\ OthersKeep(c)
        /\ client'[c].on = client[c].on
        /\ client[c].notices # {}
        /\ client'[c].notices = {} /\ c \in Clients
    BY <1>5, DeliverEffect
  <2>2. ASSUME ~stateful, NEW l \in Listeners PROVE ListenerFits(l)'
    <3>1. ListenerFits(l)
      BY <2>2, <1>q
    <3>2. l # c => client'[l] = client[l]
      BY <2>1, <1>a DEF OthersKeep
    <3> QED BY <2>1, <3>1, <3>2 DEF ListenerFits
  <2>3. LastFits' /\ SessionFits' /\ ListenersCounted'
    BY <2>1, <1>q, <1>a DEF LastFits, SessionFits, ListenersCounted, OthersKeep
  <2> QED BY <2>1, <2>2, <2>3 DEF SnapshotFits
<1>6. CASE UNCHANGED vars
  BY <1>6, <1>s DEF vars, userVars
<1> QED BY <1>1, <1>2, <1>3, <1>4, <1>5, <1>6 DEF Next, Methods

LEMMA BaseStep == Base /\ [Next]_vars => Base'
  BY TypedStep, RequestsFitStep, OneListStep, SnapshotFitsStep DEF Base


----------------------------------------------------------------------------
(* What is compared is a full catalog.                                     *)

Wanted == "list" \notin Outlived

LEMMA FamiliesFullInit == Init => FamiliesFull
<1> SUFFICES ASSUME Init PROVE FamiliesFull
  OBVIOUS
<1>1. late = [cfg |-> Default, family |-> "all"]
      \/ late = [cfg |-> current, family |-> Family(current, "other")]
  BY DEF Init
<1>2. ~late.cfg.scoped => late.family = "all"
  BY <1>1 DEF Family
<1>3. /\ last = None /\ DOMAIN selections = {}
      /\ \A r \in Requests : request[r].at = "idle"
  BY DEF Init, Idle
<1> QED BY <1>2, <1>3 DEF FamiliesFull

\* What FamiliesFull says of one request and of its selection.
RequestFull(r) ==
    /\ request[r].at = "selected" /\ request[r].method # "call" =>
          FullFamily(request[r].used.cfg, request[r].method, request[r].used.family)
    /\ request[r].at = "resolved" =>
          FullFamily(request[r].used, request[r].method, request[r].found.family)
SelectionFull(r) ==
    r \in DOMAIN selections =>
      /\ FullFamily(selections[r].cfg, request[r].method, selections[r].family)
      /\ selections[r].pending # None =>
            FullFamily(selections[r].cfg, request[r].method, selections[r].pending.family)

LEMMA FullKept ==
    ASSUME NEW x, RequestFull(x), SelectionFull(x), SameRequest(x)
    PROVE  RequestFull(x)' /\ SelectionFull(x)'
  BY DEF RequestFull, SelectionFull, SameRequest, FullFamily, FullTools

\* A handler that finds no selection in a session does not list.
LEMMA ConfigForFull ==
    ASSUME Wanted, Base, FamiliesFull, NEW r \in Requests,
           request[r].at = "posted", request[r].method # "call"
    PROVE  FullFamily(ConfigFor(r).cfg, request[r].method, ConfigFor(r).family)
<1>1. /\ request[r].token = r /\ request[r].method \in Methods
      /\ request[r].cfg \in Configs
      /\ ~Served(r) /\ stateful => request[r].method \in Outlived
      /\ request[r].method = "listen" => ~stateful
  BY DEF Base, RequestsFit, RequestFits
<1>2. CASE Served(r)
  BY <1>1, <1>2 DEF ConfigFor, Selected, Served, FamiliesFull
<1>3. CASE ~Served(r) /\ ~stateful
  BY <1>1, <1>3, FamilyFits DEF ConfigFor, Selected, Served
<1>4. CASE ~Served(r) /\ stateful
  <2>1. ConfigFor(r) = late
    BY <1>1, <1>4 DEF ConfigFor, Selected, Served
  <2>2. request[r].method \notin {"list", "listen", "call"}
    BY <1>1, <1>4 DEF Wanted
  <2> QED BY <2>1, <2>2 DEF FullFamily, FullTools, FamiliesFull
<1> QED BY <1>2, <1>3, <1>4

LEMMA FamiliesFullStep ==
    ASSUME Wanted, Base, FamiliesFull, [Next]_vars
    PROVE  FamiliesFull'
<1> USE RecordFacts DEF userVars
<1>t. Typed /\ RequestsFit
  BY DEF Base
<1>r. \A x \in Requests : RequestFull(x) /\ SelectionFull(x)
  BY <1>t DEF FamiliesFull, RequestFull, SelectionFull, Typed
<1>d. DOMAIN selections' \subseteq Requests
  BY TypedStep DEF Base, Typed
<1>l. /\ ~late.cfg.scoped => late.family = "all"
      /\ last # None => last.cat.family \in {"all", "tools"}
  BY DEF FamiliesFull
<1>k. ASSUME NEW r \in Requests, Handles(r), RequestFull(r)', SelectionFull(r)',
             last' # None => last'.cat.family \in {"all", "tools"}
      PROVE  FamiliesFull'
  <2>1. \A x \in Requests : RequestFull(x)' /\ SelectionFull(x)'
    BY <1>k, <1>r, FullKept DEF Handles
  <2>2. ~late'.cfg.scoped => late'.family = "all"
    BY <1>k, <1>l DEF Handles
  <2> QED BY <1>k, <1>d, <2>1, <2>2 DEF FamiliesFull, RequestFull, SelectionFull
<1>s. ASSUME UNCHANGED <<late, request, selections, last>> PROVE FamiliesFull'
  BY <1>s DEF FamiliesFull, FullFamily, FullTools
<1>e. \A r : Ends(r) => RequestFull(r)' /\ SelectionFull(r)'
  BY DEF Ends, Idle, RequestFull, SelectionFull
<1>c. \A r : RequestFull(r) /\ SelectionFull(r) /\ Compared(r) =>
                RequestFull(r)' /\ SelectionFull(r)'
  BY DEF Compared, SameOrigin, SameFinding, SameSelection, RequestFull, SelectionFull,
         FullFamily, FullTools
<1>n. \A r \in Requests : request[r].at = "resolved"
               /\ FullTools(request[r].used, request[r].method) =>
         request[r].found.family \in {"all", "tools"}
  BY <1>r DEF RequestFull, FullFamily
<1>1. ASSUME NEW cfg \in Configs, Edit(cfg)
     PROVE  FamiliesFull'
  BY <1>1, <1>s DEF Edit
<1>2. CASE Sign
  BY <1>2, <1>s DEF Sign
<1>3. ASSUME NEW r \in Requests, NEW c \in Clients, NEW m \in Methods, Post(r, c, m)
     PROVE  FamiliesFull'
  <2>e. Base /\ Post(r, c, m) /\ current \in Configs
    BY <1>3, <1>t DEF Typed
  <2>1. FullFamily(current, m, Family(current, m))
    BY <2>e, <1>3, FamilyFits
  <2>2. RequestFull(r)' /\ SelectionFull(r)'
    BY <2>1, <1>3, PostEffect DEF RequestFull, SelectionFull, FullFamily, FullTools
  <2> QED BY <2>2, <1>3, <1>k, <1>l, PostEffect
<1>4. ASSUME NEW r \in Requests,
             \/ Identifies(r) \/ Departs(r) \/ Selects(r) \/ Resolves(r)
             \/ DiscoveryFails(r) \/ ObservesSession(r) \/ ObservesListeners(r)
             \/ ObservesNothing(r) \/ Responds(r) \/ CleansUp(r)
     PROVE  FamiliesFull'
  <2>0. CASE Identifies(r)
    <3>1. r \in DOMAIN selections => selections[r].cfg = request[r].cfg
      BY <1>t DEF RequestsFit, RequestFits, Served
    <3>2. FullFamily(request[r].cfg, request[r].method,
                     Family(request[r].cfg, request[r].method))
      BY <2>0, <1>t, FamilyFits, IdentifiesEffect DEF RequestsFit, RequestFits
    <3>3. RequestFull(r)' /\ SelectionFull(r)'
      BY <2>0, <3>1, <3>2, <1>r, IdentifiesEffect
         DEF RequestFull, SelectionFull, SameOrigin, FullFamily, FullTools
    <3> QED BY <2>0, <3>3, <1>k, <1>l, IdentifiesEffect
  <2>1. CASE Departs(r)
    <3>1. RequestFull(r)' /\ SelectionFull(r)'
      BY <2>1, <1>r, DepartsEffect
         DEF RequestFull, SelectionFull, SameFinding, FullFamily, FullTools
    <3> QED BY <2>1, <3>1, <1>k, <1>l, DepartsEffect
  <2>2. CASE Selects(r)
    <3>1. request[r].method # "call" =>
             FullFamily(ConfigFor(r).cfg, request[r].method, ConfigFor(r).family)
      BY <2>2, ConfigForFull DEF Selects
    <3>2. RequestFull(r)' /\ SelectionFull(r)'
      BY <2>2, <3>1, <1>r, SelectsEffect
         DEF RequestFull, SelectionFull, SameOrigin, SameSelection, FullFamily, FullTools
    <3> QED BY <2>2, <3>2, <1>k, <1>l, SelectsEffect
  <2>3. CASE Resolves(r)
    <3>1. FullFamily(request'[r].used, request[r].method, request'[r].found.family)
      <4>1. CASE Served(r) /\ selections[r].pending # None
                    /\ request'[r].found = selections[r].pending
        <5>1. request'[r].used = selections[r].cfg
          BY <2>3, <4>1, <1>t, ResolvesEffect DEF RequestsFit, RequestFits
        <5> QED BY <4>1, <5>1, <1>r DEF Served, SelectionFull
      <4>2. CASE /\ request[r].method = "call"
                 /\ request'[r].found.family = Family(request[r].used.cfg, "call")
        BY <2>3, <4>2, FamilyFits, ResolvesEffect DEF Methods
      <4>3. CASE /\ request[r].method # "call"
                 /\ request'[r].found.family = request[r].used.family
        BY <2>3, <4>3, <1>r, ResolvesEffect DEF RequestFull
      <4> QED BY <2>3, <4>1, <4>2, <4>3, ResolvesEffect
    <3>2. RequestFull(r)' /\ SelectionFull(r)'
      BY <2>3, <3>1, <1>r, ResolvesEffect
         DEF RequestFull, SelectionFull, SameOrigin, SameSelection, FullFamily, FullTools
    <3> QED BY <2>3, <3>2, <1>k, <1>l, ResolvesEffect
  <2>4. CASE DiscoveryFails(r)
    BY <2>4, <1>e, <1>k, <1>l, DiscoveryFailsEffect
  <2>5. CASE ObservesSession(r)
    <3>1. last'.cat.family \in {"all", "tools"}
      BY <2>5, <1>n, ObservesSessionEffect DEF Compared
    <3> QED BY <2>5, <3>1, <1>k, <1>c, <1>r, ObservesSessionEffect
  <2>6. CASE ObservesListeners(r)
    <3>1. last' # None => last'.cat.family \in {"all", "tools"}
      BY <2>6, <1>n, ObservesListenersEffect DEF Compared
    <3> QED BY <2>6, <3>1, <1>k, <1>c, <1>r, ObservesListenersEffect
  <2>7. CASE ObservesNothing(r)
    BY <2>7, <1>k, <1>c, <1>r, <1>l, ObservesNothingEffect
  <2>8. CASE Responds(r)
    <3>1. RequestFull(r)' /\ SelectionFull(r)'
      <4>1. CASE request[r].method = "listen"
        BY <2>8, <4>1, <1>r, RespondsEffect
           DEF RequestFull, SelectionFull, SameOrigin, SameSelection, FullFamily, FullTools
      <4>2. CASE request[r].method # "listen"
        BY <2>8, <4>2, <1>e, RespondsEffect
      <4> QED BY <4>1, <4>2
    <3> QED BY <2>8, <3>1, <1>k, <1>l, RespondsEffect
  <2>9. CASE CleansUp(r)
    BY <2>9, <1>e, <1>k, <1>l, CleansUpEffect
  <2> QED BY <1>4, <2>0, <2>1, <2>2, <2>3, <2>4, <2>5, <2>6, <2>7, <2>8, <2>9
<1>5. ASSUME NEW c \in Clients, Deliver(c)
     PROVE  FamiliesFull'
  BY <1>5, <1>s, DeliverEffect
<1>6. CASE UNCHANGED vars
  BY <1>6, <1>s DEF vars, userVars
<1> QED BY <1>1, <1>2, <1>3, <1>4, <1>5, <1>6 DEF Next, Methods

----------------------------------------------------------------------------
(* Clients hold what the last snapshot shows, or will be told.             *)

LEMMA ClientsKnowInit == Init => ClientsKnow
<1> SUFFICES ASSUME Init, NEW c \in Clients, client[c].on
             PROVE  ToolsKnown(c) /\ SetupKnown(c)
  BY DEF ClientsKnow
<1>1. client[c].stale = {"tools", "setup"}
  BY RecordFacts DEF Init, Users, NewClient
<1> QED BY <1>1 DEF ToolsKnown, SetupKnown, IsTold

\* A full catalog that shows other tools, or another sign-in, than the last one
\* is taken for a change: while authorization is pending, and only then, the tools
\* are one tool that no component has.
LEMMA DifferencesAreSeen ==
    ASSUME Base, FamiliesFull, last # None, NEW cat \in CatalogRecords,
           cat.family \in {"all", "tools"}
    PROVE  /\ View(last.cat) = View(cat) \/ ToolsDiffer(cat, cat.cfg.search)
           /\ last.cat.pending = cat.pending \/ SetupDone(cat)
<1>1. /\ last.cat \in CatalogRecords /\ last.search = last.cat.cfg.search
      /\ last.cat.family \in {"all", "tools"}
  BY DEF Base, Typed, Snapshots, SnapshotFits, LastFits, FamiliesFull
<1>2. /\ cat.cfg \in Configs /\ cat.pending \in BOOLEAN
      /\ last.cat.cfg \in Configs /\ last.cat.pending \in BOOLEAN
  BY <1>1 DEF CatalogRecords
<1>3. /\ "authorize" \notin cat.cfg.tools /\ "authorize" \notin last.cat.cfg.tools
      /\ cat.cfg.search \in BOOLEAN /\ last.cat.cfg.search \in BOOLEAN
  BY <1>2, ConfigFields
<1>4. /\ Tools(cat) = IF cat.pending THEN {"authorize"} ELSE cat.cfg.tools
      /\ Tools(last.cat) = IF last.cat.pending THEN {"authorize"} ELSE last.cat.cfg.tools
  BY <1>1 DEF Tools
<1>5. last.cat.pending = cat.pending \/ SetupDone(cat)
  BY DEF SetupDone, SetupChanged
<1>6. CASE last.cat.pending # cat.pending
  <2>1. Tools(last.cat) # Tools(cat)
    BY <1>2, <1>3, <1>4, <1>6
  <2> QED BY <1>5, <1>6, <2>1 DEF ToolsDiffer
<1>7. CASE last.cat.pending = cat.pending /\ last.cat.cfg = cat.cfg
  <2>1. View(last.cat) = View(cat)
    BY <1>4, <1>7 DEF View
  <2> QED BY <1>5, <2>1
<1>8. CASE last.cat.pending = cat.pending /\ last.cat.cfg # cat.cfg
  <2>1. Fingerprint(last.cat) # Fingerprint(cat)
    BY <1>8 DEF Fingerprint
  <2>2. CASE last.search # cat.cfg.search \/ Tools(last.cat) # Tools(cat)
    BY <1>5, <2>1, <2>2 DEF ToolsDiffer
  <2>3. CASE last.search = cat.cfg.search /\ Tools(last.cat) = Tools(cat)
    <3>1. View(last.cat) = View(cat)
      BY <1>1, <1>8, <2>3 DEF View
    <3> QED BY <1>5, <3>1
  <2> QED BY <2>2, <2>3
<1> QED BY <1>6, <1>7, <1>8

LEMMA ToldKept ==
    ASSUME NEW c, NEW f, IsTold(c, f),
           f \in client[c].stale \cup client[c].notices =>
              f \in client'[c].stale \cup client'[c].notices,
           \A x \in Requests :
              \/ request[x].tell = {}
              \/ request'[x].tell = request[x].tell /\ request'[x].to = request[x].to
    PROVE  IsTold(c, f)'
  BY DEF IsTold

\* A list of client c that request x may be is before its comparison, or ends.
Unmoved(c, x, method) ==
    /\ ~Lists(c, x, method, {"observed"})
    /\ ~Lists(c, x, method, {"observed"})'
    /\ Lists(c, x, method, Coming) => Lists(c, x, method, Coming)'

LEMMA ToolsKept ==
    ASSUME NEW c, ToolsKnown(c), IsTold(c, "tools") => IsTold(c, "tools")',
           client'[c].listed = client[c].listed,
           last # None => last' # None /\ View(last'.cat) = View(last.cat),
           \A x \in Requests : request'[x] = request[x] \/ Unmoved(c, x, "list")
    PROVE  ToolsKnown(c)'
<1>1. CASE IsTold(c, "tools")
  BY <1>1 DEF ToolsKnown
<1>2. CASE \E r \in Requests : Lists(c, r, "list", Coming)
  <2>1. \E r \in Requests : Lists(c, r, "list", Coming)'
    BY <1>2 DEF Unmoved, Lists
  <2> QED BY <2>1 DEF ToolsKnown
<1>3. CASE last # None /\ \E r \in Requests :
          Lists(c, r, "list", {"observed"}) /\ View(request[r].found) = View(last.cat)
  <2>1. PICK r \in Requests :
          Lists(c, r, "list", {"observed"}) /\ View(request[r].found) = View(last.cat)
    BY <1>3
  <2>2. request'[r] = request[r]
    BY <2>1 DEF Unmoved
  <2>3. /\ last' # None /\ Lists(c, r, "list", {"observed"})'
        /\ View(request'[r].found) = View(last'.cat)
    BY <1>3, <2>1, <2>2 DEF Lists
  <2> QED BY <2>3 DEF ToolsKnown, View, Tools
<1>4. CASE /\ last # None /\ client[c].listed = View(last.cat)
           /\ \A r \in Requests : ~Lists(c, r, "list", {"observed"})
  <2>1. \A r \in Requests : ~Lists(c, r, "list", {"observed"})'
    BY <1>4 DEF Unmoved, Lists
  <2>2. last' # None /\ client'[c].listed = View(last'.cat)
    BY <1>4
  <2> QED BY <2>1, <2>2 DEF ToolsKnown, View, Tools
<1> QED BY <1>1, <1>2, <1>3, <1>4 DEF ToolsKnown

LEMMA SetupKept ==
    ASSUME NEW c, SetupKnown(c), IsTold(c, "setup") => IsTold(c, "setup")',
           client'[c].hidden = client[c].hidden,
           last # None => last' # None /\ last'.cat.pending = last.cat.pending,
           \A x \in Requests : request'[x] = request[x] \/ Unmoved(c, x, "prompts")
    PROVE  SetupKnown(c)'
<1>1. CASE IsTold(c, "setup")
  BY <1>1 DEF SetupKnown
<1>2. CASE \E r \in Requests : Lists(c, r, "prompts", Coming)
  <2>1. \E r \in Requests : Lists(c, r, "prompts", Coming)'
    BY <1>2 DEF Unmoved, Lists
  <2> QED BY <2>1 DEF SetupKnown
<1>3. CASE \E r \in Requests :
          Lists(c, r, "prompts", {"observed"}) /\ SetupAgrees(Shown(r))
  <2>1. PICK r \in Requests :
          Lists(c, r, "prompts", {"observed"}) /\ SetupAgrees(Shown(r))
    BY <1>3
  <2>2. request'[r] = request[r]
    BY <2>1 DEF Unmoved
  <2>3. Lists(c, r, "prompts", {"observed"})' /\ SetupAgrees(Shown(r))'
    BY <2>1, <2>2 DEF Lists, SetupAgrees, Shown, FullTools
  <2> QED BY <2>3 DEF SetupKnown
<1>4. CASE /\ SetupAgrees(client[c].hidden)
           /\ \A r \in Requests : ~Lists(c, r, "prompts", {"observed"})
  <2>1. \A r \in Requests : ~Lists(c, r, "prompts", {"observed"})'
    BY <1>4 DEF Unmoved, Lists
  <2>2. SetupAgrees(client[c].hidden)'
    BY <1>4 DEF SetupAgrees
  <2> QED BY <2>1, <2>2 DEF SetupKnown
<1> QED BY <1>1, <1>2, <1>3, <1>4 DEF SetupKnown

\* What Keeps(c) asks of a step that neither compares nor answers.
Quietly(c, r) ==
    /\ Handles(r) /\ last' = last
    /\ client'[c].listed = client[c].listed /\ client'[c].hidden = client[c].hidden
    /\ request[r].tell = {} \/ SameNotice(r)

LEMMA KnownKept ==
    ASSUME NEW c, NEW r \in Requests, ToolsKnown(c), SetupKnown(c), Quietly(c, r),
           client[c].stale \cup client[c].notices
              \subseteq client'[c].stale \cup client'[c].notices,
           Unmoved(c, r, "list"), Unmoved(c, r, "prompts")
    PROVE  ToolsKnown(c)' /\ SetupKnown(c)'
<1>1. \A x \in Requests :
         /\ \/ request[x].tell = {}
            \/ request'[x].tell = request[x].tell /\ request'[x].to = request[x].to
         /\ request'[x] = request[x] \/ Unmoved(c, x, "list")
         /\ request'[x] = request[x] \/ Unmoved(c, x, "prompts")
  BY DEF Quietly, Handles, SameRequest, SameNotice
<1>2. \A f : IsTold(c, f) => IsTold(c, f)'
  BY <1>1, ToldKept
<1>3. ToolsKnown(c)'
  BY <1>1, <1>2, ToolsKept DEF Quietly
<1>4. SetupKnown(c)'
  BY <1>1, <1>2, SetupKept DEF Quietly
<1> QED BY <1>3, <1>4


\* A request that has compared its catalog tells of the difference, or is the list
\* that brings it.
LEMMA ComparedKnown ==
    ASSUME Base, FamiliesFull, NEW r \in Requests, NEW d, Handles(r), Compared(r),
           client' = client, request[r].found.family \in {"all", "tools"},
           FullTools(request[r].used, request[r].method),
           ToolsKnown(d), SetupKnown(d), request'[r].tell # {} => d \in request'[r].to,
           last' # None, last'.cat = request[r].found,
           SetupDone(request[r].found) => "setup" \in request'[r].tell,
           ToolsDiffer(request[r].found, request[r].used.search) =>
              \/ "tools" \in request'[r].tell
              \/ request[r].client = d /\ request[r].method = "list"
    PROVE  ToolsKnown(d)' /\ SetupKnown(d)'
<1>1. /\ request[r].at = "resolved" /\ request'[r].at = "observed"
      /\ request[r].found \in CatalogRecords
      /\ request[r].found.cfg = request[r].used
      /\ request'[r].client = request[r].client
      /\ request'[r].method = request[r].method
      /\ request'[r].used = request[r].used
      /\ request'[r].found = request[r].found
  BY DEF Compared, SameOrigin, SameFinding
<1>2. request[r].tell = {}
  BY <1>1 DEF Base, RequestsFit, RequestFits
<1>3. \A x \in Requests : x # r => request'[x] = request[x]
  BY DEF Handles, SameRequest
<1>4. \A f : IsTold(d, f) => IsTold(d, f)'
  BY <1>2, <1>3, ToldKept
<1>5. \A f : f \in request'[r].tell => IsTold(d, f)'
  BY DEF IsTold
<1>6. last # None =>
        /\ View(last.cat) = View(request[r].found)
              \/ ToolsDiffer(request[r].found, request[r].used.search)
        /\ last.cat.pending = request[r].found.pending \/ SetupDone(request[r].found)
  BY <1>1, DifferencesAreSeen
<1>7. ToolsKnown(d)'
  <2>1. CASE request[r].client = d /\ request[r].method = "list"
    <3>1. /\ Lists(d, r, "list", {"observed"})'
          /\ View(request[r].found)' = View(last.cat)'
      BY <1>1, <2>1 DEF Lists, View, Tools
    <3> QED BY <3>1 DEF ToolsKnown
  <2>2. CASE /\ ~(request[r].client = d /\ request[r].method = "list")
             /\ ToolsDiffer(request[r].found, request[r].used.search)
    BY <1>5, <2>2 DEF ToolsKnown
  <2>3. CASE /\ ~(request[r].client = d /\ request[r].method = "list")
             /\ ~ToolsDiffer(request[r].found, request[r].used.search)
    <3>1. Unmoved(d, r, "list")
      BY <1>1, <2>3 DEF Unmoved, Lists
    <3>2. last # None => View(last'.cat) = View(last.cat)
      BY <1>6, <2>3
    <3> QED BY <1>3, <1>4, <3>1, <3>2, ToolsKept
  <2> QED BY <2>1, <2>2, <2>3
<1>8. SetupKnown(d)'
  <2>1. CASE request[r].client = d /\ request[r].method = "prompts"
    <3>1. Lists(d, r, "prompts", {"observed"})'
      BY <1>1, <2>1 DEF Lists
    <3>2. SetupAgrees(Shown(r))'
      BY <1>1 DEF SetupAgrees, Shown
    <3> QED BY <3>1, <3>2 DEF SetupKnown
  <2>2. CASE SetupDone(request[r].found)
    BY <1>5, <2>2 DEF SetupKnown
  <2>3. CASE /\ ~(request[r].client = d /\ request[r].method = "prompts")
             /\ ~SetupDone(request[r].found)
    <3>1. Unmoved(d, r, "prompts")
      BY <1>1, <2>3 DEF Unmoved, Lists
    <3>2. last # None => last'.cat.pending = last.cat.pending
      BY <1>6, <2>3
    <3> QED BY <1>3, <1>4, <3>1, <3>2, SetupKept
  <2> QED BY <2>1, <2>2, <2>3
<1> QED BY <1>7, <1>8

\* A list that ends without an answer is made again.
LEMMA EndedKnown ==
    ASSUME NEW r \in Requests, NEW d, Quietly(d, r), ToolsKnown(d), SetupKnown(d),
           request[r].at # "observed", request'[r].client = None, d # None,
           client'[d].notices = client[d].notices,
           client[d].stale \subseteq client'[d].stale,
           request[r].client = d => FamilyOf(request[r].method) \subseteq client'[d].stale
    PROVE  ToolsKnown(d)' /\ SetupKnown(d)'
<1>1. \A x \in Requests :
         /\ \/ request[x].tell = {}
            \/ request'[x].tell = request[x].tell /\ request'[x].to = request[x].to
         /\ x # r => request'[x] = request[x]
  BY DEF Quietly, Handles, SameRequest, SameNotice
<1>2. \A f : IsTold(d, f) => IsTold(d, f)'
  BY <1>1, ToldKept
<1>3. ToolsKnown(d)'
  <2>1. CASE Lists(d, r, "list", Coming)
    <3>1. "tools" \in client'[d].stale
      BY <2>1 DEF Lists, FamilyOf
    <3> QED BY <3>1 DEF ToolsKnown, IsTold
  <2>2. CASE ~Lists(d, r, "list", Coming)
    <3>1. Unmoved(d, r, "list")
      BY <2>2 DEF Unmoved, Lists
    <3> QED BY <1>1, <1>2, <3>1, ToolsKept DEF Quietly
  <2> QED BY <2>1, <2>2
<1>4. SetupKnown(d)'
  <2>1. CASE Lists(d, r, "prompts", Coming)
    <3>1. "setup" \in client'[d].stale
      BY <2>1 DEF Lists, FamilyOf
    <3> QED BY <3>1 DEF SetupKnown, IsTold
  <2>2. CASE ~Lists(d, r, "prompts", Coming)
    <3>1. Unmoved(d, r, "prompts")
      BY <2>2 DEF Unmoved, Lists
    <3> QED BY <1>1, <1>2, <3>1, SetupKept DEF Quietly
  <2> QED BY <2>1, <2>2
<1> QED BY <1>3, <1>4

LEMMA ClientsKnowStep ==
    ASSUME Wanted, Base, FamiliesFull, ClientsKnow, [Next]_vars
    PROVE  ClientsKnow'
<1> USE RecordFacts DEF userVars
<1>t. Typed /\ RequestsFit /\ OneList /\ SnapshotFits
  BY DEF Base
<1>n. \A r \in Requests : request[r].at = "resolved"
               /\ FullTools(request[r].used, request[r].method) =>
         request[r].found.family \in {"all", "tools"}
  BY DEF FamiliesFull, FullFamily
<1>a. \A r \in Requests :
         /\ request[r].at # "observed" => request[r].tell = {}
         /\ request[r].at = "idle" => request[r].client = None
  BY <1>t DEF RequestsFit, RequestFits, Idle
<1>u. stateful' = stateful
  BY DEF Next, Edit, Sign, Post, Identifies, Departs, Selects, Resolves, DiscoveryFails,
         ObservesSession, ObservesListeners, ObservesNothing, Responds, CleansUp,
         Deliver, vars
<1> SUFFICES ASSUME NEW d \in Clients, client'[d].on
             PROVE  ToolsKnown(d)' /\ SetupKnown(d)'
  BY <1>u DEF ClientsKnow, Clients
<1>d. d \in Users /\ d # None
  OBVIOUS
<1>q. client[d].on => ToolsKnown(d) /\ SetupKnown(d)
  BY DEF ClientsKnow
<1>l. ~stateful /\ client[d].on => d \in listeners /\ last # None
                                   /\ request[d].client = d
  BY <1>t DEF SnapshotFits, ListenerFits, ListenersCounted, Clients
<1>s. ASSUME UNCHANGED <<request, last>>,
             /\ client'[d].on = client[d].on
             /\ client'[d].listed = client[d].listed
             /\ client'[d].hidden = client[d].hidden
             /\ client[d].stale \cup client[d].notices
                   \subseteq client'[d].stale \cup client'[d].notices
      PROVE  ToolsKnown(d)' /\ SetupKnown(d)'
  <2>1. \A f : IsTold(d, f) => IsTold(d, f)'
    BY <1>s, ToldKept
  <2>2. ToolsKnown(d)'
    BY <1>s, <1>q, <2>1, ToolsKept
  <2>3. SetupKnown(d)'
    BY <1>s, <1>q, <2>1, SetupKept
  <2> QED BY <2>2, <2>3
<1>1. ASSUME NEW cfg \in Configs, Edit(cfg)
     PROVE  ToolsKnown(d)' /\ SetupKnown(d)'
  BY <1>1, <1>s DEF Edit
<1>2. CASE Sign
  BY <1>2, <1>s DEF Sign
<1>3. ASSUME NEW r \in Requests, NEW c \in Clients, NEW m \in Methods, Post(r, c, m)
     PROVE  ToolsKnown(d)' /\ SetupKnown(d)'
  <2>1. /\ client'[d].on = client[d].on
        /\ client'[d].listed = client[d].listed
        /\ client'[d].hidden = client[d].hidden
        /\ client'[d].notices = client[d].notices
        /\ client'[d].stale = IF d = c THEN client[d].stale \ FamilyOf(m)
                              ELSE client[d].stale
    <3>1. OthersKeep(c) /\ OnlyStale(c) /\ client'[c].stale = client[c].stale \ FamilyOf(m)
      BY <1>3, PostEffect
    <3>2. CASE d = c
      BY <3>1, <3>2 DEF OnlyStale
    <3>3. CASE d # c
      BY <1>d, <3>1, <3>3 DEF OthersKeep
    <3> QED BY <3>2, <3>3
  <2>2. /\ \A x \in Requests : x # r => request'[x] = request[x]
        /\ request[r].client = None /\ request[r].tell = {}
        /\ request'[r].at = "bridged" /\ last' = last
        /\ request'[r].client = c /\ request'[r].method = m
    BY <1>3, <1>a, PostEffect DEF Handles, SameRequest
  <2>3. \A method : Unmoved(d, r, method)
    BY <2>2 DEF Unmoved, Lists
  <2>4. \A f : (d = c => f \notin FamilyOf(m)) /\ IsTold(d, f) => IsTold(d, f)'
    BY <2>1, <2>2, ToldKept
  <2>5. ToolsKnown(d)'
    <3>1. CASE d = c /\ m = "list"
      <4>1. Lists(d, r, "list", Coming)'
        BY <2>2, <3>1 DEF Lists, Coming
      <4> QED BY <4>1 DEF ToolsKnown
    <3>2. CASE ~(d = c /\ m = "list")
      <4>1. d = c => "tools" \notin FamilyOf(m)
        BY <3>2 DEF FamilyOf
      <4> QED BY <1>q, <2>1, <2>2, <2>3, <2>4, <4>1, ToolsKept
    <3> QED BY <3>1, <3>2
  <2>6. SetupKnown(d)'
    <3>1. CASE d = c /\ m = "prompts"
      <4>1. Lists(d, r, "prompts", Coming)'
        BY <2>2, <3>1 DEF Lists, Coming
      <4> QED BY <4>1 DEF SetupKnown
    <3>2. CASE ~(d = c /\ m = "prompts")
      <4>1. d = c => "setup" \notin FamilyOf(m)
        BY <3>2 DEF FamilyOf
      <4> QED BY <1>q, <2>1, <2>2, <2>3, <2>4, <4>1, SetupKept
    <3> QED BY <3>1, <3>2
  <2> QED BY <2>5, <2>6
<1>4. ASSUME NEW r \in Requests,
             \/ Identifies(r) \/ Departs(r) \/ Selects(r) \/ Resolves(r)
             \/ DiscoveryFails(r) \/ ObservesSession(r) \/ ObservesListeners(r)
             \/ ObservesNothing(r) \/ Responds(r) \/ CleansUp(r)
     PROVE  ToolsKnown(d)' /\ SetupKnown(d)'
  <2>0. CASE Identifies(r)
    <3>1. Quietly(d, r) /\ client' = client
      BY <2>0, IdentifiesEffect DEF Quietly
    <3>2. \A method : Unmoved(d, r, method)
      BY <2>0, IdentifiesEffect DEF Unmoved, Lists, Coming, SameOrigin
    <3> QED BY <1>q, <3>1, <3>2, KnownKept
  <2>1. CASE Departs(r)
    <3>1. ~(request[r].client = d /\ request[r].method = "listen")
      BY <2>1, DepartsEffect DEF NewClient
    <3>2. /\ client'[d].on = client[d].on
          /\ client'[d].listed = client[d].listed
          /\ client'[d].hidden = client[d].hidden
          /\ client'[d].notices = client[d].notices
          /\ client[d].stale \subseteq client'[d].stale
          /\ request[r].client = d => FamilyOf(request[r].method) \subseteq client'[d].stale
      <4>1. CASE request[r].client = d
        <5>1. /\ OnlyStale(d)
              /\ client'[d].stale = client[d].stale \cup FamilyOf(request[r].method)
          BY <2>1, <3>1, <4>1, DepartsEffect
        <5> QED BY <4>1, <5>1 DEF OnlyStale
      <4>2. CASE request[r].client # d
        BY <2>1, <1>d, <4>2, DepartsEffect DEF OthersKeep
      <4> QED BY <4>1, <4>2
    <3>3. /\ Quietly(d, r) /\ request[r].at # "observed" /\ request'[r].client = None
      BY <2>1, <3>2, DepartsEffect DEF Quietly
    <3> QED BY <1>q, <3>2, <3>3, EndedKnown
  <2>2. CASE Selects(r)
    <3>1. Quietly(d, r) /\ client' = client
      BY <2>2, SelectsEffect DEF Quietly
    <3>2. \A method : Unmoved(d, r, method)
      BY <2>2, SelectsEffect DEF Unmoved, Lists, Coming, SameOrigin
    <3> QED BY <1>q, <3>1, <3>2, KnownKept
  <2>3. CASE Resolves(r)
    <3>1. Quietly(d, r) /\ client' = client
      BY <2>3, ResolvesEffect DEF Quietly
    <3>2. \A method : Unmoved(d, r, method)
      BY <2>3, ResolvesEffect DEF Unmoved, Lists, Coming, SameOrigin
    <3> QED BY <1>q, <3>1, <3>2, KnownKept
  <2>4. CASE DiscoveryFails(r)
    <3>1. /\ client'[d].on = client[d].on
          /\ client'[d].listed = client[d].listed
          /\ client'[d].hidden = client[d].hidden
          /\ client'[d].notices = client[d].notices
          /\ client[d].stale \subseteq client'[d].stale
          /\ request[r].client = d => FamilyOf(request[r].method) \subseteq client'[d].stale
      BY <2>4, DiscoveryFailsEffect DEF OthersKeep, OnlyStale
    <3>2. request[r].at # "observed" /\ request'[r].client = None /\ request[r].tell = {}
      BY <2>4, <1>a, DiscoveryFailsEffect DEF Ends, Idle
    <3>3. Quietly(d, r)
      BY <2>4, <3>1, <3>2, DiscoveryFailsEffect DEF Quietly
    <3> QED BY <1>q, <3>1, <3>2, <3>3, EndedKnown
  <2>5. CASE ObservesSession(r)
    <3>1. d = Session /\ client[d].on
      BY <2>5, ObservesSessionEffect DEF Clients
    <3>2. request[r].method = "list" => request[r].client = Session
      <4>1. stateful /\ request[r].at = "resolved"
        BY <2>5, ObservesSessionEffect DEF Compared
      <4>2. request[r].method = "list" => Served(r)
        BY <1>t, <4>1 DEF Wanted, RequestsFit, RequestFits
      <4>3. Served(r) => request[r].client \in Clients
        BY <1>t DEF RequestsFit, RequestFits
      <4> QED BY <4>1, <4>2, <4>3 DEF Clients
    <3>3. /\ SetupDone(request[r].found) => "setup" \in Changes(r, FALSE)
          /\ ToolsDiffer(request[r].found, request[r].used.search)
                /\ request[r].method # "list" => "tools" \in Changes(r, FALSE)
      BY DEF Changes
    <3>4. last' # None /\ request[r].found.family \in {"all", "tools"}
      BY <2>5, <1>n, CatalogAssumption, ObservesSessionEffect DEF Compared
    <3>5. request'[r].tell # {} => d \in request'[r].to
      BY <2>5, <3>1, ObservesSessionEffect DEF Addressed
    <3> QED BY <2>5, <1>q, <3>1, <3>2, <3>3, <3>4, <3>5, ObservesSessionEffect, ComparedKnown
  <2>6. CASE ObservesListeners(r)
    <3>1. client[d].on /\ d \in listeners /\ last # None
      BY <2>6, <1>l, ObservesListenersEffect
    <3>2. /\ SetupDone(request[r].found) => "setup" \in Changes(r, TRUE)
          /\ ToolsDiffer(request[r].found, request[r].used.search) =>
                "tools" \in Changes(r, TRUE)
      BY DEF Changes
    <3>3. last' # None /\ last'.cat = request[r].found
          /\ request[r].found.family \in {"all", "tools"}
      BY <2>6, <1>n, <3>1, CatalogAssumption, ObservesListenersEffect DEF Compared
    <3>4. request'[r].tell # {} => d \in request'[r].to
      BY <2>6, <3>1, ObservesListenersEffect DEF Addressed
    <3> QED BY <2>6, <1>q, <3>1, <3>2, <3>3, <3>4, ObservesListenersEffect, ComparedKnown
  <2>7. CASE ObservesNothing(r)
    <3>1. /\ client' = client /\ last' = last /\ request[r].method # "list"
          /\ \A x \in Requests : x # r => request'[x] = request[x]
          /\ request[r].at = "resolved" /\ request'[r].at = "observed"
          /\ SameOrigin(r) /\ SameFinding(r) /\ SameNotice(r)
          /\ ~FullTools(request[r].used, request[r].method)
      BY <2>7, ObservesNothingEffect DEF Compared, FullTools, Handles, SameRequest
    <3>2. \A f : IsTold(d, f) => IsTold(d, f)'
      BY <3>1, ToldKept DEF SameNotice
    <3>3. ToolsKnown(d)'
      <4>1. Unmoved(d, r, "list")
        BY <3>1 DEF Unmoved, Lists, SameOrigin
      <4> QED BY <1>q, <3>1, <3>2, <4>1, ToolsKept
    <3>4. SetupKnown(d)'
      <4>1. CASE request[r].client = d /\ request[r].method = "prompts"
        <5>1. Lists(d, r, "prompts", {"observed"})'
          BY <3>1, <4>1 DEF Lists, SameOrigin
        <5>2. SetupAgrees(Shown(r))'
          BY <3>1, <4>1 DEF SetupAgrees, Shown, FullTools, SameFinding
        <5> QED BY <5>1, <5>2 DEF SetupKnown
      <4>2. CASE ~(request[r].client = d /\ request[r].method = "prompts")
        <5>1. Unmoved(d, r, "prompts")
          BY <3>1, <4>2 DEF Unmoved, Lists, SameOrigin
        <5> QED BY <1>q, <3>1, <3>2, <5>1, SetupKept
      <4> QED BY <4>1, <4>2
    <3> QED BY <3>3, <3>4
  <2>8. CASE Responds(r)
    <3>1. /\ last' = last /\ request[r].at = "observed" /\ AnswerEffect(r, d)
          /\ \A x \in Requests : x # r => request'[x] = request[x]
          /\ request'[r].at \in {"idle", "listening"}
      BY <2>8, RespondsEffect DEF Handles, SameRequest, Ends, Idle
    <3>2. CASE ~client[d].on
      <4>1. request[r].client = d /\ request[r].method = "listen" /\ ~stateful
        BY <3>1, <3>2, <1>t DEF AnswerEffect, RequestsFit, RequestFits
      <4>2. client[d].stale = Flags
        BY <3>2, <4>1, <1>t DEF SnapshotFits, ListenerFits, Clients
      <4>3. {"tools", "setup"} \subseteq client'[d].stale
        BY <3>1, <4>2 DEF AnswerEffect, Flags
      <4> QED BY <4>3 DEF ToolsKnown, SetupKnown, IsTold
    <3>3. CASE client[d].on
      <4>1. \A f : IsTold(d, f) => IsTold(d, f)'
        <5>1. /\ client'[d].stale = client[d].stale
              /\ client[d].notices \subseteq client'[d].notices
              /\ d \in request[r].to => request[r].tell \subseteq client'[d].notices
          BY <3>1, <3>3 DEF AnswerEffect
        <5> QED BY <3>1, <5>1 DEF IsTold
      <4>2. ToolsKnown(d)'
        <5>1. CASE request[r].client = d /\ request[r].method = "list"
          <6>1. client'[d].listed = View(request[r].found)
            BY <3>1, <5>1 DEF AnswerEffect
          <6>2. \A x \in Requests : Lists(d, x, "list", Coming \cup {"observed"}) => x = r
            <7>1. FamilyOf("list") # {}
              BY DEF FamilyOf
            <7> QED BY <5>1, <7>1, <1>d, <1>t DEF OneList, Lists
          <6>3. \A x \in Requests : ~Lists(d, x, "list", {"observed"})'
            BY <3>1, <6>2 DEF Lists
          <6>4. \A x \in Requests : ~Lists(d, x, "list", Coming)
            BY <3>1, <6>2 DEF Lists, Coming
          <6>5. CASE IsTold(d, "tools")
            BY <4>1, <6>5 DEF ToolsKnown
          <6>6. CASE last # None /\ View(request[r].found) = View(last.cat)
            <7>1. last' # None /\ client'[d].listed = View(last'.cat)
              BY <3>1, <6>1, <6>6
            <7> QED BY <6>3, <7>1 DEF ToolsKnown, View, Tools
          <6>7. CASE \A x \in Requests : ~Lists(d, x, "list", {"observed"})
            BY <3>1, <5>1, <6>7 DEF Lists
          <6> QED BY <1>q, <3>3, <6>2, <6>4, <6>5, <6>6, <6>7 DEF ToolsKnown, Lists
        <5>2. CASE ~(request[r].client = d /\ request[r].method = "list")
          <6>1. Unmoved(d, r, "list")
            BY <3>1, <5>2 DEF Unmoved, Lists, Coming
          <6>2. client'[d].listed = client[d].listed
            BY <3>1, <5>2 DEF AnswerEffect
          <6> QED BY <1>q, <3>1, <3>3, <4>1, <6>1, <6>2, ToolsKept
        <5> QED BY <5>1, <5>2
      <4>3. SetupKnown(d)'
        <5>1. CASE request[r].client = d /\ request[r].method = "prompts"
          <6>1. client'[d].hidden = Shown(r)
            BY <3>1, <5>1 DEF AnswerEffect, Shown
          <6>2. \A x \in Requests : Lists(d, x, "prompts", Coming \cup {"observed"}) => x = r
            <7>1. FamilyOf("prompts") # {}
              BY DEF FamilyOf
            <7> QED BY <5>1, <7>1, <1>d, <1>t DEF OneList, Lists
          <6>3. \A x \in Requests : ~Lists(d, x, "prompts", {"observed"})'
            BY <3>1, <6>2 DEF Lists
          <6>4. \A x \in Requests : ~Lists(d, x, "prompts", Coming)
            BY <3>1, <6>2 DEF Lists, Coming
          <6>5. CASE IsTold(d, "setup")
            BY <4>1, <6>5 DEF SetupKnown
          <6>6. CASE SetupAgrees(Shown(r))
            <7>1. SetupAgrees(client[d].hidden)'
              BY <3>1, <6>1, <6>6 DEF SetupAgrees
            <7> QED BY <6>3, <7>1 DEF SetupKnown
          <6>7. CASE \A x \in Requests : ~Lists(d, x, "prompts", {"observed"})
            BY <3>1, <5>1, <6>7 DEF Lists
          <6> QED BY <1>q, <3>3, <6>2, <6>4, <6>5, <6>6, <6>7 DEF SetupKnown, Lists
        <5>2. CASE ~(request[r].client = d /\ request[r].method = "prompts")
          <6>1. Unmoved(d, r, "prompts")
            BY <3>1, <5>2 DEF Unmoved, Lists, Coming
          <6>2. client'[d].hidden = client[d].hidden
            BY <3>1, <5>2 DEF AnswerEffect
          <6> QED BY <1>q, <3>1, <3>3, <4>1, <6>1, <6>2, SetupKept
        <5> QED BY <5>1, <5>2
      <4> QED BY <4>2, <4>3
    <3> QED BY <3>2, <3>3
  <2>9. CASE CleansUp(r)
    <3>1. client' = client /\ client[d].on /\ request[r].at = "listening"
          /\ request[r].client = None
      BY <2>9, CleansUpEffect
    <3>2. ~stateful
      BY <2>9, <1>t, <3>1 DEF RequestsFit, RequestFits
    <3>3. last' = last
      BY <2>9, <1>l, <1>d, <3>1, <3>2, CleansUpEffect
    <3>4. Quietly(d, r)
      BY <2>9, <1>a, <3>1, <3>3, CleansUpEffect DEF Quietly
    <3>5. \A method : Unmoved(d, r, method)
      BY <2>9, <3>1, CleansUpEffect DEF Unmoved, Lists, Coming, Ends, Idle
    <3> QED BY <1>q, <3>1, <3>4, <3>5, KnownKept
  <2> QED BY <1>4, <2>0, <2>1, <2>2, <2>3, <2>4, <2>5, <2>6, <2>7, <2>8, <2>9
<1>5. ASSUME NEW c \in Clients, Deliver(c)
     PROVE  ToolsKnown(d)' /\ SetupKnown(d)'
  <2>1. client'[d].on = client[d].on /\ client'[d].listed = client[d].listed
        /\ client'[d].hidden = client[d].hidden
        /\ client'[d].stale \cup client'[d].notices = client[d].stale \cup client[d].notices
    BY <1>5, DeliverEffect DEF OthersKeep
  <2> QED BY <1>5, <2>1, <1>s, DeliverEffect
<1>6. CASE UNCHANGED vars
  BY <1>6, <1>s DEF vars, userVars
<1> QED BY <1>1, <1>2, <1>3, <1>4, <1>5, <1>6 DEF Next, Methods

----------------------------------------------------------------------------
(* The theorems.                                                           *)

\* What requests and clients hold is of the kind that the bridge, the handlers and
\* the protocol give it, and a configuration ID has a snapshot exactly while it has
\* listeners (notifications.go:52-82).
THEOREM TypeCorrect == Spec => []TypeOK
<1>1. Base => TypeOK
  <2> SUFFICES ASSUME Base PROVE TypeOK
    OBVIOUS
  <2>1. Typed /\ RequestsFit /\ ListenersCounted
    BY DEF Base, SnapshotFits
  <2>2. {current, late.cfg} \subseteq Configs
    BY <2>1 DEF Typed, Selections
  <2>3. DOMAIN selections \subseteq {request[r].token : r \in Requests}
    <3>1. ASSUME NEW r \in DOMAIN selections PROVE r \in Requests /\ request[r].token = r
      <4>1. r \in Requests /\ RequestFits(r)
        BY <2>1 DEF Typed, RequestsFit
      <4>2. request[r].client # None
        BY <4>1 DEF RequestFits, Served
      <4> QED BY <4>1, <4>2 DEF RequestFits, Idle
    <3> QED BY <3>1
  <2>4. ASSUME NEW r \in Requests
        PROVE  /\ request[r].at \in {"idle", "bridged", "posted", "selected", "resolved",
                                     "observed", "listening"}
               /\ request[r].found \in CatalogRecords \cup {None}
    BY <2>1 DEF Typed, RequestRecords
  <2>5. last # None => last.cat \in CatalogRecords
    BY <2>1 DEF Typed, Snapshots
  <2> QED BY <2>1, <2>2, <2>3, <2>4, <2>5 DEF TypeOK, Typed, ListenersCounted
<1> QED BY <1>1, BaseInit, BaseStep, PTL DEF Spec

\* While its POST is open a request is served under the configuration that it
\* selected, in a session or not, whichever methods' handlers outlive their POST:
\* tokens are never shared (http_config_bridge.go:40-49, 115-118).
THEOREM ServedBySelectionCorrect == Spec => []ServedBySelection
<1>1. Base => ServedBySelection
  BY DEF Base, RequestsFit, RequestFits, ServedBySelection
<1> QED BY <1>1, BaseInit, BaseStep, PTL DEF Spec

\* A client that was told nothing since it listed holds what the last full snapshot
\* shows, provided that no list's handler outlives its POST in a session; without
\* this hypothesis it fails (handler.go:42-69, notifications.go:41-91).
THEOREM QuietClientIsCurrentCorrect ==
    ASSUME "list" \notin Outlived
    PROVE  Spec => []QuietClientIsCurrent
<1>w. Wanted
  BY DEF Wanted
<1>1. Init => IndInv
  BY BaseInit, FamiliesFullInit, ClientsKnowInit DEF IndInv
<1>2. IndInv /\ [Next]_vars => IndInv'
  BY <1>w, BaseStep, FamiliesFullStep, ClientsKnowStep DEF IndInv
<1>3. IndInv => QuietClientIsCurrent
  <2> SUFFICES ASSUME IndInv, NEW c \in Clients, Quiet(c), last # None
               PROVE  /\ client[c].listed = View(last.cat)
                      /\ client[c].hidden \in {None, last.cat.pending}
    BY DEF QuietClientIsCurrent
  <2>1. ToolsKnown(c) /\ SetupKnown(c)
    BY DEF IndInv, ClientsKnow, Quiet
  <2>2. \A f : ~IsTold(c, f)
    <3>1. \A r \in Requests : request[r].tell = {}
      BY DEF IndInv, Base, RequestsFit, RequestFits, Quiet
    <3> QED BY <3>1 DEF IsTold, Quiet
  <2>3. \A r \in Requests : \A points :
           ~Lists(c, r, "list", points) /\ ~Lists(c, r, "prompts", points)
    BY DEF Quiet, Lists, FamilyOf
  <2>4. client[c].listed = View(last.cat)
    BY <2>1, <2>2, <2>3 DEF ToolsKnown
  <2>5. client[c].hidden \in {None, last.cat.pending}
    BY <2>1, <2>2, <2>3 DEF SetupKnown, SetupAgrees
  <2> QED BY <2>4, <2>5
<1> QED BY <1>1, <1>2, <1>3, PTL DEF Spec

\* A client is told of a change only by a request under another configuration or
\* another sign-in than the one before, under the same hypothesis: what is compared
\* has all tools, so a narrowed catalog is never taken for a change
\* (handler.go:33-37).
THEOREM NoticesMeanChangesCorrect ==
    ASSUME "list" \notin Outlived
    PROVE  Spec => NoticesMeanChanges
<1> DEFINE Means == \A r \in Requests :
         request[r].at = "resolved" /\ request'[r].tell # {} =>
           \/ request[r].found.cfg # last.cat.cfg
           \/ request[r].found.pending # last.cat.pending
           Inv == Base /\ FamiliesFull
<1>w. Wanted
  BY DEF Wanted
<1>1. Init => Inv
  BY BaseInit, FamiliesFullInit
<1>2. Inv /\ [Next]_vars => Inv'
  BY <1>w, BaseStep, FamiliesFullStep
<1>3. Inv /\ [Next]_vars => [Means]_vars
  <2> SUFFICES ASSUME Base, FamiliesFull, Next, NEW r \in Requests,
                      request[r].at = "resolved", request'[r].tell # {}
               PROVE  \/ request[r].found.cfg # last.cat.cfg
                      \/ request[r].found.pending # last.cat.pending
    BY DEF vars
  <2>0. request[r].tell = {}
    BY DEF Base, RequestsFit, RequestFits
  <2>1. \/ ObservesSession(r) \/ ObservesListeners(r)
    <3>1. ASSUME NEW x \in Requests, Handles(x), x # r PROVE FALSE
      BY <2>0, <3>1 DEF Handles, SameRequest
    <3>2. request' # request
      BY <2>0
    <3>3. ~Identifies(r) /\ ~Departs(r) /\ ~ObservesNothing(r)
      BY <2>0, IdentifiesEffect, DepartsEffect, ObservesNothingEffect DEF SameNotice
    <3>4. /\ ~Selects(r) /\ ~Resolves(r) /\ ~DiscoveryFails(r) /\ ~Responds(r)
          /\ ~CleansUp(r)
      BY DEF Selects, Resolves, DiscoveryFails, Responds, CleansUp
    <3>5. ~\E cfg \in Configs : Edit(cfg)
      BY <3>2 DEF Edit
    <3>6. ~Sign
      BY <3>2 DEF Sign
    <3>7. ~\E x \in Requests, c \in Clients, m \in Methods : Post(x, c, m)
      BY <3>1, PostEffect
    <3>8. ~\E c \in Clients : Deliver(c)
      BY <3>2 DEF Deliver
    <3>9. \A x \in Requests : x # r =>
            /\ ~Identifies(x) /\ ~Departs(x) /\ ~Selects(x) /\ ~Resolves(x) /\ ~DiscoveryFails(x)
            /\ ~ObservesSession(x) /\ ~ObservesListeners(x) /\ ~ObservesNothing(x)
            /\ ~Responds(x) /\ ~CleansUp(x)
      BY <3>1, IdentifiesEffect, DepartsEffect, SelectsEffect, ResolvesEffect, DiscoveryFailsEffect,
         ObservesSessionEffect, ObservesListenersEffect, ObservesNothingEffect,
         RespondsEffect, CleansUpEffect
    <3> QED BY <3>3, <3>4, <3>5, <3>6, <3>7, <3>8, <3>9 DEF Next, Methods
  <2>2. /\ FullTools(request[r].used, request[r].method)
        /\ \/ ToolsDiffer(request[r].found, request[r].used.search)
           \/ SetupDone(request[r].found)
        /\ request[r].found.cfg = request[r].used
    BY <2>1, ObservesSessionEffect, ObservesListenersEffect DEF Changes, Compared
  <2>3. CASE SetupDone(request[r].found)
    BY <2>3 DEF SetupDone, SetupChanged
  <2>4. CASE /\ ToolsDiffer(request[r].found, request[r].used.search)
             /\ ~SetupDone(request[r].found)
    <3>1. last # None /\ (\/ last.search # request[r].used.search
                          \/ Tools(last.cat) # Tools(request[r].found))
      BY <2>4 DEF ToolsDiffer
    <3>2. last.search = last.cat.cfg.search /\ last.cat.family \in {"all", "tools"}
      BY <3>1 DEF Base, SnapshotFits, LastFits, FamiliesFull
    <3>3. request[r].found.family \in {"all", "tools"}
      BY <2>2 DEF FamiliesFull, FullFamily
    <3> QED BY <2>2, <3>1, <3>2, <3>3 DEF Tools
  <2> QED BY <2>2, <2>3, <2>4
<1> QED BY <1>1, <1>2, <1>3, PTL DEF Spec, NoticesMeanChanges

=============================================================================
