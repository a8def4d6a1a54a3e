------------------------------ MODULE MoqRelay ------------------------------
(***************************************************************************)
(* The MoQ relay (examples/moq-relay.c): the application that the library   *)
(* was written to support, between the connections of publishers and those  *)
(* of subscribers.  All its callbacks, the loop that serves FETCH and the   *)
(* thread that adapts scalable video run under one mutex; what that mutex   *)
(* guards is the record "relay", and each action is one critical section.   *)
(*                                                                          *)
(* A request is a connection and a request ID: even IDs are the peers',     *)
(* odd ones the relay's.  Versions 17 and 18 are meant, on which the        *)
(* library refuses a PUBLISH_DONE out of place.  Requests that leave the    *)
(* tables as they are (a reserved namespace, a wrong token, TRACK_STATUS)   *)
(* are left out, and so are callbacks for IDs the relay does not know.      *)
(***************************************************************************)
EXTENDS Integers, Sequences, FiniteSets, SequencesExt, Functions

CONSTANTS
    NULL,
    Publishers,   \* connections that publish
    Subscribers,  \* connections that subscribe and fetch
    Watchers,     \* connections that subscribe to namespaces and tracks
    Namespaces,   \* published namespaces, each a sequence of names
    Watched,      \* namespaces that watchers subscribe to
    Keys,         \* tracks, each a pair of a namespace and a name
    Locations,    \* locations <<group, object>> of the objects of a track, in order
    Layer,        \* scalable video layer of the object at each location
    Filters,      \* subscription filters
    Ranges,       \* ranges of standalone FETCH, the end's object one too many or 0
    Joins,        \* joining FETCH: [absolute, start]
    Orders,       \* group orders of a FETCH
    Wants,        \* options of SUBSCRIBE_NAMESPACE
    LayerLimit,   \* options.svc_max_temporal_layer
    Forwards,     \* values of the forward parameter of new requests
    MaxPublished, \* bound: requests of each publisher
    MaxRequests,  \* bound: requests of each other peer
    MaxTotal,     \* bound: requests of all peers
    MaxObjects,   \* bound: objects of all publishers
    MaxVarint,    \* stands for IMQUIC_MAX_VARINT
    Cases         \* cases that may happen, of those the relay gets wrong

Conns == Publishers \cup Subscribers \cup Watchers
PeerIds == {2 * n : n \in 0..Max({MaxPublished, MaxRequests})}
ProblemCases == {"late join", "join too far", "tracks left", "foreign publish",
                 "upstream refused", "overlapping update", "address reused",
                 "several match"}

ASSUME RelayAssumption ==
    /\ \A ns \in Namespaces \cup Watched : ns \in Seq(STRING)
    /\ \A key \in Keys : key[1] \in Namespaces
    /\ \A i \in DOMAIN Locations : Locations[i] \in Nat \X Nat
    /\ Layer \in [Range(Locations) -> Nat]
    /\ Forwards \subseteq BOOLEAN /\ {MaxPublished, MaxRequests, MaxTotal, MaxObjects} \subseteq Nat /\ MaxVarint \in Nat /\ LayerLimit \in Nat \cup {-1}
    /\ Orders \subseteq {"ascending", "descending"} /\ Wants \subseteq {"namespace", "publish", "both"}
    /\ Cases \subseteq ProblemCases

VARIABLES
    relay,       \* what the relay's mutex guards, and what it sent on each request
    connected,   \* connections that are up
    nextRequest, \* next request ID of each peer
    publishing,  \* tracks that publishers send: request and next object, by alias
    objectsSent  \* objects sent by all publishers

vars == <<relay, connected, nextRequest, publishing, objectsSent>>

-----------------------------------------------------------------------------
(* Tables, locations, filters.                                              *)

With(value, Op(_)) == CHOOSE r \in {Op(v) : v \in {value}} : TRUE
Put(f, k, v) == [x \in DOMAIN f \cup {k} |-> IF x = k THEN v ELSE f[x]]
Without(f, S) == Restrict(f, DOMAIN f \ S)

Before(a, b) == a[1] < b[1] \/ (a[1] = b[1] /\ a[2] < b[2])
Largest(t) == IF t.objects = <<>> THEN NULL ELSE Head(t.objects).loc

\* Mutant: the start of the range is ignored.
StartOfAny(filter, largest) == IF largest = NULL THEN <<0, 0>> ELSE largest
StartOf(filter, largest) ==
    CASE filter.type = "largest" -> IF largest = NULL THEN <<0, 0>> ELSE largest
      [] filter.type = "next" -> IF largest = NULL THEN <<0, 0>> ELSE <<largest[1] + 1, 0>>
      [] OTHER -> filter.start
EndOf(filter) ==
    <<IF filter.type = "range" /\ filter.endGroup # 0 THEN filter.endGroup - 1 ELSE MaxVarint, MaxVarint>>

Track == [requestId |-> 0, alias |-> NULL, published |-> FALSE, pending |-> TRUE,
          subscriptions |-> <<>>, objects |-> <<>>, layers |-> 0]
Publisher == [byId |-> <<>>, byAlias |-> <<>>, namespacesById |-> <<>>]
Subscriber == [nextAlias |-> 0, byAlias |-> <<>>, byId |-> <<>>]
Subscription(key, alias) ==
    [track |-> key, alias |-> alias, active |-> FALSE, start |-> <<0, 0>>, end |-> <<0, 0>>,
     fetch |-> FALSE, forward |-> TRUE, objects |-> <<>>, svc |-> NULL]
Request(kind, what) ==
    [kind |-> kind, what |-> what, answers |-> <<>>, ended |-> "no", paused |-> FALSE, got |-> <<>>, names |-> {}]

HasPublisher(r, c) == IF c \in DOMAIN r.publishers THEN r ELSE [r EXCEPT !.publishers = Put(@, c, Publisher)]
HasSubscriber(r, c) == IF c \in DOMAIN r.subscribers THEN r ELSE [r EXCEPT !.subscribers = Put(@, c, Subscriber)]
The(r, s) == r.subscribers[s[1]].byId[s[2]]

-----------------------------------------------------------------------------
(* What the relay tells its peers, through the library.                     *)

Answer(r, q, a) == [r EXCEPT !.requests[q].answers = Append(@, a)]
\* The library refuses to answer the relay's own PUBLISH.
AnswerSubscribes(r, S, a) ==
    [r EXCEPT !.requests = [q \in DOMAIN @ |->
        IF q \in S /\ r.requests[q].kind = "subscribe" THEN [r.requests[q] EXCEPT !.answers = Append(@, a)]
        ELSE r.requests[q]]]
MayEnd(request) == /\ request.kind \in {"subscribe", "publish"}
                   /\ request.answers = <<"ok">> /\ request.ended = "no"
PublishDoneSent(r, S) ==
    [r EXCEPT !.requests = [q \in DOMAIN @ |->
        IF q \in S /\ MayEnd(r.requests[q]) THEN [r.requests[q] EXCEPT !.ended = "done"] ELSE r.requests[q]]]
SendObject(r, s, object) ==
    IF s \in DOMAIN r.requests THEN [r EXCEPT !.requests[s].got = Append(@, object)] ELSE r
Object(object, alias, last) == [origin |-> object.origin, loc |-> object.loc, alias |-> alias, last |-> last]

-----------------------------------------------------------------------------
(* Constructors and destructors.                                            *)

SubscriptionCreate(r, s, subscription) ==
    [r EXCEPT !.subscribers[s[1]].byId = Put(@, s[2], subscription),
              !.tracks[subscription.track].subscriptions = Append(@, s)]
\* Mutant: the subscription stays in its track's list.
SubscriptionForgotten(r, s) ==
    [r EXCEPT !.subscribers[s[1]].byId = Without(@, {s[2]}), !.fetches = @ \ {s}]
SubscriptionDestroy(r, s) ==
    LET key == The(r, s).track
    IN  [r EXCEPT !.subscribers[s[1]].byId = Without(@, {s[2]}),
                  !.tracks = IF key = NULL THEN @
                             ELSE [@ EXCEPT ![key].subscriptions = SelectSeq(@, LAMBDA x : x # s)],
                  !.fetches = @ \ {s}]
\* Mutant: only the alias is forgotten.
RemoveAlias(r, s) == [r EXCEPT !.subscribers[s[1]].byAlias = Without(@, {The(r, s).alias})]
RemoveSubscription(r, s) ==
    SubscriptionDestroy([r EXCEPT !.subscribers[s[1]].byAlias = Without(@, {The(r, s).alias})], s)

SubscriberDestroy(r, c) ==
    [r EXCEPT !.subscribers = Without(@, {c}),
              !.tracks = [key \in DOMAIN @ |-> [r.tracks[key] EXCEPT
                  !.subscriptions = SelectSeq(@, LAMBDA s : s[1] # c)]],
              !.fetches = {s \in @ : s[1] # c}]

\* The entries of the publisher go only while the namespace is there: "c" is NULL otherwise.
TrackDestroy(r, key, c) ==
    LET t    == r.tracks[key]
        subs == Range(t.subscriptions)
        Cut(s, sub) == IF s \in subs THEN [sub EXCEPT !.track = NULL, !.objects = <<>>] ELSE sub
        gone == [r EXCEPT
            !.tracks = Without(@, {key}),
            !.publishers = IF c = NULL THEN @
                           ELSE [@ EXCEPT ![c].byAlias = Without(@, {t.alias}), ![c].byId = Without(@, {t.requestId})],
            !.subscribers = [d \in DOMAIN @ |-> [r.subscribers[d] EXCEPT
                !.byId = [i \in DOMAIN @ |-> Cut(<<d, i>>, r.subscribers[d].byId[i])]]],
            !.fetches = @ \ subs,
            !.monitors = IF "address reused" \in Cases THEN @
                         ELSE [i \in DOMAIN @ |-> [r.monitors[i] EXCEPT !.known = @ \ {key}]]]
    IN  IF t.published THEN PublishDoneSent(gone, subs) ELSE gone

-----------------------------------------------------------------------------
(* Monitors.                                                                *)

\* Mutant: the namespace and the prefix change places.
MatchingSwapped(r, c, ns) ==
    SelectSeq([i \in DOMAIN r.monitors |-> i],
              LAMBDA i : r.monitors[i].conn # c /\ IsPrefix(ns, r.monitors[i].prefix))
Matching(r, c, ns) ==
    SelectSeq([i \in DOMAIN r.monitors |-> i],
              LAMBDA i : r.monitors[i].conn # c /\ IsPrefix(r.monitors[i].prefix, ns))

\* The announced namespaces that match a prefix "c" watches, and those it is not told of since
\* only a namespace of that very name is looked for when it asks.
Announcements(r, c, prefix) ==
    {ns \in DOMAIN r.namespaces :
        r.namespaces[ns].announced /\ r.namespaces[ns].pub # c /\ IsPrefix(prefix, ns)}
Announcement(r, ns) == <<r.namespaces[ns].pub, r.namespaces[ns].requestId>>
PassedOver(r, c, prefix) == {Announcement(r, ns) : ns \in Announcements(r, c, prefix) \ {prefix}}
\* One flag per monitor does for one namespace at a time.
OneMatches(r) ==
    \A m \in Range(r.monitors) :
        m.wants # "publish" => Cardinality(Announcements(r, m.conn, m.prefix)) <= 1
FlagFits(r) == "several match" \in Cases \/ OneMatches(r)

\* Mutant: that the namespace ended is not noted.
AlertOnce(r, i, ns, done) ==
    LET m == r.monitors[i]
    IN  IF ~r.namespaces[ns].announced \/ m.wants = "publish" \/ m.published # done THEN r
        ELSE [r EXCEPT !.monitors[i].published = TRUE,
                       !.requests[<<m.conn, m.id>>].names = IF done THEN @ \ {ns} ELSE @ \cup {ns}]
AlertOfNamespace(r, i, ns, done) ==
    LET m == r.monitors[i]
    IN  IF ~r.namespaces[ns].announced \/ m.wants = "publish" \/ m.published # done THEN r
        ELSE [r EXCEPT !.monitors[i].published = ~done,
                       !.requests[<<m.conn, m.id>>].names = IF done THEN @ \ {ns} ELSE @ \cup {ns}]

\* The subscriber is looked up by the publisher's connection "c", and made for the monitor's.
SubscriberFor(r, c, m) == IF c \in DOMAIN r.subscribers THEN c ELSE m.conn
AlertOfTrack(r, i, key, c) ==
    LET m     == r.monitors[i]
        owner == SubscriberFor(r, c, m)
        fresh == IF owner = c THEN r ELSE
                 IF owner \in DOMAIN r.subscribers THEN HasSubscriber(SubscriberDestroy(r, owner), owner)
                 ELSE HasSubscriber(r, owner)
        id    == r.next[m.conn]
        alias == fresh.subscribers[owner].nextAlias
        s     == [Subscription(key, alias) EXCEPT !.forward = m.forward, !.end = <<MaxVarint, MaxVarint>>]
        ready == [IF id \in DOMAIN fresh.subscribers[owner].byId THEN SubscriptionDestroy(fresh, <<owner, id>>) ELSE fresh
                  EXCEPT !.subscribers[owner].nextAlias = @ + 1,
                         !.subscribers[owner].byAlias = Put(@, alias, id),
                         !.monitors[i].known = @ \cup {key},
                         !.next[m.conn] = @ + 2,
                         !.requests = Put(@, <<m.conn, id>>, [Request("publish", [key |-> key, filter |-> NULL])
                                                               EXCEPT !.paused = ~m.forward])]
    IN  IF m.wants = "namespace" \/ key = NULL \/ key \in m.known THEN r
        ELSE SubscriptionCreate(ready, <<owner, id>>, s)

AlertMonitors(r, ns, key, done) ==
    LET c == r.namespaces[ns].pub
        Alert(acc, i) == With(AlertOfNamespace(acc, i, ns, done), LAMBDA a : AlertOfTrack(a, i, key, c))
    IN  FoldLeft(Alert, r, Matching(r, c, ns))

NamespaceDestroy(r, ns) ==
    With(AlertMonitors(r, ns, NULL, TRUE), LAMBDA alerted :
        FoldSet(LAMBDA key, acc : TrackDestroy(acc, key, NULL),
                [alerted EXCEPT !.namespaces = Without(@, {ns})],
                {key \in DOMAIN alerted.tracks : key[1] = ns}))

PublisherDestroy(r, c) ==
    LET owned    == {ns \in DOMAIN r.namespaces : r.namespaces[ns].pub = c}
        Gone(ns, acc) == With([acc EXCEPT !.namespaces[ns].pub = NULL], LAMBDA a : NamespaceDestroy(a, ns))
    IN  IF c \notin DOMAIN r.publishers THEN r
        ELSE With(FoldSet(Gone, r, owned), LAMBDA a : [a EXCEPT !.publishers = Without(@, {c})])

-----------------------------------------------------------------------------
(* What the peers do: a request comes from a connection that is up.          *)

Peer(c) == c \in connected /\ ~relay.locked
MayRequest(c) == /\ Peer(c) /\ nextRequest[c] < 2 * (IF c \in Publishers THEN MaxPublished ELSE MaxRequests)
                 /\ FoldSet(LAMBDA d, n : n + nextRequest[d], 0, Conns) < 2 * MaxTotal
Asked(r, c, kind, what) == [r EXCEPT !.requests = Put(@, <<c, nextRequest[c]>>, Request(kind, what))]
UsesRequest(c) == nextRequest' = [nextRequest EXCEPT ![c] = @ + 2]
Becomes(r) == \E next \in {r} : relay' = next
Waiting(c, id, kind) == /\ <<c, id>> \in DOMAIN relay.requests
                        /\ relay.requests[<<c, id>>].kind = kind
                        /\ relay.requests[<<c, id>>].answers = <<>>
                        /\ relay.requests[<<c, id>>].ended = "no"
Sent(c) == {p \in DOMAIN publishing : p[1] = c}
FreshAlias(c) == Min({a \in 0..Cardinality(Sent(c)) : <<c, a>> \notin Sent(c)})
StartsSending(c, alias, id) ==
    publishing' = Put(publishing, <<c, alias>>, [id |-> id, next |-> 1])

Init ==
    /\ relay = [publishers |-> <<>>, namespaces |-> <<>>, tracks |-> <<>>, subscribers |-> <<>>,
                monitors |-> <<>>, fetches |-> {}, requests |-> <<>>, next |-> [c \in Conns |-> 1],
                locked |-> FALSE]
    /\ connected = Conns
    /\ nextRequest = [c \in Conns |-> 0]
    /\ publishing = <<>>
    /\ objectsSent = 0

-----------------------------------------------------------------------------
(* Publishers.                                                              *)

WithNamespace(r, c, ns, id, announced) ==
    [HasPublisher(r, c) EXCEPT
        !.namespaces = Put(@, ns, [pub |-> c, requestId |-> id, announced |-> announced]),
        !.publishers[c].namespacesById = IF announced THEN Put(@, id, ns) ELSE @]

PublishNamespace(c, ns) ==
    /\ MayRequest(c)
    /\ LET id == nextRequest[c]
           asked == Asked(relay, c, "namespace", [key |-> NULL])
       IN  IF ns \in DOMAIN relay.namespaces THEN Becomes(Answer(asked, <<c, id>>, "error"))
           ELSE \E r \in {WithNamespace(asked, c, ns, id, TRUE)} :
                /\ FlagFits(r)
                /\ \E alerted \in {AlertMonitors(r, ns, NULL, FALSE)} : Becomes(Answer(alerted, <<c, id>>, "ok"))
    /\ UsesRequest(c)
    /\ UNCHANGED <<connected, publishing, objectsSent>>

\* The entry by request ID stays behind; a peer ends a namespace once.
Announced(c, id, ns) ==
    /\ Peer(c) /\ c \in DOMAIN relay.publishers
    /\ id \in DOMAIN relay.publishers[c].namespacesById /\ ns = relay.publishers[c].namespacesById[id]
    /\ ns \in DOMAIN relay.namespaces
    /\ relay.namespaces[ns].pub = c /\ relay.namespaces[ns].requestId = id /\ relay.namespaces[ns].announced
    /\ "tracks left" \notin Cases => \A key \in DOMAIN relay.tracks : key[1] # ns
PublishNamespaceCancel(c, id) ==
    \E ns \in Namespaces :
        /\ Announced(c, id, ns)
        /\ Becomes(NamespaceDestroy(relay, ns))
        /\ UNCHANGED <<connected, nextRequest, publishing, objectsSent>>
PublishNamespaceDone(c, id) ==
    \E ns \in Namespaces :
        /\ Announced(c, id, ns)
        /\ \E r \in {AlertMonitors(relay, ns, NULL, TRUE)} : Becomes(NamespaceDestroy(r, ns))
        /\ UNCHANGED <<connected, nextRequest, publishing, objectsSent>>

\* The tables of the track are those of the namespace's publisher.
TrackPublished(r, key, id, alias) ==
    LET pub == r.namespaces[key[1]].pub
    IN  [r EXCEPT !.tracks = Put(@, key, [Track EXCEPT !.requestId = id, !.alias = alias, !.published = TRUE, !.pending = FALSE]),
                  !.publishers[pub].byId = Put(@, id, key),
                  !.publishers[pub].byAlias = Put(@, alias, key)]
Publish(c, key) ==
    /\ MayRequest(c)
    /\ key[1] \in DOMAIN relay.namespaces /\ "foreign publish" \notin Cases => relay.namespaces[key[1]].pub = c
    /\ LET id == nextRequest[c]
           alias == FreshAlias(c)
           asked == Asked(relay, c, "published", [key |-> key])
       IN  \E r \in {IF key[1] \in DOMAIN relay.namespaces THEN asked ELSE WithNamespace(asked, c, key[1], 0, FALSE)} :
             IF key \in DOMAIN r.tracks
             THEN Becomes(Answer(r, <<c, id>>, "error")) /\ UNCHANGED publishing
             ELSE /\ \E p \in {TrackPublished(r, key, id, alias)} :
                     \E alerted \in {AlertMonitors(p, key[1], key, FALSE)} : Becomes(Answer(alerted, <<c, id>>, "ok"))
                  /\ StartsSending(c, alias, id)
    /\ UsesRequest(c)
    /\ UNCHANGED <<connected, objectsSent>>

TrackOf(c, id) == relay.publishers[c].byId[id]
Knows(c, id) == c \in DOMAIN relay.publishers /\ id \in DOMAIN relay.publishers[c].byId

SubscribeAccepted(c, id) ==
    /\ Peer(c) /\ Waiting(c, id, "upstream") /\ Knows(c, id)
    /\ LET key   == TrackOf(c, id)
           alias == FreshAlias(c)
           subs  == Range(relay.tracks[key].subscriptions)
           Active(s, sub) == IF s \in subs THEN [sub EXCEPT !.active = TRUE] ELSE sub
           ready == [AnswerSubscribes(Answer(relay, <<c, id>>, "ok"), subs, "ok") EXCEPT
                        !.tracks[key].alias = alias,
                        !.publishers[c].byAlias = Put(@, alias, key),
                        !.subscribers = [d \in DOMAIN @ |-> [relay.subscribers[d] EXCEPT
                            !.byId = [i \in DOMAIN @ |-> Active(<<d, i>>, relay.subscribers[d].byId[i])]]]]
       IN  /\ \E r \in {ready} : \E alerted \in {AlertMonitors(r, key[1], key, FALSE)} :
                  Becomes([alerted EXCEPT !.tracks[key].pending = FALSE])
           /\ StartsSending(c, alias, id)
    /\ UNCHANGED <<connected, nextRequest, objectsSent>>

SubscribeError(c, id) ==
    /\ Peer(c) /\ Waiting(c, id, "upstream") /\ Knows(c, id)
    /\ LET subs == Range(relay.tracks[TrackOf(c, id)].subscriptions)
       IN  \E r \in {AnswerSubscribes(Answer(relay, <<c, id>>, "error"), subs, "error")} :
             Becomes(TrackDestroy(r, TrackOf(c, id), c))
    /\ UNCHANGED <<connected, nextRequest, publishing, objectsSent>>

PublishDone(c, alias) ==
    /\ Peer(c) /\ <<c, alias>> \in DOMAIN publishing
    /\ LET id == publishing[<<c, alias>>].id
       IN  IF ~Knows(c, id) THEN UNCHANGED relay
           ELSE \E r \in {PublishDoneSent(relay, Range(relay.tracks[TrackOf(c, id)].subscriptions))} :
                    Becomes(TrackDestroy(r, TrackOf(c, id), c))
    /\ publishing' = Without(publishing, {<<c, alias>>})
    /\ UNCHANGED <<connected, nextRequest, objectsSent>>

-----------------------------------------------------------------------------
(* Subscribers.                                                             *)

Subscribed(r, c, id, key, filter, forward) ==
    LET t     == r.tracks[key]
        alias == r.subscribers[c].nextAlias
    IN  SubscriptionCreate(
            [r EXCEPT !.subscribers[c].nextAlias = @ + 1, !.subscribers[c].byAlias = Put(@, alias, id),
                      !.requests[<<c, id>>].paused = ~forward,
                      !.requests[<<c, id>>].answers = IF t.pending THEN @ ELSE Append(@, "ok")],
            <<c, id>>,
            [Subscription(key, alias) EXCEPT !.forward = forward, !.active = ~t.pending, !.end = EndOf(filter),
                                             !.start = StartOf(filter, IF t.pending THEN NULL ELSE Largest(t))])

\* The relay asks the publisher for a track that it does not have yet.
Upstream(r, c, key) ==
    LET id == r.next[c]
    IN  [r EXCEPT !.tracks[key].requestId = id, !.next[c] = @ + 2, !.publishers[c].byId = Put(@, id, key),
                  !.requests = Put(@, <<c, id>>, Request("upstream", [key |-> key]))]

Subscribe(c, key, filter, forward) ==
    /\ MayRequest(c)
    /\ LET id == nextRequest[c]
           asked == Asked(relay, c, "subscribe", [key |-> key, filter |-> filter])
           new == key \notin DOMAIN relay.tracks
       IN  IF key[1] \notin DOMAIN relay.namespaces THEN Becomes(Answer(asked, <<c, id>>, "error"))
           ELSE \E r \in {HasSubscriber(IF new THEN [asked EXCEPT !.tracks = Put(@, key, Track)] ELSE asked, c)} :
                \E s \in {Subscribed(r, c, id, key, filter, forward)} :
                \E refused \in (IF new /\ "upstream refused" \in Cases THEN BOOLEAN ELSE {FALSE}) :
                    Becomes(IF refused THEN Answer(s, <<c, id>>, "error")
                            ELSE IF new THEN Upstream(s, s.namespaces[key[1]].pub, key) ELSE s)
    /\ UsesRequest(c)
    /\ UNCHANGED <<connected, publishing, objectsSent>>

Mine(c, id) == c \in DOMAIN relay.subscribers /\ id \in DOMAIN relay.subscribers[c].byId
Withdrawn(r, q) == IF q \in DOMAIN r.requests /\ r.requests[q].ended = "no"
                   THEN [r EXCEPT !.requests[q].ended = "withdrawn"] ELSE r

PublishAccepted(c, id, filter, forward) ==
    /\ Peer(c) /\ Waiting(c, id, "publish")
    /\ LET s == The(relay, <<c, id>>)
           largest == IF s.track = NULL THEN NULL ELSE Largest(relay.tracks[s.track])
           r == Answer(relay, <<c, id>>, "ok")
           paused == relay.requests[<<c, id>>].paused \/ ~forward
       IN  IF ~Mine(c, id) THEN Becomes(r)
           ELSE Becomes([r EXCEPT
                    !.requests[<<c, id>>].what.filter = filter,
                    !.requests[<<c, id>>].paused = paused,
                    !.subscribers[c].byId[id] = [@ EXCEPT !.active = TRUE, !.forward = forward,
                        !.start = StartOf(filter, largest), !.end = EndOf(filter)]])
    /\ UNCHANGED <<connected, nextRequest, publishing, objectsSent>>

PublishError(c, id) ==
    /\ Peer(c) /\ Waiting(c, id, "publish")
    /\ LET r == Answer(relay, <<c, id>>, "error")
       IN  Becomes(IF Mine(c, id) THEN RemoveSubscription(r, <<c, id>>) ELSE r)
    /\ UNCHANGED <<connected, nextRequest, publishing, objectsSent>>

Unsubscribe(c, id) ==
    /\ Peer(c) /\ Mine(c, id) /\ ~The(relay, <<c, id>>).fetch
    /\ \E r \in {RemoveSubscription(relay, <<c, id>>)} : Becomes(Withdrawn(r, <<c, id>>))
    /\ UNCHANGED <<connected, nextRequest, publishing, objectsSent>>

UpdateSubscription(c, id, forward) ==
    /\ MayRequest(c) /\ Mine(c, id) /\ ~The(relay, <<c, id>>).fetch
    /\ <<c, id>> \in DOMAIN relay.requests
    /\ forward # The(relay, <<c, id>>).forward
    /\ Becomes([relay EXCEPT !.subscribers[c].byId[id].forward = forward,
                             !.requests[<<c, id>>].paused = TRUE])
    /\ UsesRequest(c)
    /\ UNCHANGED <<connected, publishing, objectsSent>>

-----------------------------------------------------------------------------
(* Namespaces and tracks that watchers ask for.                             *)

\* Only a namespace of the same name is looked for among those there are.
Existing(r, prefix) ==
    IF prefix \notin DOMAIN r.namespaces THEN r
    ELSE With(AlertMonitors(r, prefix, NULL, FALSE), LAMBDA a :
             FoldSet(LAMBDA key, acc : AlertMonitors(acc, prefix, key, FALSE), a,
                     {key \in DOMAIN a.tracks : key[1] = prefix}))
Watch(c, prefix, wants, forward) ==
    /\ MayRequest(c)
    /\ LET id == nextRequest[c]
           m == [conn |-> c, id |-> id, prefix |-> prefix, wants |-> wants, published |-> FALSE,
                 known |-> {}, forward |-> forward]
           what == [key |-> NULL, passed |-> PassedOver(relay, c, prefix)]
           asked == Answer(Asked(relay, c, "watch", what), <<c, id>>, "ok")
       IN  \E r \in {[asked EXCEPT !.monitors = Append(@, m)]} : FlagFits(r) /\ Becomes(Existing(r, prefix))
    /\ UsesRequest(c)
    /\ UNCHANGED <<connected, publishing, objectsSent>>
SubscribeNamespace(c, prefix, wants, forward) == Watch(c, prefix, wants, forward)
SubscribeTracks(c, prefix, forward) == Watch(c, prefix, "publish", forward)

Unwatch(c, i, wants) ==
    /\ Peer(c) /\ relay.monitors[i].conn = c /\ relay.monitors[i].wants \in wants
    /\ \E r \in {[relay EXCEPT !.monitors = RemoveAt(@, i)]} : Becomes(Withdrawn(r, <<c, relay.monitors[i].id>>))
    /\ UNCHANGED <<connected, nextRequest, publishing, objectsSent>>
UnsubscribeNamespace(c, i) == Unwatch(c, i, Wants)
UnsubscribeTracks(c, i) == Unwatch(c, i, {"publish"})

Overlap(a, b) == IsPrefix(a, b) \/ IsPrefix(b, a)
UpdateWatch(c, i, prefix, forward) ==
    /\ MayRequest(c) /\ relay.monitors[i].conn = c
    /\ IF Overlap(relay.monitors[i].prefix, prefix)
       THEN "overlapping update" \in Cases /\ Becomes([relay EXCEPT !.locked = TRUE])
       ELSE \E r \in {[relay EXCEPT
                !.monitors[i] = [@ EXCEPT !.published = FALSE, !.known = {}, !.forward = forward, !.prefix = prefix],
                !.requests[<<c, relay.monitors[i].id>>] = [@ EXCEPT !.names = {}, !.what.passed = PassedOver(relay, c, prefix)]]} :
                FlagFits(r) /\ Becomes(Existing(r, prefix))
    /\ UsesRequest(c)
    /\ UNCHANGED <<connected, publishing, objectsSent>>

-----------------------------------------------------------------------------
(* FETCH.                                                                   *)

OldestFirst(objects) == Reverse(objects)
DescendingOrder(a, b) == a.loc[1] > b.loc[1] \/ (a.loc[1] = b.loc[1] /\ a.loc[2] < b.loc[2])
Ordered(objects, order) ==
    IF order = "descending" THEN SortSeq(objects, DescendingOrder) ELSE objects
\* Mutant: the last group is left out.
OutsideLast(loc, from, to) ==
    \/ loc[1] < from[1] \/ loc[1] >= to[1]
    \/ loc[1] = from[1] /\ loc[2] < from[2]
    \/ loc[1] = to[1] /\ to[2] > 0 /\ loc[2] > to[2]
Outside(loc, from, to) ==
    \/ loc[1] < from[1] \/ loc[1] > to[1]
    \/ loc[1] = from[1] /\ loc[2] < from[2]
    \/ loc[1] = to[1] /\ to[2] > 0 /\ loc[2] > to[2]
FetchTo(r, c, id, key, objects, order) ==
    LET s == [Subscription(key, 0) EXCEPT !.fetch = TRUE, !.objects = Ordered(OldestFirst(objects), order)]
    IN  [SubscriptionCreate(Answer(r, <<c, id>>, "ok"), <<c, id>>, s) EXCEPT !.fetches = @ \cup {<<c, id>>}]

StandaloneFetch(c, key, range, order) ==
    /\ MayRequest(c)
    /\ LET id == nextRequest[c]
           to == <<range.end[1], IF range.end[2] = 0 THEN MaxVarint ELSE range.end[2] - 1>>
           asked(had) == Asked(relay, c, "fetch", [key |-> key, range |-> range, order |-> order, had |-> had])
       IN  IF key \notin DOMAIN relay.tracks \/ relay.tracks[key].pending \/ relay.tracks[key].objects = <<>>
           THEN Becomes(Answer(asked({}), <<c, id>>, "error"))
           ELSE \E objects \in {relay.tracks[key].objects} :
                \E r \in {HasSubscriber(asked({objects[i].loc : i \in DOMAIN objects}), c)} :
                    Becomes(FetchTo(r, c, id, key, SelectSeq(objects, LAMBDA o : ~Outside(o.loc, range.start, to)), order))
    /\ UsesRequest(c)
    /\ UNCHANGED <<connected, publishing, objectsSent>>

\* Mutant: the start is counted from the group after the largest.
JoiningStartNext(join, objects) ==
    IF objects = <<>> THEN 0 ELSE
    IF join.absolute THEN join.start ELSE
    IF join.start > Head(objects).loc[1] THEN MaxVarint ELSE Head(objects).loc[1] + 1 - join.start
JoiningStart(join, objects) ==
    IF objects = <<>> THEN 0 ELSE
    IF join.absolute THEN join.start ELSE
    IF join.start > Head(objects).loc[1] THEN MaxVarint ELSE Head(objects).loc[1] - join.start
JoiningFetch(c, joined, join, order) ==
    /\ MayRequest(c)
    /\ LET id == nextRequest[c]
           s  == The(relay, <<c, joined>>)
           asked(had) == Asked(relay, c, "join", [joined |-> joined, join |-> join, order |-> order, had |-> had])
       IN  /\ <<c, joined>> \in DOMAIN relay.requests /\ relay.requests[<<c, joined>>].kind = "subscribe"
           /\ IF ~Mine(c, joined) \/ ~s.active \/ ~s.forward
              THEN Becomes(Answer(HasSubscriber(asked({}), c), <<c, id>>, "error"))
              ELSE IF s.track = NULL THEN "late join" \in Cases /\ Becomes([relay EXCEPT !.locked = TRUE])
              ELSE \E objects \in {relay.tracks[s.track].objects} :
                   \E from \in {JoiningStart(join, objects)} :
                     /\ "join too far" \notin Cases => from # MaxVarint
                     /\ Becomes(FetchTo(asked({objects[i].loc : i \in DOMAIN objects}), c, id, s.track,
                                        SelectSeq(objects, LAMBDA o : o.loc[1] >= from), order))
    /\ UsesRequest(c)
    /\ UNCHANGED <<connected, publishing, objectsSent>>

FetchCancel(c, id) ==
    /\ Peer(c) /\ Mine(c, id) /\ The(relay, <<c, id>>).fetch
    /\ \E r \in {SubscriptionDestroy(relay, <<c, id>>)} : Becomes(Withdrawn(r, <<c, id>>))
    /\ UNCHANGED <<connected, nextRequest, publishing, objectsSent>>

\* One round of the loop of main: an object of each FETCH.
\* Mutant: only sending the last object ends a FETCH.
ServeNext(r, s) ==
    LET objects == The(r, s).objects
        sent == IF objects = <<>> THEN r
                ELSE [SendObject(r, s, Object(Head(objects), 0, Len(objects) = 1))
                      EXCEPT !.subscribers[s[1]].byId[s[2]].objects = Tail(@)]
    IN  IF Len(objects) # 1 THEN sent ELSE SubscriptionDestroy(sent, s)
ServeOne(r, s) ==
    LET objects == The(r, s).objects
        sent == IF objects = <<>> THEN r
                ELSE [SendObject(r, s, Object(Head(objects), 0, Len(objects) = 1))
                      EXCEPT !.subscribers[s[1]].byId[s[2]].objects = Tail(@)]
    IN  IF Len(objects) > 1 THEN sent ELSE SubscriptionDestroy(sent, s)
ServeFetches ==
    /\ relay.fetches # {} /\ ~relay.locked
    /\ Becomes(FoldSet(LAMBDA s, acc : With(acc, LAMBDA a : ServeOne(a, s)), relay, relay.fetches))
    /\ UNCHANGED <<connected, nextRequest, publishing, objectsSent>>

-----------------------------------------------------------------------------
(* Objects.                                                                 *)

\* Every object makes its track a scalable one, of two layers at least.
NoteSvcObject(layers, loc) == LET n == Layer[loc] + 1 IN IF n > layers THEN n ELSE IF layers < 2 THEN 2 ELSE layers
EnsureSvcAbr(svc, layers) ==
    IF LayerLimit >= 0 THEN svc
    ELSE IF svc = NULL \/ svc.layers # layers THEN [layers |-> layers, level |-> layers - 1] ELSE svc
MaxTemporal(svc) == IF LayerLimit >= 0 THEN LayerLimit ELSE IF svc = NULL THEN -1 ELSE svc.level
WithinLimits(loc, svc) == MaxTemporal(svc) < 0 \/ Layer[loc] <= MaxTemporal(svc)

IncomingObject(c, alias) ==
    /\ Peer(c) /\ <<c, alias>> \in DOMAIN publishing
    /\ publishing[<<c, alias>>].next \in DOMAIN Locations
    /\ LET p   == publishing[<<c, alias>>]
           loc == Locations[p.next]
           object == [origin |-> <<c, p.id>>, loc |-> loc]
           known == c \in DOMAIN relay.publishers /\ alias \in DOMAIN relay.publishers[c].byAlias
           key == relay.publishers[c].byAlias[alias]
           t == relay.tracks[key]
           layers == NoteSvcObject(t.layers, loc)
           open == {s \in Range(t.subscriptions) : ~The(relay, s).fetch /\ ~Before(loc, The(relay, s).start)}
           over == {s \in open : Before(The(relay, s).end, loc)}
           takers == {s \in open \ over : The(relay, s).active /\ The(relay, s).forward}
           Adapted(r, s) == [r EXCEPT !.subscribers[s[1]].byId[s[2]].svc = EnsureSvcAbr(@, layers)]
           Relayed(r, s) == IF WithinLimits(loc, The(r, s).svc)
                            THEN SendObject(r, s, Object(object, The(r, s).alias, FALSE)) ELSE r
       IN  IF ~known THEN UNCHANGED relay
           ELSE \E cached \in {[relay EXCEPT !.tracks[key] = [@ EXCEPT !.objects = <<object>> \o @, !.layers = layers]]} :
                \E sent \in {FoldSet(LAMBDA s, acc : With(Adapted(acc, s), LAMBDA a : Relayed(a, s)), cached, takers)} :
                \E done \in {PublishDoneSent(sent, over)} :
                    Becomes(FoldSet(LAMBDA s, acc : RemoveSubscription(acc, s), done, over))
    /\ publishing' = [publishing EXCEPT ![<<c, alias>>].next = @ + 1]
    /\ objectsSent < MaxObjects /\ objectsSent' = objectsSent + 1
    /\ UNCHANGED <<connected, nextRequest>>

\* What the network's quality makes of the level is any change of it.
SvcAbrThread(c, id, level) ==
    /\ ~relay.locked /\ Mine(c, id)
    /\ The(relay, <<c, id>>).svc # NULL
    /\ level \in 0..(The(relay, <<c, id>>).svc.layers - 1) \ {The(relay, <<c, id>>).svc.level}
    /\ Becomes([relay EXCEPT !.subscribers[c].byId[id].svc.level = level])
    /\ UNCHANGED <<connected, nextRequest, publishing, objectsSent>>

-----------------------------------------------------------------------------
(* The end of a connection.                                                 *)

ConnectionGone(c) ==
    /\ Peer(c)
    /\ LET lost == [relay EXCEPT !.requests = [q \in DOMAIN @ |->
                       IF q[1] = c THEN [relay.requests[q] EXCEPT !.ended = "gone"] ELSE relay.requests[q]]]
       IN  \E r \in {PublisherDestroy(lost, c)} :
           \E s \in {SubscriberDestroy(r, c)} :
               Becomes([s EXCEPT !.monitors = SelectSeq(@, LAMBDA m : m.conn # c)])
    /\ connected' = connected \ {c}
    /\ publishing' = Without(publishing, Sent(c))
    /\ UNCHANGED <<nextRequest, objectsSent>>

Next ==
    \/ \E c \in Publishers : \E ns \in Namespaces : PublishNamespace(c, ns)
    \/ \E c \in Publishers, id \in PeerIds : PublishNamespaceCancel(c, id) \/ PublishNamespaceDone(c, id)
    \/ \E c \in Publishers, key \in Keys : Publish(c, key)
    \/ \E q \in DOMAIN relay.requests : SubscribeAccepted(q[1], q[2]) \/ SubscribeError(q[1], q[2])
    \/ \E p \in DOMAIN publishing : PublishDone(p[1], p[2]) \/ IncomingObject(p[1], p[2])
    \/ \E c \in Subscribers, key \in Keys, filter \in Filters, forward \in Forwards : Subscribe(c, key, filter, forward)
    \/ \E q \in DOMAIN relay.requests, filter \in Filters, forward \in Forwards : PublishAccepted(q[1], q[2], filter, forward)
    \/ \E q \in DOMAIN relay.requests : PublishError(q[1], q[2]) \/ Unsubscribe(q[1], q[2]) \/ FetchCancel(q[1], q[2])
    \/ \E q \in DOMAIN relay.requests, forward \in BOOLEAN : UpdateSubscription(q[1], q[2], forward)
    \/ \E c \in Watchers, prefix \in Watched, forward \in Forwards :
          \/ \E wants \in Wants : SubscribeNamespace(c, prefix, wants, forward)
          \/ SubscribeTracks(c, prefix, forward)
    \/ \E i \in DOMAIN relay.monitors : \E c \in {relay.monitors[i].conn} :
          \/ UnsubscribeNamespace(c, i)
          \/ UnsubscribeTracks(c, i)
          \/ \E prefix \in Watched, forward \in Forwards \cup {relay.monitors[i].forward} : UpdateWatch(c, i, prefix, forward)
    \/ \E c \in Subscribers, key \in Keys, range \in Ranges, order \in Orders : StandaloneFetch(c, key, range, order)
    \/ \E q \in DOMAIN relay.requests, join \in Joins, order \in Orders : JoiningFetch(q[1], q[2], join, order)
    \/ ServeFetches
    \/ \E q \in DOMAIN relay.requests : \E level \in 0..1 : SvcAbrThread(q[1], q[2], level)
    \/ \E c \in Conns : ConnectionGone(c)

\* Publishers answer what the relay asks of them, and the loop of main goes on.
Answers == \E q \in DOMAIN relay.requests : SubscribeAccepted(q[1], q[2]) \/ SubscribeError(q[1], q[2])
Fairness == WF_vars(Answers) /\ WF_vars(ServeFetches)
Spec == Init /\ [][Next]_vars /\ Fairness

-----------------------------------------------------------------------------
(* Properties.                                                              *)

\* Type invariant.
TypeOK ==
    /\ connected \subseteq Conns
    /\ nextRequest \in [Conns -> PeerIds]
    /\ DOMAIN relay.namespaces \subseteq Namespaces
    /\ DOMAIN relay.tracks \subseteq Keys
    /\ DOMAIN relay.publishers \subseteq connected
    /\ DOMAIN relay.subscribers \subseteq connected
    /\ \A q \in DOMAIN relay.requests :
          /\ q[1] \in Conns /\ q[2] \in Nat
          /\ relay.requests[q].ended \in {"no", "done", "withdrawn", "gone"}
    /\ relay.locked \in BOOLEAN

Subs == UNION {{<<c, i>> : i \in DOMAIN relay.subscribers[c].byId} : c \in DOMAIN relay.subscribers}

Owner(key) == relay.publishers[relay.namespaces[key[1]].pub]

\* The tables agree with each other: a publisher's name only tracks that are there and are its
\* own, and each of these under its request; a track lists once each subscription that points to
\* it and no other; and the FETCHes that the loop of main goes through are those of live tracks
\* (the destructors, 234-398).
\* And no callback returns with the mutex held, or not at all.
TablesAgree ==
    /\ TypeOK /\ ~relay.locked
    /\ \A ns \in DOMAIN relay.namespaces : relay.namespaces[ns].pub \in DOMAIN relay.publishers
    /\ \A key \in DOMAIN relay.tracks : key[1] \in DOMAIN relay.namespaces
    /\ \A c \in DOMAIN relay.publishers :
          Range(relay.publishers[c].byId) \cup Range(relay.publishers[c].byAlias)
              \subseteq {key \in DOMAIN relay.tracks : relay.namespaces[key[1]].pub = c}
    /\ \A key \in DOMAIN relay.tracks : relay.tracks[key].requestId \in DOMAIN Owner(key).byId
                                      /\ Owner(key).byId[relay.tracks[key].requestId] = key
    /\ \A key \in DOMAIN relay.tracks :
          /\ IsInjective(relay.tracks[key].subscriptions)
          /\ Range(relay.tracks[key].subscriptions) = {s \in Subs : The(relay, s).track = key}
    /\ relay.fetches = {s \in Subs : The(relay, s).fetch /\ The(relay, s).track # NULL}
    /\ \A c \in DOMAIN relay.subscribers :
          Range(relay.subscribers[c].byAlias) = {s[2] : s \in {x \in Subs : x[1] = c /\ ~The(relay, x).fetch}}

\* No object is sent on a request that has ended: by a PUBLISH_DONE, by an UNSUBSCRIBE or a
\* cancelled FETCH that crossed it, or with its connection.
SilentAfterEnd ==
    [][\A q \in DOMAIN relay.requests :
          relay.requests[q].ended # "no" => relay'.requests[q].got = relay.requests[q].got]_vars

\* What a subscription gets are objects of one publication, whatever alias their publisher
\* used for it before, in the order of the track; a SUBSCRIBE's are inside its filter, under an alias that no other
\* SUBSCRIBE of that connection has or had.
OwnObjects ==
    \A q \in DOMAIN relay.requests :
        LET request == relay.requests[q]
            got     == request.got
        IN  request.kind \in {"subscribe", "publish"} /\ got # <<>> =>
              /\ \A i \in DOMAIN got : got[i].origin = got[1].origin /\ got[i].alias = got[1].alias
              /\ \A i, j \in DOMAIN got : i < j => Before(got[i].loc, got[j].loc)
              /\ request.kind = "subscribe" =>
                    \A i \in DOMAIN got : /\ ~Before(EndOf(request.what.filter), got[i].loc)
                                          /\ request.what.filter.type = "range" => ~Before(got[i].loc, request.what.filter.start)
              /\ \A p \in DOMAIN relay.requests \ {q} :
                    request.kind = "subscribe" /\ relay.requests[p].kind = "subscribe" /\ p[1] = q[1] /\ relay.requests[p].got # <<>>
                        => relay.requests[p].got[1].alias # got[1].alias

\* A FETCH gets exactly the objects of its range that the relay had, in the order it asked
\* for, the last one and no other marked as the end of the stream; a FETCH whose track ends
\* gets the beginning of them.
InRange(loc, range) ==
    /\ ~Before(loc, range.start)
    /\ loc[1] < range.end[1] \/ (loc[1] = range.end[1] /\ (range.end[2] = 0 \/ loc[2] < range.end[2]))
Selected(q) ==
    LET what == relay.requests[q].what
    IN  IF relay.requests[q].kind = "fetch" THEN {loc \in what.had : InRange(loc, what.range)}
        ELSE LET from == IF what.join.absolute THEN what.join.start
                         ELSE Max({0} \cup {loc[1] : loc \in what.had}) - what.join.start
             IN  {loc \in what.had : loc[1] >= from}
FetchExact ==
    \A q \in DOMAIN relay.requests :
        relay.requests[q].kind \in {"fetch", "join"} /\ relay.requests[q].answers = <<"ok">> =>
            LET got   == relay.requests[q].got
                rest  == IF q \in Subs THEN The(relay, q).objects ELSE <<>>
                locs  == [i \in 1..(Len(got) + Len(rest)) |-> IF i <= Len(got) THEN got[i].loc ELSE rest[i - Len(got)].loc]
                ended == relay.requests[q].ended # "no" \/ (q \in Subs /\ The(relay, q).track = NULL)
                InOrder(a, b) == IF relay.requests[q].what.order = "descending" /\ a[1] # b[1] THEN a[1] > b[1] ELSE Before(a, b)
            IN  /\ IF ended THEN Range(locs) \subseteq Selected(q) ELSE Range(locs) = Selected(q)
                /\ \A i, j \in DOMAIN locs : i < j => InOrder(locs[i], locs[j])
                /\ \A i \in DOMAIN got : got[i].last <=> Cardinality(Selected(q)) = i

\* A subscription from the largest object on and a FETCH that joins it leave no gap: every
\* object of the base layer that the relay received, from the group the FETCH starts with,
\* was or will be sent by one of the two (incoming_joining_fetch against incoming_object).
JoinComplete ==
    \A q \in DOMAIN relay.requests :
        relay.requests[q].kind = "join" /\ relay.requests[q].answers = <<"ok">> /\ relay.requests[q].ended = "no" =>
            LET join   == relay.requests[q].what
                joined == <<q[1], join.joined>>
                from   == IF join.join.absolute THEN join.join.start
                          ELSE Max({0} \cup {loc[1] : loc \in join.had}) - join.join.start
                both   == {x.loc : x \in Range(relay.requests[q].got) \cup Range(relay.requests[joined].got)}
                          \cup (IF q \in Subs THEN {o.loc : o \in Range(The(relay, q).objects)} ELSE {})
            IN  joined \in Subs /\ relay.requests[joined].what.filter.type = "largest"
                /\ ~relay.requests[joined].paused /\ The(relay, joined).track # NULL =>
                    \A o \in Range(relay.tracks[The(relay, joined).track].objects) :
                        o.loc[1] >= from /\ Layer[o.loc] = 0 => o.loc \in both

\* A watcher that wants namespaces has been told of each namespace under its prefix that others
\* announced since it asked, and of the one of that very name, and of the end of each that no
\* longer is announced, and of nothing else: as long as one at a time matches, for the relay
\* remembers in one flag that it told a watcher (alert_monitors, 454-468).
WatchersTold ==
    \A m \in Range(relay.monitors) :
        LET watch == relay.requests[<<m.conn, m.id>>]
            due == Announcements(relay, m.conn, m.prefix)
        IN  m.wants \in {"namespace", "both"} =>
                /\ watch.names \subseteq due
                /\ {ns \in due : Announcement(relay, ns) \notin watch.what.passed} \subseteq watch.names

\* "We create a subscription to track it and relay the media when ready" (479-480): the
\* connection that is sent a PUBLISH has the subscription that goes with it.
WatchersServed ==
    \A q \in DOMAIN relay.requests :
        relay.requests[q].kind = "publish" /\ relay.requests[q].ended = "no" /\ relay.requests[q].answers # <<"error">>
            => q \in Subs

RequestIds == Subscribers \X {2 * n : n \in 0..(MaxRequests - 1)}

\* A SUBSCRIBE that waits for the publisher of a live track is answered in the end, or
\* withdrawn, or the track or the connection ends.
WaitsForTrack(q) ==
    /\ q \in DOMAIN relay.requests /\ relay.requests[q].kind = "subscribe" /\ relay.requests[q].answers = <<>>
    /\ q \in Subs /\ The(relay, q).track # NULL
WasAnswered == \A q \in RequestIds : WaitsForTrack(q) ~> ~WaitsForTrack(q)

\* Nobody is left waiting: not such a SUBSCRIBE, and not a FETCH that was accepted, which is
\* served to its end, or cancelled, or the track or the connection ends.
Served == WasAnswered /\ \A q \in RequestIds : (q \in relay.fetches) ~> (q \notin relay.fetches)

=============================================================================
