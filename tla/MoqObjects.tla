----------------------------- MODULE MoqObjects -----------------------------
(***************************************************************************)
(* Objects of MoQ on unidirectional streams (moq.c): threads of a publisher *)
(* call imquic_moq_send_object, which keeps a stream per subgroup and one   *)
(* for a FETCH, and the subscriber's loop thread parses what arrives, cut   *)
(* in pieces of any size, and gives the objects to the application.         *)
(*                                                                          *)
(* The bytes of a stream are a sequence of numbers, one for every field: an *)
(* integer that fits one byte, so that a cut between two bytes is a cut     *)
(* between two fields.  Differences of IDs wrap at Wrap, as 64-bit ones do  *)
(* at 2^64.  A thread is stopped between two of the steps that another      *)
(* thread can see: the lookup under moq->mutex, each write to the stream,   *)
(* the use of the stream's last IDs, the removal under moq->mutex.          *)
(***************************************************************************)
EXTENDS Integers, Sequences, FiniteSets, SequencesExt

CONSTANTS
    Version,      \* 16, 17 or 18
    Threads,      \* application threads that send objects
    KeysOf,       \* the subgroups (<<group, subgroup>>) or FETCH a thread sends to
    FetchGroups,  \* groups a FETCH delivers
    ObjectIds,    \* object IDs
    Ascending,    \* the group order the FETCH asked for is ascending
    OkAscending,  \* the group order the FETCH_OK gives
    MaxObjects,   \* bound: calls of imquic_moq_send_object
    MaxStreams,   \* bound: streams opened
    PieceSizes,   \* fields a piece may have, besides all there are
    SplitHeader,  \* whether a piece may end inside the header of a stream
    Wrap,         \* where differences wrap
    None

FetchKey == <<0>>
Keys == UNION {KeysOf[t] : t \in Threads}
Streams == 1..MaxStreams

(* What the subscriber keeps of a stream, and what an object has after its IDs. *)
SubscriberStreams ==
    [type : Nat, group : Nat, subgroup : Nat, priority : Nat, first : BOOLEAN,
     ascending : BOOLEAN, parsed : BOOLEAN, buffer : Seq(Nat), got : BOOLEAN, lastGroup : Nat,
     lastObject : Nat, lastPriority : Nat, closed : BOOLEAN]
Rests == [properties : Seq(Nat), status : Nat, payload : Seq(Nat), end : Nat]

ASSUME ObjectsAssumption ==
    /\ Version \in {16, 17, 18}
    /\ \A k \in Keys : k = FetchKey \/ k \in Nat \X Nat
    /\ ObjectIds \subseteq Nat /\ FetchGroups \subseteq Nat
    /\ {Ascending, OkAscending, SplitHeader} \subseteq BOOLEAN
    /\ MaxObjects \in Nat /\ MaxStreams \in Nat /\ PieceSizes \subseteq Nat
    /\ Wrap \in Nat \ {0} /\ \A n \in ObjectIds \cup FetchGroups : n < Wrap
    /\ None \notin Nat /\ None \notin SubscriberStreams /\ None \notin Rests

VARIABLES
    streamOf,     \* streams_by_subgroup, and the stream of the FETCH: key to stream
    served,       \* the FETCH is still in subscriptions_by_id
    out,          \* the publisher's imquic_moq_stream of each stream
    opened,       \* number of streams opened
    wire, fin,    \* what was written to each stream, and whether the FIN was
    pc, call,     \* where each thread is in imquic_moq_send_object, and its object
    calls,        \* number of calls so far
    okTaken,      \* the FETCH_OK was parsed by the subscriber
    in,           \* the subscriber's imquic_moq_stream of each stream
    taken, ended, \* fields delivered of each stream, and whether the FIN was
    connection,   \* of the subscriber: "open", "closed" or "crashed"
    sent,         \* history: the objects written to each stream
    incoming      \* history: the objects incoming_object was called with

sendVars == <<streamOf, served, out, opened, wire, fin, pc, call, calls, sent>>
recvVars == <<okTaken, in, taken, ended, connection, incoming>>
vars == <<sendVars, recvVars>>

-----------------------------------------------------------------------------
(* The types of a data stream.                                              *)

Bit(n, mask) == (n \div mask) % 2 = 1
Flag(b, n) == IF b THEN n ELSE 0

FETCH_HEADER == 5

(* imquic_moq_data_message_type_from_subgroup_header, and its reverse. *)
SubgroupType(sg, sgid0, prop, eog, prio, first) ==
    16 + Flag(sg, 4) + Flag(sgid0 /\ ~sg, 2) + Flag(prop, 1) + Flag(eog, 8)
       + Flag(Version >= 18 /\ first, 64) + Flag(~prio, 32)
SubgroupFields(type) ==
    [subgroup |-> Bit(type, 4), sgid0 |-> Bit(type, 2), prop |-> Bit(type, 1),
     eog |-> Bit(type, 8), priority |-> ~Bit(type, 32),
     first |-> Version >= 18 /\ Bit(type, 64), violation |-> ~Bit(type, 16)]

(* imquic_moq_is_data_message_type_valid, padding aside. *)
ValidType(type) ==
    \/ type = FETCH_HEADER
    \/ type \in (16..29) \cup (48..61)
    \/ Version >= 18 /\ type \in (80..93) \cup (112..125)

(* imquic_moq_generate_fetch_serialization_flags, and its reverse, which     *)
(* takes the two lowest bits for SUBGROUP_ID unless they are PLUS_ONE.       *)
FetchFlags(oid, group, prio, prop) ==
    3 + Flag(oid, 4) + Flag(group, 8) + Flag(prio, 16) + Flag(prop, 32)
FetchFields(flags) ==
    [plusOne |-> flags % 4 = 2, oid |-> Bit(flags, 4), group |-> Bit(flags, 8),
     priority |-> Bit(flags, 16), prop |-> Bit(flags, 32)]

-----------------------------------------------------------------------------
(* Sending.                                                                 *)

PublisherStream(type, ascending) ==
    [type |-> type, ascending |-> ascending, got |-> FALSE, lastGroup |-> 0, lastObject |-> 0]
NoStream == PublisherStream(0, TRUE)

(* Objects: the properties are there for odd object IDs. *)
Properties(o) == IF o.id % 2 = 1 THEN <<9>> ELSE <<>>
Payload(o) == [i \in 1..o.length |-> o.number]
PRIORITY == 7

HasPayload(o) == o.length > 0
ValidPacket(o) == HasPayload(o) \/ o.status # "normal"
Closes(o) == o.eos \/ o.status = IF o.key = FetchKey THEN "end_of_track" ELSE "end_of_group"
StatusCode(s) == CASE s = "normal" -> 0 [] s = "end_of_group" -> 3 [] s = "end_of_track" -> 4

Init ==
    /\ streamOf = [k \in Keys |-> None]
    /\ served = (FetchKey \in Keys)
    /\ out = [s \in Streams |-> NoStream]
    /\ opened = 0 /\ calls = 0
    /\ wire = [s \in Streams |-> <<>>] /\ fin = [s \in Streams |-> FALSE]
    /\ pc = [t \in Threads |-> "idle"] /\ call = [t \in Threads |-> None]
    /\ okTaken = FALSE
    /\ in = [s \in Streams |-> None]
    /\ taken = [s \in Streams |-> 0] /\ ended = [s \in Streams |-> FALSE]
    /\ connection = "open"
    /\ sent = [s \in Streams |-> <<>>] /\ incoming = [s \in Streams |-> <<>>]

(* The objects a thread may send next: with a payload, or with the status     *)
(* that ends its stream, or only to end it; not the same twice in a row on a  *)
(* FETCH.                                                                     *)
Object(key, group, id, length, status, eos) ==
    [key |-> key, group |-> group, subgroup |-> IF key = FetchKey THEN 0 ELSE key[2], id |-> id,
     length |-> length, status |-> status, eos |-> eos, first |-> TRUE, number |-> calls + 1]
Repeats(o) ==
    LET s == IF o.key = FetchKey THEN streamOf[FetchKey] ELSE None
    IN  s # None /\ o.group = out[s].lastGroup /\ o.id = out[s].lastObject
Objects(key) ==
    LET groups == IF key = FetchKey THEN FetchGroups ELSE {key[1]}
        last == IF key = FetchKey THEN "end_of_track" ELSE "end_of_group"
    IN  {o \in {Object(key, g, id, 1, "normal", eos) : g \in groups, id \in ObjectIds, eos \in BOOLEAN}
              \cup {Object(key, g, id, 0, last, FALSE) : g \in groups, id \in ObjectIds}
              \cup {Object(key, g, 0, 0, "normal", TRUE) : g \in groups} : ~Repeats(o)}

(* Under moq->mutex: the stream of the subgroup, a new one if there is none  *)
(* and there is something to send.                                           *)
LookupSubgroup(t) ==
    /\ pc[t] = "idle" /\ calls < MaxObjects
    /\ \E key \in KeysOf[t] \ {FetchKey} : \E o \in Objects(key) :
        LET known == streamOf[o.key] # None
            s == IF known THEN streamOf[o.key] ELSE opened + 1
        IN  /\ known \/ ValidPacket(o)
            /\ s \in Streams
            /\ streamOf' = [streamOf EXCEPT ![o.key] = s]
            /\ out' = IF known THEN out ELSE
                   [out EXCEPT ![s] = PublisherStream(
                        SubgroupType(TRUE, FALSE, TRUE, TRUE, TRUE, o.first), TRUE)]
            /\ opened' = IF known THEN opened ELSE s
            /\ call' = [call EXCEPT ![t] = [object |-> o, stream |-> s, bytes |-> <<>>]]
            /\ pc' = [pc EXCEPT ![t] = IF known THEN "encode" ELSE "header"]
    /\ calls' = calls + 1
    /\ UNCHANGED <<served, wire, fin, sent, recvVars>>

(* Under moq->mutex: the stream of the FETCH, as long as it is served. *)
LookupFetch(t) ==
    /\ pc[t] = "idle" /\ calls < MaxObjects
    /\ served /\ FetchKey \in KeysOf[t]
    /\ \E o \in Objects(FetchKey) :
        LET known == streamOf[FetchKey] # None
            s == IF known THEN streamOf[FetchKey] ELSE opened + 1
        IN  /\ known \/ ValidPacket(o)
            /\ s \in Streams
            /\ streamOf' = [streamOf EXCEPT ![FetchKey] = s]
            /\ out' = IF known THEN out
                      ELSE [out EXCEPT ![s] = PublisherStream(FETCH_HEADER, OkAscending)]
            /\ opened' = IF known THEN opened ELSE s
            /\ call' = [call EXCEPT ![t] = [object |-> o, stream |-> s, bytes |-> <<>>]]
            /\ pc' = [pc EXCEPT ![t] = IF known THEN "encode" ELSE "header"]
    /\ calls' = calls + 1
    /\ UNCHANGED <<served, wire, fin, sent, recvVars>>

(* imquic_moq_add_subgroup_header; track alias 1. *)
AddSubgroupHeader(type, o) ==
    LET f == SubgroupFields(type)
    IN  <<type, 1, o.group>> \o (IF f.subgroup THEN <<o.subgroup>> ELSE <<>>)
            \o (IF f.priority THEN <<PRIORITY>> ELSE <<>>)

(* imquic_moq_add_fetch_header; request ID 2. *)
AddFetchHeader == <<FETCH_HEADER, 2>>

(* The stream was created by this call: its header goes first. *)
SendHeader(t) ==
    LET c == call[t] IN
    /\ pc[t] = "header"
    /\ wire' = [wire EXCEPT ![c.stream] = @ \o
           (IF c.object.key = FetchKey THEN AddFetchHeader
            ELSE AddSubgroupHeader(out[c.stream].type, c.object))]
    /\ pc' = [pc EXCEPT ![t] = "encode"]
    /\ UNCHANGED <<streamOf, served, out, opened, fin, call, calls, sent, recvVars>>

(* imquic_moq_add_properties with the length first. *)
AddProperties(p) == <<Len(p)>> \o p

(* The payload, or the status when there is none. *)
AddPayload(o) ==
    IF HasPayload(o) THEN <<o.length>> \o Payload(o) ELSE <<0, StatusCode(o.status)>>

(* imquic_moq_add_subgroup_header_object *)
AddSubgroupObject(type, delta, o) ==
    <<delta>> \o (IF SubgroupFields(type).prop THEN AddProperties(Properties(o)) ELSE <<>>)
              \o AddPayload(o)

(* imquic_moq_add_fetch_header_object *)
AddFetchObject(flags, group, id, o) ==
    LET f == FetchFields(flags)
    IN  <<flags>> \o (IF f.group THEN <<group>> ELSE <<>>) \o <<o.subgroup>>
            \o (IF f.oid THEN <<id>> ELSE <<>>) \o (IF f.priority THEN <<PRIORITY>> ELSE <<>>)
            \o (IF f.prop THEN AddProperties(Properties(o)) ELSE <<>>) \o AddPayload(o)

(* Object IDs on a subgroup's stream: the first as it is, then how many are skipped. *)
SubgroupDelta(m, id) == id - m.lastObject - Flag(m.got, 1)

(* Without a lock: an object no newer than the last of its stream is refused. *)
EncodeSubgroup(t) ==
    LET c == call[t]
        m == out[c.stream]
        o == c.object
        old == ValidPacket(o) /\ m.got /\ o.id <= m.lastObject
    IN  /\ pc[t] = "encode" /\ o.key # FetchKey
        /\ pc' = [pc EXCEPT ![t] = IF old THEN "idle" ELSE "write"]
        /\ IF old THEN call' = [call EXCEPT ![t] = None] /\ UNCHANGED out
           ELSE IF ~ValidPacket(o) THEN UNCHANGED <<call, out>>
           ELSE /\ call' = [call EXCEPT ![t].bytes =
                        AddSubgroupObject(m.type, SubgroupDelta(m, o.id), o)]
                /\ out' = [out EXCEPT ![c.stream].got = TRUE, ![c.stream].lastObject = o.id]
        /\ UNCHANGED <<streamOf, served, opened, wire, fin, calls, sent, recvVars>>

(* The group on a FETCH stream, once a group was written. *)
FetchGroup(m, group) ==
    IF Version < 18 \/ ~m.got THEN group
    ELSE (IF m.ascending THEN group - m.lastGroup ELSE m.lastGroup - group) % Wrap

(* From version 18 on, a field that follows from the object before is left out. *)
FetchEncode(m, o) ==
    LET same == Version >= 18 /\ m.got /\ o.group = m.lastGroup
        skip == (o.id - m.lastObject) % Wrap
        flags == FetchFlags(~same \/ skip > 1, ~same, TRUE, TRUE)
    IN  AddFetchObject(flags, FetchGroup(m, o.group), IF same THEN skip ELSE o.id, o)

EncodeFetch(t) ==
    LET c == call[t]
        o == c.object
    IN  /\ pc[t] = "encode" /\ o.key = FetchKey
        /\ pc' = [pc EXCEPT ![t] = "write"]
        /\ IF ~ValidPacket(o) THEN UNCHANGED <<call, out>>
           ELSE /\ call' = [call EXCEPT ![t].bytes = FetchEncode(out[c.stream], o)]
                /\ out' = [out EXCEPT ![c.stream].got = TRUE, ![c.stream].lastGroup = o.group,
                                      ![c.stream].lastObject = o.id]
        /\ UNCHANGED <<streamOf, served, opened, wire, fin, calls, sent, recvVars>>

(* What the application is given of an object that was sent. *)
Shown(o, eos) ==
    [group |-> o.group, subgroup |-> o.subgroup, id |-> o.id, status |-> StatusCode(o.status),
     priority |-> PRIORITY, payload |-> Payload(o), properties |-> Properties(o), eos |-> eos]

(* imquic_connection_send_on_stream: nothing is written after the FIN. *)
Write(t) ==
    LET c == call[t]
        s == c.stream
    IN  /\ pc[t] = "write"
        /\ pc' = [pc EXCEPT ![t] = IF Closes(c.object) THEN "forget" ELSE "idle"]
        /\ IF fin[s] THEN UNCHANGED <<wire, fin, sent>>
           ELSE /\ wire' = [wire EXCEPT ![s] = @ \o c.bytes]
                /\ fin' = [fin EXCEPT ![s] = Closes(c.object)]
                /\ sent' = IF ~ValidPacket(c.object) THEN sent
                           ELSE [sent EXCEPT ![s] = Append(@, Shown(c.object, Closes(c.object)))]
        /\ call' = IF Closes(c.object) THEN call ELSE [call EXCEPT ![t] = None]
        /\ UNCHANGED <<streamOf, served, out, opened, calls, recvVars>>

\* Mutant: the stream stays in the table when it was closed.
ForgetNothing(t) ==
    /\ pc[t] = "forget"
    /\ pc' = [pc EXCEPT ![t] = "idle"]
    /\ call' = [call EXCEPT ![t] = None]
    /\ UNCHANGED <<streamOf, served, out, opened, wire, fin, calls, sent, recvVars>>

(* Under moq->mutex: the closed stream, or the FETCH with it, is removed. *)
Forget(t) ==
    /\ pc[t] = "forget"
    /\ streamOf' = [streamOf EXCEPT ![call[t].object.key] = None]
    /\ served' = (served /\ call[t].object.key # FetchKey)
    /\ pc' = [pc EXCEPT ![t] = "idle"]
    /\ call' = [call EXCEPT ![t] = None]
    /\ UNCHANGED <<out, opened, wire, fin, calls, sent, recvVars>>

Send(t) == LookupSubgroup(t) \/ LookupFetch(t) \/ SendHeader(t) \/ EncodeSubgroup(t)
              \/ EncodeFetch(t) \/ Write(t) \/ Forget(t)

-----------------------------------------------------------------------------
(* Receiving.                                                               *)

(* An imquic_moq_stream for data; the buffer exists once the header is parsed. *)
SubscriberStream(type) ==
    [type |-> type, group |-> 0, subgroup |-> 0, priority |-> 128, first |-> FALSE,
     ascending |-> FALSE, parsed |-> FALSE, buffer |-> <<>>, got |-> FALSE, lastGroup |-> 0,
     lastObject |-> 0, lastPriority |-> 0, closed |-> FALSE]

(* imquic_moq_parse_subgroup_header, after the type: "more" when it is too   *)
(* short to try, "broken" when a field other than the last one ends it.      *)
ParseSubgroupHeader(x, b) ==
    LET f == SubgroupFields(x.type)
        n == 2 + Flag(f.subgroup, 1)
    IN  IF Len(b) < 4 THEN [res |-> "more", x |-> x, used |-> 0]
        ELSE IF f.violation \/ Len(b) <= n THEN [res |-> "broken", x |-> x, used |-> 0]
        ELSE [res |-> "ok", used |-> n + Flag(f.priority, 1),
              x |-> [x EXCEPT !.group = b[2], !.subgroup = IF f.subgroup THEN b[3] ELSE 0,
                              !.priority = IF f.priority THEN b[n + 1] ELSE 0,
                              !.first = f.first, !.parsed = TRUE]]

(* imquic_moq_parse_fetch_header: only from version 17 on is the request in  *)
(* streams_by_reqid, and when it is not, the log line reads through NULL.    *)
FetchRequested == Version >= 17
ParseFetchHeader(x, b) ==
    IF b = <<>> THEN [res |-> "more", x |-> x, used |-> 0]
    ELSE IF ~FetchRequested THEN [res |-> "crash", x |-> x, used |-> 0]
    ELSE [res |-> "ok", used |-> 1,
          x |-> [x EXCEPT !.ascending = IF okTaken THEN OkAscending ELSE Ascending,
                          !.parsed = TRUE]]

(* What follows the IDs of an object, from offset i: properties, length,      *)
(* status, payload, and where it ends, or None when it is not all there.      *)
RestOfObject(b, i, prop) ==
    LET n == Len(b)
        hasLen == ~prop \/ (i + 1 < n /\ b[i + 1] < n - (i + 1))
        j == IF prop THEN i + 1 + b[i + 1] ELSE i
        p == b[j + 1]
        k == IF p = 0 THEN j + 2 ELSE j + 1
    IN  IF ~hasLen THEN None
        ELSE IF j + 1 >= n THEN None
        ELSE IF p > n - k THEN None
        ELSE [properties |-> IF prop THEN SubSeq(b, i + 2, j) ELSE <<>>,
              status |-> IF p = 0 THEN b[j + 2] ELSE 0,
              payload |-> SubSeq(b, k + 1, k + p), end |-> k + p]

(* Object IDs are a delta. *)
SubgroupId(x, delta) == delta + x.lastObject + Flag(x.got, 1)

(* imquic_moq_parse_subgroup_header_object *)
ParseSubgroupObject(x, complete) ==
    LET b == x.buffer
        f == SubgroupFields(x.type)
        rest == RestOfObject(b, 1, f.prop)
        id == SubgroupId(x, b[1])
        sg == IF ~x.got /\ ~f.subgroup /\ ~f.sgid0 THEN b[1] ELSE x.subgroup
    IN  IF Len(b) < 2 \/ rest = None THEN [res |-> "more", x |-> x]
        ELSE [res |-> "ok",
              x |-> [x EXCEPT !.subgroup = sg, !.got = TRUE, !.lastObject = id,
                              !.buffer = SubSeq(b, rest.end + 1, Len(b)),
                              !.closed = @ \/ complete],
              object |-> [group |-> x.group, subgroup |-> sg, id |-> id, status |-> rest.status,
                          priority |-> x.priority, payload |-> rest.payload,
                          properties |-> rest.properties, eos |-> complete]]

\* Mutant: the group is always added.
GroupAdded(x, v) == IF x.got THEN (x.lastGroup + v) % Wrap ELSE v

(* Group IDs are a delta from version 18 on, downwards unless ascending. *)
GroupId(x, v) ==
    IF Version < 18 \/ ~x.got THEN v
    ELSE (IF x.ascending THEN v + x.lastGroup ELSE x.lastGroup - v) % Wrap

(* imquic_moq_parse_fetch_header_object: a field left out refers to the      *)
(* object before, and without one the connection is closed.                  *)
ParseFetchObject(x, complete) ==
    LET b == x.buffer
        f == FetchFields(b[1])
        g == Flag(f.group, 1)
        q == Flag(f.oid, 1)
        p == Flag(f.priority, 1)
        n == 1 + g + Flag(~f.plusOne, 1) + q
        refers == ~x.got /\ (~f.group \/ f.plusOne \/ ~f.oid \/ ~f.priority)
        group == IF f.group THEN GroupId(x, b[2]) ELSE x.lastGroup
        subgroup == IF f.plusOne THEN x.subgroup + 1 ELSE b[2 + g]
        id == IF ~f.oid THEN (x.lastObject + 1) % Wrap
              ELSE IF Version >= 18 /\ ~f.group THEN (b[n] + x.lastObject) % Wrap ELSE b[n]
        priority == IF f.priority THEN b[n + 1] ELSE x.lastPriority
        rest == RestOfObject(b, n + p, f.prop)
    IN  IF Len(b) < 3 \/ Len(b) <= n THEN [res |-> "more", x |-> x]
        ELSE IF refers THEN [res |-> "violation", x |-> x]
        ELSE IF rest = None THEN [res |-> "more", x |-> x]
        ELSE [res |-> "ok",
              x |-> [x EXCEPT !.got = TRUE, !.lastGroup = group, !.lastObject = id,
                              !.lastPriority = priority, !.closed = @ \/ complete,
                              !.buffer = SubSeq(b, rest.end + 1, Len(b))],
              object |-> [group |-> group, subgroup |-> subgroup, id |-> id,
                          status |-> rest.status, priority |-> priority,
                          payload |-> rest.payload, properties |-> rest.properties,
                          eos |-> complete]]

ParseObject(x, complete) ==
    IF x.type = FETCH_HEADER THEN ParseFetchObject(x, complete) ELSE ParseSubgroupObject(x, complete)

(* The loop of imquic_moq_parse_message on a data stream's buffer: a turn of *)
(* it, and at most one for every field.                                      *)
ParseTurn(st, complete) ==
    LET r == ParseObject(st.x, complete) IN
    IF st.res # "ok" \/ st.x.buffer = <<>> THEN st
    ELSE [res |-> r.res, x |-> r.x,
          found |-> IF r.res = "ok" THEN Append(st.found, r.object) ELSE st.found]
ParseObjects(x, complete) ==
    LET turns[i \in 0..Len(x.buffer)] ==
            IF i = 0 THEN [res |-> "ok", x |-> x, found |-> <<>>] ELSE ParseTurn(turns[i - 1], complete)
    IN  turns[Len(x.buffer)]

(* The type and the header, in the first piece of a stream. *)
ParseHeader(b) ==
    LET x == SubscriberStream(b[1])
        h == Tail(b)
    IN  IF ~ValidType(b[1]) THEN [res |-> "broken", x |-> None, used |-> 0]
        ELSE IF b[1] = FETCH_HEADER THEN ParseFetchHeader(x, h) ELSE ParseSubgroupHeader(x, h)

(* The end of a stream that no object carried. *)
EndOfStream(x) ==
    [group |-> x.group, subgroup |-> x.subgroup, id |-> 0, status |-> 0, priority |-> 128,
     payload |-> <<>>, properties |-> <<>>, eos |-> TRUE]

\* Mutant: the end is not told when the FIN comes alone.
FinishSilent(x, complete, told) == [x |-> IF complete THEN None ELSE x, told |-> told]

(* After the loops: the stream that is complete is forgotten, and its end   *)
(* told unless the last object did.                                         *)
Finish(x, complete, told) ==
    [x |-> IF complete THEN None ELSE x,
     told |-> IF complete /\ ~x.closed THEN Append(told, EndOfStream(x)) ELSE told]

(* imquic_moq_parse_message for a piece of a data stream.  A header that is  *)
(* cut leaves the stream without a buffer, and what follows is dropped.      *)
ParseMessage(s, b, complete) ==
    LET fresh == in[s] = None
        head == IF fresh /\ b # <<>> THEN ParseHeader(b)
                ELSE [res |-> "ok", x |-> in[s], used |-> 0]
        x == head.x
        body == SubSeq(b, Flag(fresh, 1) + head.used + 1, Len(b))
        objects == IF head.res = "ok" /\ x.parsed /\ body # <<>>
                   THEN ParseObjects([x EXCEPT !.buffer = @ \o body], complete)
                   ELSE [res |-> "ok", x |-> x, found |-> <<>>]
        end == Finish(objects.x, complete, objects.found)
    IN  IF fresh /\ b = <<>> THEN UNCHANGED <<in, incoming, connection>>
        ELSE IF head.res = "crash"
        THEN connection' = "crashed" /\ UNCHANGED <<in, incoming>>
        ELSE IF head.res = "broken"
        THEN in' = [in EXCEPT ![s] = x] /\ UNCHANGED <<incoming, connection>>
        ELSE IF objects.res = "violation"
        THEN /\ connection' = "closed"
             /\ in' = [in EXCEPT ![s] = objects.x]
             /\ incoming' = [incoming EXCEPT ![s] = @ \o objects.found]
        ELSE /\ in' = [in EXCEPT ![s] = end.x]
             /\ incoming' = [incoming EXCEPT ![s] = @ \o end.told]
             /\ UNCHANGED connection

(* The header of a stream: what its first write was. *)
HeaderLength(s) == IF wire[s][1] = FETCH_HEADER THEN 2 ELSE 5

(* n more fields of a stream, the FIN with the last ones or alone. *)
Piece(s, n, complete) ==
    /\ connection = "open" /\ ~ended[s]
    /\ taken[s] + n <= Len(wire[s])
    /\ complete => fin[s] /\ taken[s] + n = Len(wire[s])
    /\ n > 0 \/ complete
    /\ SplitHeader \/ taken[s] > 0 \/ n >= HeaderLength(s)
    /\ taken' = [taken EXCEPT ![s] = @ + n]
    /\ ended' = [ended EXCEPT ![s] = complete]
    /\ ParseMessage(s, SubSeq(wire[s], taken[s] + 1, taken[s] + n), complete)
    /\ UNCHANGED <<okTaken, sendVars>>

(* imquic_moq_parse_fetch_ok: the FETCH_OK comes on a stream of its own, so  *)
(* before or after the first objects.                                        *)
TakeFetchOk ==
    /\ connection = "open" /\ ~okTaken /\ FetchKey \in Keys
    /\ okTaken' = TRUE
    /\ UNCHANGED <<in, taken, ended, connection, incoming, sendVars>>

Deliver(s) ==
    \E n \in PieceSizes \cup {Len(wire[s]) - taken[s]}, complete \in BOOLEAN : Piece(s, n, complete)

Next ==
    \/ \E t \in Threads : Send(t)
    \/ \E s \in Streams : Deliver(s)
    \/ TakeFetchOk

Spec == Init /\ [][Next]_vars

-----------------------------------------------------------------------------
(* Every variable has its type; a stream of the tables was opened, and no    *)
(* stream is taken further than it was written.                              *)
TypeOK ==
    /\ \A k \in Keys : streamOf[k] = None \/ streamOf[k] \in 1..opened
    /\ served \in BOOLEAN /\ okTaken \in BOOLEAN
    /\ opened \in 0..MaxStreams /\ calls \in 0..MaxObjects
    /\ \A s \in Streams : wire[s] \in Seq(Nat) /\ taken[s] \in 0..Len(wire[s])
    /\ fin \in [Streams -> BOOLEAN] /\ ended \in [Streams -> BOOLEAN]
    /\ \A t \in Threads : pc[t] \in {"idle", "header", "encode", "write", "forget"}
    /\ \A s \in Streams : out[s].lastObject \in ObjectIds \cup {0}
    /\ \A s \in Streams : in[s] = None \/ (in[s] \in SubscriberStreams /\ Len(in[s].buffer) <= taken[s])
    /\ connection \in {"open", "closed", "crashed"}

Content(o) == [f \in DOMAIN o \ {"eos"} |-> o[f]]
Contents(seq) == [i \in DOMAIN seq |-> Content(seq[i])]

(* The objects given for a stream, without the empty one that tells its end. *)
Given(s) ==
    LET seq == incoming[s] IN
    IF seq # <<>> /\ Last(seq) = EndOfStream(Last(seq)) THEN Front(seq) ELSE seq

(* imquic_moq_send_object and incoming_object: what the subscriber is given  *)
(* on a stream are the objects that were sent on it, in order, each with its *)
(* IDs, status, priority, properties and payload, although the stream only   *)
(* carries differences and is cut anywhere after its header; and no object   *)
(* is kept in a buffer once all of it has arrived.                           *)
ObjectsAsSent ==
    \A s \in Streams :
        /\ IsPrefix(Contents(Given(s)), Contents(sent[s]))
        /\ connection = "open" /\ taken[s] = Len(wire[s]) => Len(Given(s)) = Len(sent[s])

(* moq.h:1583, "to close the stream set the end_of_stream property": the     *)
(* last thing the subscriber is given of a stream whose FIN arrived says so. *)
EndIsTold == \A s \in Streams : connection = "open" /\ ended[s]
                => incoming[s] # <<>> /\ Last(incoming[s]).eos

(* moq.h:702, end_of_stream is "whether this signals the end of the stream": *)
(* nothing follows it.  (The code does not keep this: see the README, what   *)
(* the code does.)                                                           *)
EndIsLast == \A s \in Streams : \A i \in 1..(Len(incoming[s]) - 1) : ~incoming[s][i].eos

(* A thread that was given a stream can still write to it: the tables never  *)
(* hold a stream whose FIN was sent, once no thread is about to remove it    *)
(* (and have their types).                                                   *)
OpenStreamsOnly ==
    TypeOK /\ \A k \in Keys : streamOf[k] # None /\ (\A t \in Threads : pc[t] # "forget") => ~fin[streamOf[k]]

(* moq.c:4131, "make sure this request ID is related to a FETCH": a stream   *)
(* of objects the publisher was asked for does not bring the process down.   *)
(* (In version 16 it does: see the README, what the code does.)              *)
Survives == connection # "crashed"
=============================================================================
