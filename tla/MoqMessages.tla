---------------------------- MODULE MoqMessages ----------------------------
(***************************************************************************)
(* The control messages of MoQ as bytes (moq.c): how each is written, how  *)
(* it is parsed, for versions 16, 17 and 18, with the parameters, setup    *)
(* options and properties they carry.  A message is a function from field  *)
(* names to values; what writes it and what parses it are translated each  *)
(* from its own function, as lists of fields.                              *)
(*                                                                         *)
(* A parser that misses bytes says Broken (IMQUIC_MOQ_UNKNOWN_ERROR); one  *)
(* that reads what the protocol forbids says Violation, which closes the   *)
(* connection.                                                             *)
(***************************************************************************)
EXTENDS Varint, FiniteSets, TLC

CONSTANTS MaxTuples,      \* 32: the tuples a namespace may have
          MaxNamespace,   \* 4096: the bytes its tuples may have
          MaxTrackName,   \* 4096: the bytes of a track name
          MaxText         \* 1024 and 8192: the characters of a reason, of a URI

ASSUME LimitsAssumption == {MaxTuples, MaxNamespace, MaxTrackName, MaxText} \subseteq Nat \ {0}

Fine == "fine"
Broken == "broken"
Violation == "violation"

(* A parser at work: the bytes it has left, the fields it has read. *)
Reading(bytes) == [bytes |-> bytes, fields |-> <<>>, error |-> Fine]

Fail(s, error) == [s EXCEPT !.error = error]

Skip(s, n) == [s EXCEPT !.bytes = SubSeq(@, n + 1, Len(@))]

Got(s, name, value) == [s EXCEPT !.fields = (name :> value) @@ @]

Seq1(n) == [i \in 1..n |-> i]

Num(version, n) == WriteMoqint(version, n, 9)

Data(version, bytes) == Num(version, Len(bytes)) \o bytes

-----------------------------------------------------------------------------
(* What the fields are made of. *)

(* An integer r; unless it may be the last field, bytes must follow it. *)
TakeInt(s, r, name, last) ==
    IF r.length = 0 \/ (~last /\ r.length = Len(s.bytes))
    THEN Fail(s, Broken)
    ELSE Got(Skip(s, r.length), name, r.value)

ReadInt(version, s, name, last) == TakeInt(s, ReadMoqint(version, s.bytes), name, last)

(* A length and as many characters: reasons and URIs, copied into a buffer  *)
(* that also holds the end of the string.                                   *)
ReadText(version, s, name, suffix) ==
    LET r == ReadMoqint(version, s.bytes)
        body == Skip(s, r.length).bytes
        text == SubSeq(body, 1, r.value) \o suffix
    IN  IF r.length = 0 \/ r.value > Len(body) THEN Fail(s, Broken)
        ELSE IF r.value > MaxText THEN Fail(s, Violation)
        ELSE Got(Skip(s, r.length + r.value), name,
                 IF r.value = 0 THEN <<>> ELSE IF Len(text) < MaxText THEN text ELSE SubSeq(text, 1, MaxText - 1))

(* Messages whose namespace may have no tuples. *)
MayBeEmpty == {"SUBSCRIBE_NAMESPACE", "SUBSCRIBE_TRACKS", "NAMESPACE", "NAMESPACE_DONE", "REQUEST_ERROR"}

(* The next tuple of a namespace; only the last one may end the message. *)
TakeTuple(s, r, left, last) ==
    IF s.error # Fine THEN s
    ELSE IF r.length = 0 \/ left = 0 THEN Fail(s, Broken)
    ELSE IF r.value = 0 THEN Fail(s, Violation)
    ELSE IF r.value > left \/ (~last /\ r.value = left) THEN Fail(s, Broken)
    ELSE Got(Skip(s, r.length + r.value), "track_namespace",
             Append(s.fields["track_namespace"], SubSeq(s.bytes, r.length + 1, r.length + r.value)))

ReadTuple(version, s, last) ==
    LET r == ReadMoqint(version, s.bytes)
    IN  TakeTuple(s, r, Len(s.bytes) - r.length, last)

NamespaceLength(ns) == FoldLeft(LAMBDA n, tuple : n + Len(tuple), 0, ns)

NotTooLong(s) ==
    IF s.error = Fine /\ NamespaceLength(s.fields["track_namespace"]) > MaxNamespace THEN Fail(s, Violation) ELSE s

(* r tuples. *)
TakeNamespaces(version, s, r, request, last) ==
    IF r.length = 0 \/ (r.value > 0 /\ r.length = Len(s.bytes)) THEN Fail(s, Broken)
    ELSE IF (r.value = 0 /\ request \notin MayBeEmpty) \/ r.value > MaxTuples THEN Fail(s, Violation)
    ELSE NotTooLong(FoldLeft(LAMBDA q, i : ReadTuple(version, q, last /\ i = r.value),
                             Got(Skip(s, r.length), "track_namespace", <<>>), Seq1(r.value)))

ReadNamespaces(version, s, request, last) ==
    TakeNamespaces(version, s, ReadMoqint(version, s.bytes), request, last)

(* Mutant: a name may not end the message, though it is the last field. *)
ReadTrackNameMore(version, s) ==
    LET r == ReadMoqint(version, s.bytes)
        left == Len(s.bytes) - r.length
    IN  IF r.length = 0 \/ left = 0 THEN Fail(s, Broken)
        ELSE IF r.value > MaxTrackName THEN Fail(s, Violation)
        ELSE IF r.value >= left THEN Fail(s, Broken)
        ELSE Got(Skip(s, r.length + r.value), "track_name", SubSeq(s.bytes, r.length + 1, r.length + r.value))

(* Something must follow the length, though the name itself may end the     *)
(* message: a message that ends in an empty name is broken.                 *)
ReadTrackName(version, s) ==
    LET r == ReadMoqint(version, s.bytes)
        left == Len(s.bytes) - r.length
    IN  IF r.length = 0 \/ left = 0 THEN Fail(s, Broken)
        ELSE IF r.value > MaxTrackName THEN Fail(s, Violation)
        ELSE IF r.value > left THEN Fail(s, Broken)
        ELSE Got(Skip(s, r.length + r.value), "track_name", SubSeq(s.bytes, r.length + 1, r.length + r.value))

Tuples(version, ns) ==
    Num(version, Len(ns)) \o FoldLeft(LAMBDA b, tuple : b \o Data(version, tuple), <<>>, ns)

NamespacesAddable(request, ns) == Len(ns) <= MaxTuples /\ (ns = <<>> => request \in MayBeEmpty)

-----------------------------------------------------------------------------
(* Request parameters.  The types of both ends of a message are the         *)
(* differences to the parameter before; parameters go in the order of types.*)

Timeouts == {"delivery_timeout", "object_delivery_timeout", "rendezvous_timeout",
             "subgroup_delivery_timeout", "fill_timeout"}
Varints == Timeouts \cup {"expires", "new_group_request"}
Uint8s == {"forward", "subscriber_priority", "group_order"}
Blobs == {"auth_token", "subscription_filter", "track_namespace_prefix"}
Parameters == Varints \cup Uint8s \cup Blobs \cup {"largest_object"}

TypeOf(p) ==
    CASE p \in {"delivery_timeout", "object_delivery_timeout"} -> 2
      [] p = "auth_token" -> 3
      [] p = "rendezvous_timeout" -> 4
      [] p = "subgroup_delivery_timeout" -> 6
      [] p = "expires" -> 8
      [] p = "largest_object" -> 9
      [] p = "fill_timeout" -> 10
      [] p = "forward" -> 16
      [] p = "subscriber_priority" -> 32
      [] p = "subscription_filter" -> 33
      [] p = "group_order" -> 34
      [] p = "new_group_request" -> 50
      [] p = "track_namespace_prefix" -> 52

(* The requests a parameter is written for, whatever the application set.   *)
CarriedBy(p) ==
    CASE p = "delivery_timeout" -> {"PUBLISH_OK", "SUBSCRIBE", "REQUEST_UPDATE"}
      [] p \in {"object_delivery_timeout", "subgroup_delivery_timeout"} -> {"REQUEST_OK", "SUBSCRIBE", "REQUEST_UPDATE"}
      [] p = "rendezvous_timeout" -> {"SUBSCRIBE"}
      [] p = "subscriber_priority" -> {"PUBLISH_OK", "SUBSCRIBE", "FETCH", "REQUEST_OK", "REQUEST_UPDATE"}
      [] p = "group_order" -> {"PUBLISH_OK", "REQUEST_OK", "SUBSCRIBE", "FETCH"}
      [] p \in {"subscription_filter", "fill_timeout", "new_group_request"} ->
             {"PUBLISH_OK", "REQUEST_OK", "SUBSCRIBE", "REQUEST_UPDATE"}
      [] p = "expires" -> {"PUBLISH", "PUBLISH_OK", "REQUEST_OK"}
      [] p = "largest_object" -> {"PUBLISH", "SUBSCRIBE_OK", "REQUEST_OK"}
      [] p = "forward" -> {"PUBLISH", "PUBLISH_OK", "REQUEST_OK", "SUBSCRIBE", "REQUEST_UPDATE",
                           "SUBSCRIBE_TRACKS", "SUBSCRIBE_NAMESPACE"}
      [] p = "track_namespace_prefix" -> {"REQUEST_UPDATE", "SUBSCRIBE_TRACKS", "SUBSCRIBE_NAMESPACE"}
      [] OTHER -> {}

Knows(version, p) ==
    CASE p = "delivery_timeout" -> version <= 17
      [] p \in {"object_delivery_timeout", "subgroup_delivery_timeout", "fill_timeout", "track_namespace_prefix"} -> version >= 18
      [] p = "rendezvous_timeout" -> version >= 17
      [] OTHER -> TRUE

(* The parameters that are written: a timeout of zero is left out. *)
Carried(version, request, params) ==
    {p \in DOMAIN params :
        /\ Knows(version, p)
        /\ IF p = "auth_token" THEN request \notin {"REQUEST_OK", "REQUEST_ERROR"} ELSE request \in CarriedBy(p)
        /\ p \in Timeouts => params[p] > 0}

Location(version, l) == Num(version, l.group) \o Num(version, l.object)

HasStart(filter) == filter.type \in {3, 4}

(* The end group of a range goes as the difference to the first group, from *)
(* version 16 on.                                                           *)
FilterBytes(version, f) ==
    Num(version, f.type)
    \o (IF HasStart(f) THEN Location(version, f.start) ELSE <<>>)
    \o (IF f.type # 4 THEN <<>>
        ELSE Num(version, IF version >= 16 THEN f.end_group - f.start.group ELSE f.end_group))

ParameterValue(version, p, value) ==
    CASE p \in Varints -> Num(version, value)
      [] p \in Uint8s -> IF version <= 16 THEN Num(version, value) ELSE <<value>>
      [] p = "largest_object" ->
             IF version <= 16 THEN Data(version, Location(version, value)) ELSE Location(version, value)
      [] p = "auth_token" -> Data(version, value)
      [] p = "subscription_filter" -> Data(version, FilterBytes(version, value))
      [] p = "track_namespace_prefix" -> Data(version, Tuples(version, value))

Ascending(set, Key(_)) ==
    [i \in 1..Cardinality(set) |-> CHOOSE x \in set : Cardinality({y \in set : Key(y) < Key(x)}) = i - 1]

InTypeOrder(names) == Ascending(names, TypeOf)

AddParameters(version, request, params) ==
    LET order == InTypeOrder(Carried(version, request, params))
        delta(i) == TypeOf(order[i]) - (IF i = 1 THEN 0 ELSE TypeOf(order[i - 1]))
    IN  Num(version, Len(order))
        \o FoldLeft(LAMBDA b, i : b \o Num(version, delta(i)) \o ParameterValue(version, order[i], params[order[i]]),
                    <<>>, Seq1(Len(order)))

(* Parameters without a name here are unknown: of an older version they are *)
(* skipped (an even one for as many bytes as its type took), of a newer one *)
(* they end the message.                                                    *)
ParameterOf(version, type) ==
    {p \in Parameters :
        /\ TypeOf(p) = type
        /\ p = "delivery_timeout" => version <= 17
        /\ p = "object_delivery_timeout" => version >= 18}

HasLength(version, type) ==
    IF version <= 16 THEN type % 2 = 1
    ELSE \E p \in Blobs : TypeOf(p) = type

SetParameter(s, p, value) == [s EXCEPT !.fields["parameters"] = (p :> value) @@ @]

(* Values the parsers refuse: no time at all, more than a byte holds. *)
Acceptable(version, p, value) == (p \in Timeouts => value > 0) /\ (p \in Uint8s => value <= 255)

ReadIntParameter(version, s, p) ==
    LET r == IF p \in Uint8s /\ version >= 17
             THEN Parsed(IF s.bytes = <<>> THEN 0 ELSE s.bytes[1], IF s.bytes = <<>> THEN 0 ELSE 1)
             ELSE ReadMoqint(version, s.bytes)
    IN  IF r.length = 0 \/ ~Acceptable(version, p, r.value) THEN Fail(s, Broken)
        ELSE SetParameter(Skip(s, r.length), p, IF p = "forward" /\ r.value > 1 THEN 1 ELSE r.value)

(* n integers, one after the other, or fewer when the bytes end. *)
Ints(version, bytes, n) ==
    FoldLeft(LAMBDA r, i : LET x == ReadMoqint(version, SubSeq(bytes, r.at, Len(bytes)))
                           IN  IF x.length = 0 THEN r ELSE [at |-> r.at + x.length, values |-> Append(r.values, x.value)],
             [at |-> 1, values |-> <<>>], Seq1(n))

(* Of the integers v of the value.  The end group is taken for a difference *)
(* from version 17 on.                                                      *)
ReadFilter(version, s, v) ==
    LET n == IF v = <<>> THEN 1 ELSE CASE v[1] = 3 -> 3 [] v[1] = 4 -> 4 [] OTHER -> 1
    IN  IF Len(v) < n THEN Fail(s, Broken)
        ELSE SetParameter(s, "subscription_filter",
               [type |-> v[1],
                start |-> IF n = 1 THEN [group |-> 0, object |-> 0] ELSE [group |-> v[2], object |-> v[3]],
                end_group |-> IF n < 4 THEN 0 ELSE v[4] + (IF version >= 17 THEN v[2] ELSE 0)])

ReadLocation(s, l, skip) ==
    IF Len(l.values) < 2 THEN Fail(s, Broken)
    ELSE SetParameter(Skip(s, IF skip THEN l.at - 1 ELSE 0), "largest_object",
                      [group |-> l.values[1], object |-> l.values[2]])

(* Its own length is read over: the tuples say where it ends. *)
ReadPrefix(s, t) ==
    IF t.error # Fine THEN Fail(s, t.error)
    ELSE SetParameter([s EXCEPT !.bytes = t.bytes], "track_namespace_prefix", t.fields["track_namespace"])

(* The type t of a parameter or an option, a difference to the one before. *)
TakeType(s, t) ==
    IF t.length = 0 \/ t.length = Len(s.bytes) THEN Fail(s, Broken)
    ELSE [Skip(s, t.length) EXCEPT !.fields["type"] = @ + t.value]

ReadType(version, s) == TakeType(s, ReadMoqint(version, s.bytes))

(* Some have a length l. *)
TakeLength(s, l) ==
    IF l.length = 0 \/ l.length = Len(s.bytes) \/ l.value > Len(s.bytes) - l.length THEN Fail(s, Broken)
    ELSE [Skip(s, l.length) EXCEPT !.fields["length"] = l.value]

ReadLength(version, s) ==
    IF s.error = Fine /\ HasLength(version, s.fields["type"]) THEN TakeLength(s, ReadMoqint(version, s.bytes))
    ELSE [s EXCEPT !.fields["length"] = 0]

(* The value of a parameter whose type took t bytes. *)
ReadValue(version, s, t) ==
    LET type == s.fields["type"]
        n == s.fields["length"]
        known == ParameterOf(version, type)
        p == CHOOSE q \in known : TRUE
    IN  IF s.error # Fine THEN s
        ELSE IF known = {}
        THEN IF version >= 17 THEN Fail(s, Violation) ELSE Skip(s, IF type % 2 = 0 THEN t ELSE n)
        ELSE CASE p \in Varints \cup Uint8s -> ReadIntParameter(version, s, p)
               [] p = "auth_token" -> SetParameter(Skip(s, n), p, SubSeq(s.bytes, 1, n))
               [] p = "subscription_filter" -> ReadFilter(version, Skip(s, n), Ints(version, SubSeq(s.bytes, 1, n), 4).values)
               [] p = "largest_object" ->
                      ReadLocation(Skip(s, n), Ints(version, IF version <= 16 THEN SubSeq(s.bytes, 1, n) ELSE s.bytes, 2),
                                   version >= 17)
               [] p = "track_namespace_prefix" ->
                      ReadPrefix(s, ReadNamespaces(version, Reading(s.bytes), "NAMESPACE", TRUE))

ReadParameter(version, s) ==
    LET at == ReadType(version, s)
    IN  ReadValue(version, ReadLength(version, at), Len(s.bytes) - Len(at.bytes))

(* Whatever is wrong with a parameter violates the protocol. *)
OrViolation(s, n) == IF n.error # Fine THEN Fail(s, Violation) ELSE n

NextParameter(version, s) ==
    IF s.error # Fine THEN s
    ELSE IF s.bytes = <<>> THEN Fail(s, Broken)
    ELSE OrViolation(s, ReadParameter(version, s))

TakeParameters(version, s, r) ==
    IF r.length = 0 \/ (r.value > 0 /\ r.length = Len(s.bytes)) THEN Fail(s, Broken)
    ELSE FoldLeft(LAMBDA q, i : NextParameter(version, q),
                  [Skip(s, r.length) EXCEPT !.fields = [parameters |-> <<>>, type |-> 0, length |-> 0] @@ @],
                  Seq1(r.value))

ReadParameters(version, s) == TakeParameters(version, s, ReadMoqint(version, s.bytes))

-----------------------------------------------------------------------------
(* Properties of a track or an object: sorted by ID, the IDs as differences;*)
(* an even one has a number, an odd one bytes.  Nothing is kept of a list   *)
(* that does not parse, and nothing says so.                                *)

AddProperties(version, properties) ==
    LET order == SortSeq(properties, LAMBDA a, b : a.id < b.id)
        delta(i) == order[i].id - (IF i = 1 THEN 0 ELSE order[i - 1].id)
    IN  FoldLeft(LAMBDA b, i : b \o Num(version, delta(i))
                                 \o (IF order[i].id % 2 = 0 THEN Num(version, order[i].value[1])
                                     ELSE Data(version, order[i].value)),
                 <<>>, Seq1(Len(order)))

(* q.at is the ID before, q.list what was read so far. *)
ReadProperty(version, q) ==
    LET t == ReadMoqint(version, q.bytes)
        id == q.at + t.value
        rest == SubSeq(q.bytes, t.length + 1, Len(q.bytes))
        r == ReadMoqint(version, rest)
        n == IF id % 2 = 0 THEN 0 ELSE r.value
    IN  IF q.bytes = <<>> THEN q
        ELSE IF t.length = 0 \/ rest = <<>> \/ r.length = 0
                \/ (id % 2 = 1 /\ (r.length = Len(rest) \/ n >= Len(rest)))
        THEN [bytes |-> <<>>, at |-> 0, list |-> <<>>]
        ELSE [bytes |-> SubSeq(rest, r.length + n + 1, Len(rest)), at |-> id,
              list |-> Append(q.list, [id |-> id, value |-> IF id % 2 = 0 THEN <<r.value>>
                                                            ELSE SubSeq(rest, r.length + 1, r.length + n)])]

ParseProperties(version, bytes) ==
    FoldLeft(LAMBDA q, i : ReadProperty(version, q), [bytes |-> bytes, at |-> 0, list |-> <<>>], Seq1(Len(bytes))).list

-----------------------------------------------------------------------------
(* The messages.  c says where one is written or parsed: its version, its   *)
(* name, whether it is on the control stream, whether the end is a server,  *)
(* and what it answers.  *Fields is what the writer puts, *Read what the    *)
(* parser expects, which may depend on the fields m read so far.            *)

Field(kind, name) == [kind |-> kind, name |-> name]
Id == <<Field("int", "request_id")>>
OldId(c) == IF c.version <= 16 THEN Id ELSE <<>>
Delta(c) == IF c.version = 17 THEN <<Field("int", "required_request_id_delta")>> ELSE <<>>
Params == <<Field("params", "parameters")>>
Props == <<Field("props", "track_properties")>>
Tns == <<Field("ns", "track_namespace")>>
Name == <<Field("name", "track_name")>>
IntsNamed(names) == [i \in 1..Len(names) |-> Field("int", names[i])]
OldIdEnd(c) == IF c.version <= 16 THEN <<Field("end", "request_id")>> ELSE <<>>

RequestOkFields(c) == OldId(c) \o Params \o (IF c.version >= 18 THEN Props ELSE <<>>)
RequestOkRead(c) == OldIdEnd(c) \o Params \o <<Field("trailing", "track_properties")>>

Redirected(c, m) == c.version >= 18 /\ m["error_code"] = 52
RequestErrorFields(c, m) ==
    OldId(c) \o IntsNamed(<<"error_code", "retry_interval">>) \o <<Field("text", "reason")>>
    \o (IF Redirected(c, m) THEN <<Field("text", "connect_uri")>> \o Tns \o Name ELSE <<>>)
RequestErrorRead(c, m) ==
    OldIdEnd(c) \o IntsNamed(<<"error_code", "retry_interval">>) \o <<Field("text", "reason")>>
    \o (IF "error_code" \in DOMAIN m /\ Redirected(c, m)
        THEN <<Field("more", "redirect"), Field("text", "connect_uri")>> \o Tns \o Name ELSE <<>>)

PublishNamespaceFields(c) == Id \o Delta(c) \o Tns \o Params
PublishNamespaceRead(c) == Id \o Delta(c) \o Tns \o Params

PublishNamespaceDoneFields == Id
PublishNamespaceDoneRead == <<Field("end", "request_id")>>

PublishNamespaceCancelFields == Id \o IntsNamed(<<"error_code">>) \o <<Field("text", "reason")>>
PublishNamespaceCancelRead == Id \o IntsNamed(<<"error_code">>) \o <<Field("text", "reason")>>

PublishFields(c) == Id \o Delta(c) \o Tns \o Name \o IntsNamed(<<"track_alias">>) \o Params \o Props
PublishRead(c) == Id \o Delta(c) \o Tns \o Name \o IntsNamed(<<"track_alias">>) \o Params \o Props

PublishOkFields(c) == OldId(c) \o Params
PublishOkRead(c) == OldIdEnd(c) \o Params

SubscribeFields(c) == Id \o Delta(c) \o Tns \o Name \o Params
SubscribeRead(c) == Id \o Delta(c) \o Tns \o Name \o Params

OldSubscription(c) == IF c.version <= 16 THEN <<Field("int", "sub_request_id")>> ELSE Delta(c)
RequestUpdateFields(c) == Id \o OldSubscription(c) \o Params
RequestUpdateRead(c) == Id \o OldSubscription(c) \o Params

SubscribeOkFields(c) == OldId(c) \o IntsNamed(<<"track_alias">>) \o Params \o Props
SubscribeOkRead(c) == OldIdEnd(c) \o IntsNamed(<<"track_alias">>) \o Params \o Props

UnsubscribeFields == Id
UnsubscribeRead == <<Field("end", "request_id")>>

PublishDoneFields(c) == OldId(c) \o IntsNamed(<<"status_code", "streams_count">>) \o <<Field("text", "reason")>>
PublishDoneRead(c) == OldIdEnd(c) \o IntsNamed(<<"status_code", "streams_count">>) \o <<Field("text", "reason")>>

SubscribeOptions(c) == IF c.version < 18 THEN <<Field("options", "subscribe_options")>> ELSE <<>>
SubscribeNamespaceFields(c) == Id \o Delta(c) \o Tns \o SubscribeOptions(c) \o Params
SubscribeNamespaceRead(c) == Id \o Delta(c) \o Tns \o SubscribeOptions(c) \o Params

SubscribeTracksFields == Id \o Tns \o Params
SubscribeTracksRead == Id \o Tns \o Params

NamespaceFields == Tns
NamespaceRead == <<Field("nsEnd", "track_namespace")>>
NamespaceDoneFields == Tns
NamespaceDoneRead == <<Field("nsEnd", "track_namespace")>>
PublishBlockedFields == Tns \o Name
PublishBlockedRead == <<Field("nsEnd", "track_namespace")>> \o Name

Standalone == Tns \o Name \o IntsNamed(<<"start_group", "start_object", "end_group", "end_object">>)
Joining == IntsNamed(<<"joining_request_id", "joining_start">>)
FetchFields(c, m) ==
    Id \o Delta(c) \o IntsNamed(<<"fetch_type">>) \o (IF m["fetch_type"] = 1 THEN Standalone ELSE Joining) \o Params
FetchRead(c, m) ==
    Id \o Delta(c) \o IntsNamed(<<"fetch_type">>)
    \o (IF "fetch_type" \notin DOMAIN m THEN <<>>
        ELSE CASE m["fetch_type"] = 1 -> Standalone
               [] m["fetch_type"] \in {2, 3} -> Joining
               [] OTHER -> <<Field("unknown", "fetch_type")>>)
    \o Params

FetchCancelFields == Id
FetchCancelRead == <<Field("end", "request_id")>>

FetchOkFields(c) ==
    OldId(c) \o <<Field("byte", "end_of_track")>> \o IntsNamed(<<"largest_group", "largest_object_id">>) \o Params \o Props
FetchOkRead(c) ==
    OldIdEnd(c) \o <<Field("byte", "end_of_track")>> \o IntsNamed(<<"largest_group", "largest_object_id">>) \o Params \o Props

TrackStatusFields == Id \o Tns \o Name \o Params
TrackStatusRead == Id \o Tns \o Name \o Params

GoawayFields(c) ==
    <<Field("text", "uri")>>
    \o (IF c.version >= 17 THEN IntsNamed(<<"timeout">>) ELSE <<>>)
    \o (IF c.version >= 18 /\ c.control THEN Id ELSE <<>>)
GoawayRead(c) ==
    <<Field("uri", "uri")>>
    \o (IF c.version >= 17 THEN <<Field("end", "timeout")>> ELSE <<>>)
    \o (IF c.version >= 18 /\ c.control THEN <<Field("end", "request_id")>> ELSE <<>>)

MaxRequestIdFields == Id
MaxRequestIdRead == <<Field("end", "request_id")>>
RequestsBlockedFields == Id
RequestsBlockedRead == <<Field("end", "request_id")>>

Old == {"PUBLISH_NAMESPACE_DONE", "PUBLISH_NAMESPACE_CANCEL", "FETCH_CANCEL", "MAX_REQUEST_ID", "REQUESTS_BLOCKED"}

WriterOf(c, m) ==
    CASE c.name = "REQUEST_OK" -> RequestOkFields(c)
      [] c.name = "REQUEST_ERROR" -> RequestErrorFields(c, m)
      [] c.name = "PUBLISH_NAMESPACE" -> PublishNamespaceFields(c)
      [] c.name = "PUBLISH_NAMESPACE_DONE" -> PublishNamespaceDoneFields
      [] c.name = "PUBLISH_NAMESPACE_CANCEL" -> PublishNamespaceCancelFields
      [] c.name = "PUBLISH" -> PublishFields(c)
      [] c.name = "PUBLISH_OK" -> PublishOkFields(c)
      [] c.name = "SUBSCRIBE" -> SubscribeFields(c)
      [] c.name = "REQUEST_UPDATE" -> RequestUpdateFields(c)
      [] c.name = "SUBSCRIBE_OK" -> SubscribeOkFields(c)
      [] c.name = "UNSUBSCRIBE" -> UnsubscribeFields
      [] c.name = "PUBLISH_DONE" -> PublishDoneFields(c)
      [] c.name = "SUBSCRIBE_NAMESPACE" -> SubscribeNamespaceFields(c)
      [] c.name = "SUBSCRIBE_TRACKS" -> SubscribeTracksFields
      [] c.name = "NAMESPACE" -> NamespaceFields
      [] c.name = "NAMESPACE_DONE" -> NamespaceDoneFields
      [] c.name = "PUBLISH_BLOCKED" -> PublishBlockedFields
      [] c.name = "FETCH" -> FetchFields(c, m)
      [] c.name = "FETCH_CANCEL" -> FetchCancelFields
      [] c.name = "FETCH_OK" -> FetchOkFields(c)
      [] c.name = "TRACK_STATUS" -> TrackStatusFields
      [] c.name = "GOAWAY" -> GoawayFields(c)
      [] c.name = "MAX_REQUEST_ID" -> MaxRequestIdFields
      [] c.name = "REQUESTS_BLOCKED" -> RequestsBlockedFields

ReaderOf(c, m) ==
    CASE c.name = "REQUEST_OK" -> RequestOkRead(c)
      [] c.name = "REQUEST_ERROR" -> RequestErrorRead(c, m)
      [] c.name = "PUBLISH_NAMESPACE" -> PublishNamespaceRead(c)
      [] c.name = "PUBLISH_NAMESPACE_DONE" -> PublishNamespaceDoneRead
      [] c.name = "PUBLISH_NAMESPACE_CANCEL" -> PublishNamespaceCancelRead
      [] c.name = "PUBLISH" -> PublishRead(c)
      [] c.name = "PUBLISH_OK" -> PublishOkRead(c)
      [] c.name = "SUBSCRIBE" -> SubscribeRead(c)
      [] c.name = "REQUEST_UPDATE" -> RequestUpdateRead(c)
      [] c.name = "SUBSCRIBE_OK" -> SubscribeOkRead(c)
      [] c.name = "UNSUBSCRIBE" -> UnsubscribeRead
      [] c.name = "PUBLISH_DONE" -> PublishDoneRead(c)
      [] c.name = "SUBSCRIBE_NAMESPACE" -> SubscribeNamespaceRead(c)
      [] c.name = "SUBSCRIBE_TRACKS" -> SubscribeTracksRead
      [] c.name = "NAMESPACE" -> NamespaceRead
      [] c.name = "NAMESPACE_DONE" -> NamespaceDoneRead
      [] c.name = "PUBLISH_BLOCKED" -> PublishBlockedRead
      [] c.name = "FETCH" -> FetchRead(c, m)
      [] c.name = "FETCH_CANCEL" -> FetchCancelRead
      [] c.name = "FETCH_OK" -> FetchOkRead(c)
      [] c.name = "TRACK_STATUS" -> TrackStatusRead
      [] c.name = "GOAWAY" -> GoawayRead(c)
      [] c.name = "MAX_REQUEST_ID" -> MaxRequestIdRead
      [] c.name = "REQUESTS_BLOCKED" -> RequestsBlockedRead

-----------------------------------------------------------------------------
(* Writing.  Nothing at all is written of a message that may not be.        *)

Redirectable(c, m) == c.name = "REQUEST_ERROR" /\ Redirected(c, m) => "connect_uri" \in DOMAIN m

Addable(c, m) ==
    /\ c.name \in Old => c.version <= 16
    /\ Redirectable(c, m)
    /\ c.name = "GOAWAY" /\ ~c.server => m["uri"] = <<>>
    /\ \A i \in 1..Len(WriterOf(c, m)) :
          LET f == WriterOf(c, m)[i]
          IN  CASE f.kind = "ns" -> NamespacesAddable(c.name, m[f.name])
                [] f.kind = "name" -> Len(m[f.name]) <= MaxTrackName
                [] f.kind = "text" -> Len(m[f.name]) <= MaxText
                [] OTHER -> TRUE

AddField(c, m, f) ==
    CASE f.name = "required_request_id_delta" -> Num(c.version, 0)
      [] f.name # "required_request_id_delta" /\ f.kind \in {"int", "options"} -> Num(c.version, m[f.name])
      [] f.kind = "byte" -> <<m[f.name]>>
      [] f.kind \in {"text", "name"} -> Data(c.version, m[f.name])
      [] f.kind = "ns" -> Tuples(c.version, m[f.name])
      [] f.kind = "params" -> AddParameters(c.version, c.name, m[f.name])
      [] f.kind = "props" -> AddProperties(c.version, m[f.name])

AddMessage(c, m) ==
    IF ~Addable(c, m) THEN <<>>
    ELSE FoldLeft(LAMBDA b, f : b \o AddField(c, m, f), <<>>, WriterOf(c, m))

-----------------------------------------------------------------------------
(* Parsing. *)

ReadField(c, s, f) ==
    CASE f.kind = "int" -> ReadInt(c.version, s, f.name, FALSE)
      [] f.kind = "end" -> ReadInt(c.version, s, f.name, TRUE)
      [] f.kind = "options" ->
             LET t == ReadInt(c.version, s, f.name, FALSE)
             IN  IF t.error = Fine /\ t.fields[f.name] > 2 THEN Fail(t, Broken) ELSE t
      [] f.kind = "byte" -> IF Len(s.bytes) < 2 THEN Fail(s, Broken) ELSE Got(Skip(s, 1), f.name, s.bytes[1])
      [] f.kind = "text" -> ReadText(c.version, s, f.name, <<>>)
      [] f.kind = "uri" ->
             LET r == ReadMoqint(c.version, s.bytes)
             IN  IF r.length > 0 /\ r.value > 0 /\ c.server THEN Fail(s, Violation)
                 ELSE ReadText(c.version, s, f.name, <<10>>)
      [] f.kind = "more" -> IF s.bytes = <<>> THEN Fail(s, Violation) ELSE s
      [] f.kind = "ns" -> ReadNamespaces(c.version, s, c.name, FALSE)
      [] f.kind = "nsEnd" -> ReadNamespaces(c.version, s, "NAMESPACE", TRUE)
      [] f.kind = "name" -> ReadTrackName(c.version, s)
      [] f.kind = "params" -> ReadParameters(c.version, s)
      [] f.kind = "props" -> Got([s EXCEPT !.bytes = <<>>], f.name, ParseProperties(c.version, s.bytes))
      [] f.kind = "trailing" ->
             IF s.bytes # <<>> /\ c.answers # "TRACK_STATUS" THEN Fail(s, Violation)
             ELSE Got([s EXCEPT !.bytes = <<>>], f.name,
                      IF c.version >= 18 THEN ParseProperties(c.version, s.bytes) ELSE <<>>)
      [] f.kind = "unknown" -> Fail(s, Broken)

MostFields == 12

(* One field after the other, until one does not parse; bytes that are left *)
(* after the last are not looked at.                                        *)
ParseMessage(c, bytes) ==
    IF c.name \in Old /\ c.version >= 17 THEN Fail(Reading(bytes), Violation)
    ELSE IF bytes = <<>> THEN Fail(Reading(bytes), Broken)
    ELSE FoldLeft(LAMBDA s, i : LET l == ReaderOf(c, s.fields)
                                IN  IF s.error # Fine \/ i > Len(l) THEN s ELSE ReadField(c, s, l[i]),
                  Reading(bytes), Seq1(MostFields))

-----------------------------------------------------------------------------
(* Setup options: like parameters, but an odd type always has a length.     *)

OptionTypes == [path |-> 1, max_request_id |-> 2, auth_token |-> 3, max_auth_token_cache_size |-> 4,
                authority |-> 5, moqt_implementation |-> 7]

OptionOf(type) == {o \in DOMAIN OptionTypes : OptionTypes[o] = type}

(* GREASE: values 0x7f * n + 0x9d, sent to see that they are skipped. *)
IsGrease(version, type) == version >= 17 /\ type >= 157 /\ (type - 157) % 127 = 0

(* options: from types to numbers (even) or bytes (odd). *)
AddOptions(version, options) ==
    LET order == Ascending(DOMAIN options, LAMBDA t : t)
        delta(i) == order[i] - (IF i = 1 THEN 0 ELSE order[i - 1])
    IN  (IF version <= 16 THEN Num(version, Len(order)) ELSE <<>>)
        \o FoldLeft(LAMBDA b, i : b \o Num(version, delta(i))
                                    \o (IF order[i] % 2 = 0 THEN Num(version, options[order[i]][1])
                                        ELSE Data(version, options[order[i]])),
                    <<>>, Seq1(Len(order)))

(* An even option nobody knows is skipped for as many bytes as its type     *)
(* took, whatever its value takes.                                          *)
TakeOption(version, s, r, t) ==
    LET type == s.fields["type"]
        Put(q, value) == IF OptionOf(type) = {} THEN q ELSE [q EXCEPT !.fields["options"] = (type :> value) @@ @]
    IN  IF s.error # Fine THEN s
        ELSE IF type % 2 = 1
        THEN IF r.length = 0 \/ r.value > Len(s.bytes) - r.length THEN Fail(s, Broken)
             ELSE Put(Skip(s, r.length + r.value), SubSeq(s.bytes, r.length + 1, r.length + r.value))
        ELSE IF OptionOf(type) # {} \/ IsGrease(version, type)
        THEN IF r.length = 0 THEN Fail(s, Broken) ELSE Put(Skip(s, r.length), <<r.value>>)
        ELSE Skip(s, t)

ReadOption(version, s) ==
    LET at == ReadType(version, s)
    IN  TakeOption(version, at, ReadMoqint(version, at.bytes), Len(s.bytes) - Len(at.bytes))

ParseOptions(version, bytes) ==
    LET n == ReadMoqint(version, bytes)
        s == [Reading(bytes) EXCEPT !.fields = ("options" :> <<>>) @@ ("type" :> 0)]
        start == IF version <= 16 THEN Skip(s, n.length) ELSE s
        One(q) == IF q.error # Fine THEN q ELSE ReadOption(version, q)
    IN  IF version <= 16
        THEN IF n.length = 0 \/ (n.value > 0 /\ n.length = Len(bytes)) THEN Fail(s, Broken)
             ELSE FoldLeft(LAMBDA q, i : One(q), start, Seq1(n.value))
        ELSE FoldLeft(LAMBDA q, i : IF q.bytes = <<>> THEN q ELSE One(q), start, Seq1(Len(bytes)))

-----------------------------------------------------------------------------
(* Framing: type, length in two bytes, message.  What has arrived of a      *)
(* message waits until the rest is there.                                   *)

Frame(version, type, body) == Num(version, type) \o <<Len(body) \div 256, Len(body) % 256>> \o body


(* A type that is cut is taken for 0 in no bytes, and the length after it   *)
(* is looked for in its own bytes.                                          *)
Framed(version, buffer) ==
    LET t == ReadMoqint(version, buffer)
        left == Len(buffer) - t.length
        length == 256 * buffer[t.length + 1] + buffer[t.length + 2]
    IN  IF left < 2 \/ length > left - 2 THEN <<>>
        ELSE <<[type |-> t.value, body |-> SubSeq(buffer, t.length + 3, t.length + 2 + length),
                length |-> t.length + 2 + length]>>

(* 0x2F00, the only message whose parser takes a body of no bytes. *)
SetupType == 12032

(* The messages of a buffer, oldest first, and what is left of it.  A parser *)
(* takes the whole body.  One that refuses stops the call, and an empty body *)
(* stays where it is; a message as long as the one before it in the call,    *)
(* which took prev bytes, is read but ends the call ("didn't advance").      *)
RECURSIVE TakeMessages(_, _, _)
TakeMessages(version, prev, buffer) ==
    LET f == Framed(version, buffer)
        length == Len(f[1].body)
        left == SubSeq(buffer, f[1].length + 1, Len(buffer))
        rest == IF length = prev THEN [buffer |-> left, messages |-> <<>>]
                ELSE TakeMessages(version, length, left)
    IN  IF f = <<>> \/ (length = 0 /\ f[1].type # SetupType)
        THEN [buffer |-> buffer, messages |-> <<>>]
        ELSE [rest EXCEPT !.messages = <<[type |-> f[1].type, body |-> f[1].body]>> \o @]

Arrive(version, q, piece) ==
    LET t == TakeMessages(version, 0, q.buffer \o piece)
    IN  [buffer |-> t.buffer, messages |-> q.messages \o t.messages]

-----------------------------------------------------------------------------
(* Objects as datagrams: the type says which fields there are. *)

DatagramType(payload, prop, oid) == (IF payload THEN 0 ELSE 32) + (IF prop THEN 1 ELSE 0) + (IF oid THEN 0 ELSE 4)

AddDatagram(version, o) ==
    LET prop == o.properties # <<>>
        bytes == AddProperties(version, o.properties)
    IN  Num(version, DatagramType(o.status = 0, prop, o.object_id # 0))
        \o Num(version, o.track_alias) \o Num(version, o.group_id)
        \o (IF o.object_id # 0 THEN Num(version, o.object_id) ELSE <<>>)
        \o <<o.priority>>
        \o (IF prop THEN Data(version, bytes) ELSE <<>>)
        \o (IF o.status = 0 THEN o.payload ELSE Num(version, o.status))

(* What precedes the payload or the status.  The parser of a status reads   *)
(* an object ID where there is none and keeps it.                           *)
TakeObjectId(version, s, hasId, hasStatus) ==
    IF s.error # Fine THEN s
    ELSE IF hasId THEN ReadInt(version, s, "object_id", FALSE)
    ELSE Got(s, "object_id", IF hasStatus THEN ReadMoqint(version, s.bytes).value ELSE 0)

TakePriority(s, hasPriority) ==
    IF s.error # Fine THEN s
    ELSE IF hasPriority THEN Got(Skip(s, 1), "priority", s.bytes[1]) ELSE Got(s, "priority", 0)

TakeProperties(version, s, n) ==
    IF n.length = 0 \/ n.length = Len(s.bytes) THEN Fail(s, Broken)
    ELSE IF n.value = 0 THEN Fail(s, Violation)
    ELSE IF n.value >= Len(s.bytes) - n.length THEN Fail(s, Broken)
    ELSE Got(Skip(s, n.length + n.value), "properties",
             ParseProperties(version, SubSeq(s.bytes, n.length + 1, n.length + n.value)))

ReadObjectProperties(version, s, hasProperties) ==
    IF s.error # Fine THEN s
    ELSE IF hasProperties THEN TakeProperties(version, s, ReadMoqint(version, s.bytes))
    ELSE Got(s, "properties", <<>>)

TakeStatus(s, r) ==
    IF r.length = 0 THEN Fail(s, Broken)
    ELSE IF r.value > 4 THEN Fail(s, Violation)
    ELSE Got(Got(s, "payload", <<>>), "status", r.value)

ReadPayload(version, s, hasStatus) ==
    IF s.error # Fine THEN s
    ELSE IF hasStatus THEN TakeStatus(s, ReadMoqint(version, s.bytes))
    ELSE Got(Got(s, "payload", s.bytes), "status", 0)

TakeDatagram(version, s, type) ==
    LET Has(bit) == (type \div bit) % 2 = 1
        ids == ReadInt(version, ReadInt(version, s, "track_alias", FALSE), "group_id", FALSE)
        priority == TakePriority(TakeObjectId(version, ids, ~Has(4), Has(32)), ~Has(8))
    IN  IF Len(s.bytes) < 5 THEN Fail(s, Broken)
        ELSE ReadPayload(version, ReadObjectProperties(version, priority, Has(1)), Has(32))

ReadDatagram(version, bytes) ==
    LET t == ReadMoqint(version, bytes)
    IN  TakeDatagram(version, Skip(Reading(bytes), t.length), t.value)

-----------------------------------------------------------------------------
(* Authorization tokens. *)

Delete == 0
Register == 1
UseAlias == 2
UseValue == 3

AddToken(version, token) ==
    IF \/ token.alias_type \notin {Delete, Register, UseAlias, UseValue}
       \/ token.alias_type # UseValue /\ "alias" \notin DOMAIN token
       \/ token.alias_type \in {Register, UseValue} /\ "type" \notin DOMAIN token
    THEN <<>>
    ELSE Num(version, token.alias_type)
         \o (IF token.alias_type # UseValue THEN Num(version, token.alias) ELSE <<>>)
         \o (IF token.alias_type \in {Register, UseValue} THEN Num(version, token.type) \o token.value ELSE <<>>)

TokenAlias(version, s) ==
    IF s.error # Fine THEN s
    ELSE IF s.fields["alias_type"] \notin {Delete, Register, UseAlias, UseValue} THEN Fail(s, Broken)
    ELSE IF s.fields["alias_type"] = UseValue THEN s ELSE ReadInt(version, s, "alias", TRUE)

TokenType(version, s) ==
    IF s.error # Fine \/ s.fields["alias_type"] \notin {Register, UseValue} THEN s
    ELSE ReadInt(version, s, "type", TRUE)

ParseToken(version, bytes) ==
    LET s == TokenType(version, TokenAlias(version, ReadInt(version, Reading(bytes), "alias_type", TRUE)))
    IN  IF bytes = <<>> THEN Fail(Reading(bytes), Broken)
        ELSE IF s.error # Fine \/ "type" \notin DOMAIN s.fields THEN s ELSE Got(s, "value", s.bytes)
=============================================================================
