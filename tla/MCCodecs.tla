------------------------------ MODULE MCCodecs ------------------------------
(***************************************************************************)
(* The wire formats over samples: every number up to Small and both sides  *)
(* of every boundary of the integer encodings, short arbitrary bytes, and  *)
(* for each kind of message its fields with values of one and of two       *)
(* bytes, alone and together.                                              *)
(***************************************************************************)
EXTENDS MoqMessages, MoqNames, MoqCatalog, Qpack

CONSTANTS Small,     \* every number up to here is tried
          Bytes,     \* the bytes tried in the sequences that are read
          RangeFrom  \* the first version whose absolute ranges are tried

Versions == {16, 17, 18}

VARIABLE sample

Init == sample = [kind |-> "none"]

Unpicked == sample.kind = "none"

-----------------------------------------------------------------------------
(* Integers. *)

Boundaries == {63, 127, 254, 255, 16383, 65535, 2097151, 16777215, 268435455, 1073741823}

Numbers == (0..Small) \cup Boundaries \cup {b + 1 : b \in Boundaries} \cup {b - 1 : b \in Boundaries}

PickNumber == Unpicked /\ \E v \in Numbers : sample' = [kind |-> "number", v |-> v]

PickBytes == Unpicked /\ \E input \in BoundedSeq(Bytes, 3) : sample' = [kind |-> "bytes", input |-> input]

(* Numbers beyond TLC's, as the eight digits of a uint64_t: each power of two, *)
(* and the number below it.                                                  *)
Power(e) == [i \in 1..8 |-> IF i = 8 - (e \div 8) THEN 2^(e % 8) ELSE 0]
Below(e) == [i \in 1..8 |-> IF i = 8 - (e \div 8) THEN 2^(e % 8) - 1 ELSE IF i > 8 - (e \div 8) THEN 255 ELSE 0]

PickWord ==
    /\ Unpicked
    /\ \E w \in {Power(e) : e \in 0..63} \cup {Below(e) : e \in 0..63} \cup {[i \in 1..8 |-> 255], [i \in 1..8 |-> i]} :
          sample' = [kind |-> "word", word |-> w]

(* First bytes of the forms of five bytes and more, and what may follow. *)
PickLong ==
    /\ Unpicked
    /\ \E first \in {240, 247, 248, 251, 252, 253, 254, 255}, n \in 3..9 : \E rest \in [1..n -> {0, 255}] :
          sample' = [kind |-> "long", input |-> <<first>> \o rest]

PrefixBits == 3..8

(* What any reader takes when more bytes follow, and when the last is missing. *)
Exactly(Read(_), bytes, n) ==
    /\ Read(bytes) = Parsed(n, Len(bytes))
    /\ Read(bytes \o <<255, 7>>) = Parsed(n, Len(bytes))
    /\ Read(Front(bytes)) = Refused

(* Every encoding reads back as the number that was written, whatever bytes  *)
(* follow it in the buffer, and not before its last byte is there: this is   *)
(* what lets every parser of the library read as much of a message as has    *)
(* arrived and come back for the rest.                                       *)
NumberRoundTrips(v) ==
    /\ Exactly(ReadVarint, WriteVarint(v, 8), v)
    /\ \A version \in Versions :
          Exactly(LAMBDA b : ReadMoqint(version, b), WriteMoqint(version, v, 9), v)
    /\ v <= 268435455 => \A n \in PrefixBits :
          Exactly(LAMBDA b : ReadPfxint(n, b), WritePfxint(v, n, 0, 10), v)

NumbersReadBack == sample.kind = "number" => NumberRoundTrips(sample.v)

(* A writer never takes more room than it was given, and needs no more than  *)
(* what it writes: with one byte less it writes nothing at all.              *)
FitsOrNothing ==
    sample.kind = "number" =>
        LET v == sample.v
        IN  \A W \in {[r \in 0..10 |-> WriteVarint(v, r)]}
                     \cup {[r \in 0..10 |-> WriteMoqint(version, v, r)] : version \in Versions}
                     \cup {[r \in 0..10 |-> IF v > 268435455 THEN <<>> ELSE WritePfxint(v, n, 0, r)] : n \in PrefixBits} :
                \A r \in 1..10 : W[r] = IF r < Len(W[10]) THEN <<>> ELSE W[10]

Padded(digits) == [i \in 1..8 |-> IF i + Len(digits) > 8 THEN digits[i + Len(digits) - 8] ELSE 0]

(* The two properties above for every form the integers of versions 17 and   *)
(* 18 have, those of six to nine bytes too.                                  *)
WordsReadBack ==
    sample.kind = "word" => \A version \in {17, 18} : \A bytes \in {WriteWord(version, sample.word, 9)} :
        /\ \A more \in {<<>>, <<255, 7>>} :
              LET r == MoqintDigits(version, bytes \o more)
              IN  r.length = Len(bytes) /\ Padded(r.value) = sample.word
        /\ MoqintDigits(version, Front(bytes)).length = 0
        /\ \A room \in 0..9 : WriteWord(version, sample.word, room) = IF room < Len(bytes) THEN <<>> ELSE bytes

(* What version 17 has no form for: 0xFD starts seven bytes when it reads,   *)
(* which it does not write (see the README).                                 *)
Unwritten(version, bytes) == version = 17 /\ bytes # <<>> /\ bytes[1] = 253

(* A reader of arbitrary bytes takes no more than there are, and what it     *)
(* takes written back is at most as long: the writers choose the shortest    *)
(* form, and no number has two shortest forms.  What it takes for n bytes w. *)
Shortest(n, w, input) ==
    /\ n <= Len(input)
    /\ n > 0 => /\ Len(w) <= n
                /\ Len(w) = n => w = SubSeq(input, 1, n)

ReadsWithin ==
    /\ sample.kind = "bytes" =>
          LET r == ReadVarint(sample.input) IN Shortest(r.length, WriteVarint(r.value, 8), sample.input)
    /\ sample.kind \in {"bytes", "long"} => \A version \in {17, 18} :
          LET r == MoqintDigits(version, sample.input)
          IN  Unwritten(version, sample.input)
              \/ Shortest(r.length, WriteWord(version, Padded(r.value), 9), sample.input)

-----------------------------------------------------------------------------
(* Messages.  k says whether the numbers of a sample take one byte or two.  *)

Names(version) ==
    {"REQUEST_OK", "REQUEST_ERROR", "PUBLISH_NAMESPACE", "PUBLISH", "PUBLISH_OK", "SUBSCRIBE", "REQUEST_UPDATE",
     "SUBSCRIBE_OK", "UNSUBSCRIBE", "PUBLISH_DONE", "SUBSCRIBE_NAMESPACE", "NAMESPACE", "NAMESPACE_DONE",
     "FETCH", "FETCH_OK", "TRACK_STATUS", "GOAWAY"}
    \cup (IF version <= 16 THEN Old ELSE {})
    \cup (IF version >= 18 THEN {"SUBSCRIBE_TRACKS", "PUBLISH_BLOCKED"} ELSE {})

Contexts ==
    UNION {[version : {version}, name : Names(version), control : BOOLEAN, server : {TRUE}, answers : {"TRACK_STATUS"}] :
           version \in Versions}

Ranges(version) == IF version >= RangeFrom THEN {4} ELSE {}

Filter(version, k) ==
    LET l == IF k = 1 THEN [group |-> 0, object |-> 5] ELSE [group |-> 200, object |-> 0]
    IN  {[type |-> 1, start |-> [group |-> 0, object |-> 0], end_group |-> 0],
         [type |-> 3, start |-> l, end_group |-> 0]}
        \cup [type : Ranges(version), start : {l}, end_group : {l.group, l.group + 70}]

ParameterSamples(version, p, k) ==
    CASE p \in Timeouts -> {<<1, 300>>[k]}
      [] p \in Varints \ Timeouts -> {<<0, 300>>[k]}
      [] p \in Uint8s -> {<<0, IF p = "forward" THEN 1 ELSE 200>>[k]}
      [] p = "largest_object" -> {<<[group |-> 0, object |-> 5], [group |-> 130, object |-> 0]>>[k]}
      [] p = "auth_token" -> {<<<<0>>, <<7, 8>>>>[k]}
      [] p = "subscription_filter" -> Filter(version, k)
      [] p = "track_namespace_prefix" -> {<<<<<<1>>>>, <<<<1>>, <<2, 3>>>>>>[k]}

(* None, one, all but one and all of the parameters of the version. *)
ParameterSets(version) ==
    LET all == {p \in Parameters : Knows(version, p)}
    IN  {{}, all} \cup {{p} : p \in all} \cup {all \ {p} : p \in all}

ParameterLists(version, k) ==
    UNION {LET some == UNION {ParameterSamples(version, p, k) : p \in {"subscription_filter"}}
           IN  {[p \in ps |-> IF p = "subscription_filter" THEN f
                              ELSE CHOOSE v \in ParameterSamples(version, p, k) : TRUE] :
                f \in IF "subscription_filter" \in ps THEN some ELSE {CHOOSE v \in some : TRUE}} :
           ps \in ParameterSets(version)}

PropertyLists(k) ==
    {<<>>, <<[id |-> 2, value |-> <<<<5, 300>>[k]>>]>>,
     <<[id |-> 200, value |-> <<0>>], [id |-> 3, value |-> <<7, 8>>], [id |-> 5, value |-> <<>>], [id |-> 5, value |-> <<9>>]>>}

(* What ends in an empty track name does not parse, see the README. *)
EndsInName(c) == c.name \in {"REQUEST_ERROR", "PUBLISH_BLOCKED"}

Values(c, f, i, k) ==
    CASE f.name = "required_request_id_delta" -> {0}
      [] f.name = "subscribe_options" -> {k}
      [] f.name = "uri" -> {<<>>}
      [] f.kind = "byte" -> {k - 1}
      [] f.kind = "int" /\ f.name # "required_request_id_delta" -> {<<i, 200 + i>>[k]}
      [] f.kind = "text" /\ f.name # "uri" -> {<<>>, <<65, 66>>}
      [] f.kind = "ns" -> {<<>>, <<<<1>>>>, <<<<1>>, <<2, 3>>>>}
      [] f.kind = "name" -> {<<9, 9>>} \cup (IF EndsInName(c) THEN {} ELSE {<<>>})
      [] f.kind = "params" -> ParameterLists(c.version, k)
      [] f.kind = "props" -> PropertyLists(k)

(* The fields that decide which others there are. *)
Heads(c) ==
    CASE c.name = "REQUEST_ERROR" -> {"error_code" :> 1, "error_code" :> 52}
      [] c.name = "FETCH" -> {"fetch_type" :> t : t \in 1..3}
      [] OTHER -> {<<>>}

MessagesOf(c, head, k) ==
    LET fields == WriterOf(c, head)
    IN  FoldLeft(LAMBDA ms, i : IF fields[i].name \in DOMAIN head THEN ms
                                ELSE {(fields[i].name :> v) @@ m : m \in ms, v \in Values(c, fields[i], i, k)},
                 {head}, Seq1(Len(fields)))

PickMessage ==
    /\ Unpicked
    /\ \E c \in Contexts, k \in 1..2 : \E head \in Heads(c) : \E m \in MessagesOf(c, head, k) :
          /\ c.control => c.name = "GOAWAY"
          /\ sample' = [kind |-> "message", c |-> c, m |-> m]

Sorted(properties) == SortSeq(properties, LAMBDA a, b : a.id < b.id)

(* What the peer is to make of a message: parameters that a message does not *)
(* carry are left out, properties come in the order of their IDs.            *)
Meant(c, m) ==
    [f \in DOMAIN m |->
        CASE f = "parameters" -> Restrict(m[f], Carried(c.version, c.name, m[f]))
          [] f = "track_properties" -> Sorted(m[f])
          [] OTHER -> m[f]]

FieldsOf(s) == [f \in DOMAIN s.fields \ {"type", "length"} |-> s.fields[f]]

(* The peer reads of a message what the sender put into it, in each version  *)
(* and whichever of the parameters, properties and tuples are there: two     *)
(* functions far apart in the code, one per message and direction, agree.    *)
MessagesReadBack ==
    sample.kind = "message" =>
        \A bytes \in {AddMessage(sample.c, sample.m)}, meant \in {Meant(sample.c, sample.m)} :
            LET s == ParseMessage([sample.c EXCEPT !.server = FALSE], bytes)
            IN  Addable(sample.c, sample.m) =>
                    /\ s.error = Fine /\ s.bytes = <<>>
                    /\ FieldsOf(s) \in {meant, meant @@ ("track_properties" :> <<>>)}

(* A range of groups is the same range at the peer.  (Not in version 16: see *)
(* the README, what the code does.)                                          *)
RangeSurvives ==
    sample.kind = "message" /\ "parameters" \in DOMAIN sample.m =>
        \A bytes \in {AddMessage(sample.c, sample.m)} :
            LET written == Restrict(sample.m["parameters"], Carried(sample.c.version, sample.c.name, sample.m["parameters"]))
                s == ParseMessage([sample.c EXCEPT !.server = FALSE], bytes)
            IN  "subscription_filter" \in DOMAIN written /\ Addable(sample.c, sample.m) =>
                    s.fields["parameters"]["subscription_filter"] = written["subscription_filter"]

-----------------------------------------------------------------------------
(* Setup options, framing, datagrams, tokens. *)

Grease == {157, 284}

OptionValue(type, k) == IF type % 2 = 0 THEN <<<<3, 300>>[k]>> ELSE <<<<>>, <<7, 8>>>>[k]

PickOptions ==
    /\ Unpicked
    /\ \E version \in Versions, types \in SUBSET {1, 2, 3, 4, 5, 7, 157, 284}, k \in 1..2 :
          /\ version <= 16 => types \cap Grease = {}
          /\ sample' = [kind |-> "options", version |-> version, options |-> [t \in types |-> OptionValue(t, k)]]

(* The peer finds the options that were set, and nothing of those nobody     *)
(* knows, which are sent to see that they do no harm.                        *)
OptionsReadBack ==
    sample.kind = "options" =>
        \A bytes \in {AddOptions(sample.version, sample.options)} :
            LET s == ParseOptions(sample.version, bytes)
            IN  /\ s.error = Fine /\ s.bytes = <<>>
                /\ s.fields["options"] = Restrict(sample.options, DOMAIN sample.options \ Grease)

Bodies == {<<>>, <<0, 9, 200>>, <<2, 0, 2>>, <<1, 2>> \o [i \in 1..255 |-> i % 7]}

(* A control stream starts with SETUP; what else there is has a type of one  *)
(* byte, 0x10 for GOAWAY.                                                    *)
FirstTypes(version) == IF version >= 17 THEN {16, SetupType} ELSE {16}

Frames(version, messages) ==
    FlattenSeq([i \in DOMAIN messages |-> Frame(version, messages[i].type, messages[i].body)])

(* Cuts in and next to the header of each message. *)
CutsOf(version, messages) ==
    UNION {{Len(Frames(version, SubSeq(messages, 1, i))) + n : n \in -1..5} : i \in 0..(Len(messages) - 1)}

(* Three messages, and up to two cuts. *)
PickStream ==
    /\ Unpicked
    /\ \E version \in Versions : \E type \in FirstTypes(version), b1, b2 \in Bodies, b3 \in Bodies \ {<<>>} :
       \E messages \in {<<[type |-> type, body |-> b1], [type |-> 16, body |-> b2], [type |-> 16, body |-> b3]>>} :
       \E i, j \in CutsOf(version, messages) :
          i <= j /\ sample' = [kind |-> "stream", version |-> version, cut |-> {i, j}, messages |-> messages]

(* Where the parser may stop though a whole message is there, after the      *)
(* first n: at an empty body, and after a message as long as the one before. *)
MayStop(messages, n) ==
    \/ messages[n + 1].body = <<>> /\ messages[n + 1].type # SetupType
    \/ n > 0 /\ Len(messages[n].body) = (IF n = 1 THEN 0 ELSE Len(messages[n - 1].body))


(* Datagrams the parser can take: five bytes or more, and a status only with *)
(* an object ID (see the README).                                            *)
PickDatagram ==
    /\ Unpicked
    /\ \E version \in Versions, k \in 1..2, id \in {0, 5, 300}, status \in {0, 3, 4} :
       \E properties \in PropertyLists(k) :
          /\ status > 0 => id > 0
          /\ sample' = [kind |-> "datagram", version |-> version,
                        o |-> [track_alias |-> <<1, 130>>[k], group_id |-> <<2, 131>>[k], object_id |-> id,
                               priority |-> <<0, 255>>[k], properties |-> properties, status |-> status,
                               payload |-> IF status = 0 THEN <<7, 8, 9>> ELSE <<>>]]

(* An object sent as a datagram is the object that arrives, whichever fields *)
(* its type left out.                                                        *)
DatagramsReadBack ==
    sample.kind = "datagram" =>
        \A bytes \in {AddDatagram(sample.version, sample.o)} :
            LET s == ReadDatagram(sample.version, bytes)
            IN  s.error = Fine /\ \A f \in DOMAIN sample.o :
                    s.fields[f] = IF f = "properties" THEN Sorted(sample.o[f]) ELSE sample.o[f]

PickToken ==
    /\ Unpicked
    /\ \E version \in Versions, types \in 0..4, a \in {0, 300}, t \in {0, 300}, value \in {<<>>, <<7, 8>>} :
       \E fields \in SUBSET {"alias", "type", "value"} :
          sample' = [kind |-> "token", version |-> version,
                     token |-> ("alias_type" :> types) @@ [f \in fields \cup {"value"} |->
                                   CASE f = "alias" -> a [] f = "type" -> t [] f = "value" -> value]]

(* A token that is written is the token that is read, as far as its alias    *)
(* type has use for what was given.                                          *)
TokensReadBack ==
    sample.kind = "token" =>
        \A bytes \in {AddToken(sample.version, sample.token)} :
            LET token == sample.token
                s == ParseToken(sample.version, bytes)
            IN  bytes # <<>> =>
                    /\ s.error = Fine
                    /\ s.fields = Restrict(token,
                         CASE token["alias_type"] \in {Delete, UseAlias} -> {"alias_type", "alias"}
                           [] token["alias_type"] = Register -> {"alias_type", "alias", "type", "value"}
                           [] token["alias_type"] = UseValue -> {"alias_type", "type", "value"})

-----------------------------------------------------------------------------
(* Names and catalogs. *)

NameTuples == BoundedSeq({48, 45, 46, 0, 255}, 3)
PickNames ==
    /\ Unpicked
    /\ \E a \in NameTuples, rest \in {<<>>} \cup (BoundedSeq({<<46>>, <<45, 97>>, <<97>>}, 3) \ {<<>>}) :
          sample' = [kind |-> "names", ns |-> IF a = <<>> THEN rest ELSE <<a>> \o rest]

(* The text of a namespace stands for it alone: it reads back as the same    *)
(* tuples, whatever bytes they are made of, dashes and dots too; a buffer    *)
(* one character too short yields no text rather than that of another name.  *)
NamesReadBack ==
    sample.kind = "names" =>
        \A text \in {NamespaceText(sample.ns)} :
            /\ NamespaceFromStr(NamespaceStr(sample.ns, Len(text) + 1)) = sample.ns
            /\ text # <<>> => NamespaceStr(sample.ns, Len(text)) = NoText
            /\ sample.ns # <<>> =>
                  TrackFromStr(TrackStr(sample.ns[1], 64)) = sample.ns[1]

(* A namespace or a name that is valid survives being copied, and a message  *)
(* carries it: none is accepted from the application that the peer refuses.  *)
ValidIsCarried ==
    sample.kind = "names" =>
        /\ NamespaceValid(sample.ns, TRUE) =>
              /\ NamespaceEquals(sample.ns, NamespaceDuplicate(sample.ns))
              /\ NamespaceContains(sample.ns, NamespaceDuplicate(sample.ns))
              /\ \A version \in Versions :
                    LET s == ReadNamespaces(version, Reading(Tuples(version, sample.ns)), "NAMESPACE", TRUE)
                    IN  s.error = Fine /\ s.fields["track_namespace"] = sample.ns
        /\ \A name \in {sample.ns[i] : i \in DOMAIN sample.ns} : TrackValid(name) =>
              /\ TrackEquals(name, TrackDuplicate(name))
              /\ \A version \in Versions :
                    LET s == ReadTrackName(version, Reading(Data(version, name) \o <<0>>))
                    IN  s.error = Fine /\ s.fields["track_name"] = name

TrackJson(key, v) ==
    (key :> v) @@ ("name" :> String("t")) @@ ("packaging" :> String("loc")) @@ ("isLive" :> Bool(TRUE))

JsonSamples == [string |-> {"x"}, integer |-> {-1, 0, 30, 300, 65536}, bool |-> {FALSE}]

PickCatalog ==
    /\ Unpicked
    /\ \E version \in {"draft-01", "1"}, key \in {"namespace", "targetLatency", "framerate", "width", "bitrate", "codec", "lang", "name"},
         type \in DOMAIN JsonSamples, more \in BOOLEAN :
       \E x \in JsonSamples[type] : \E v \in {[type |-> type, v |-> x]} :
          sample' = [kind |-> "catalog",
                     json |-> ("version" :> String(version))
                              @@ ("tracks" :> Array(IF more THEN <<TrackJson("codec", String("opus")), TrackJson(key, v)>>
                                                    ELSE <<TrackJson(key, v)>>))]

(* The catalog of a publisher: tracks that were created and filled in.       *)
BuiltTracks ==
    {[CreateTrack(ns, name, "loc", live) EXCEPT !["width"] = n, !["framerate"] = n] :
        ns \in {"", "ns"}, name \in {"a", "v"}, live \in BOOLEAN, n \in {0, 30}}

PickBuilt ==
    /\ Unpicked
    /\ \E t1, t2 \in BuiltTracks :
          sample' = [kind |-> "built", catalog |-> AddTrack(AddTrack(Create("draft-01"), t1), t2)]

(* A catalog that is served is the catalog that a subscriber understands;    *)
(* what was understood of one is understood again when it is passed on.      *)
CatalogStable ==
    /\ sample.kind = "built" => Parse(Serialize(sample.catalog)) = sample.catalog
    /\ sample.kind = "catalog" =>
          \A catalog \in {Parse(sample.json)} :
              catalog # NoCatalog => Parse(Serialize(catalog)) = catalog

-----------------------------------------------------------------------------
(* Headers. *)

HeaderValues == {<<"/">>, <<"C">>, <<"m", "0", "quote">>, <<"brace", "c">>, <<"2", "0">>, <<"0", "0", "0">>}

Headers ==
    {Entry(name, value) : name \in {Static[i].name : i \in DOMAIN Static} \cup {<<"brace", "m">>, <<"c">>}, value \in HeaderValues}
        \cup {Static[i] : i \in DOMAIN Static}

PickHeaders ==
    /\ Unpicked
    /\ \E a, b \in Headers : sample' = [kind |-> "headers", headers |-> <<a, b>>]

(* The headers of a request or of a response reach the other end as they     *)
(* were, but for the case of letters, whichever of them have a reference in  *)
(* the static table for both name and value, for the name alone, or for none *)
(* and however long the codes of their characters are.                       *)
FieldsReadBack ==
    sample.kind = "headers" =>
        \A bytes \in {FieldSection(Context, sample.headers)} :
            \A read \in {Process(Context, bytes)} :
                /\ Len(read) = Len(sample.headers)
                /\ \A i \in DOMAIN read : /\ SameText(read[i].name, sample.headers[i].name)
                                          /\ SameText(read[i].value, sample.headers[i].value)

(* The instructions of a peer's encoder, which is not this library's: texts  *)
(* compressed or not, names from the static table or spelt out.              *)
PeerText(n, prefix, text, huffman) ==
    IF huffman THEN Compressed(n, prefix + 2^n, text)
    ELSE WritePfxint(Len(text), n, prefix, Room) \o [i \in DOMAIN text |-> Character[text[i]]]

PeerInsert(index, e, huffman) ==
    IF index \in DOMAIN Static
    THEN WritePfxint(index, 6, 128 + 64, Room) \o PeerText(7, 0, e.value, huffman)
    ELSE PeerText(5, 64, e.name, huffman) \o PeerText(7, 0, e.value, huffman)

PeerCapacity == WritePfxint(4096, 5, 32, Room)

Inserts == {[index |-> i, e |-> Entry(Static[i].name, v)] : i \in {1, 64}, v \in {<<"c", "0">>, <<"brace">>}}
              \cup {[index |-> 99, e |-> Entry(<<"brace", "m">>, <<"C", "-">>)]}

PickInserts ==
    /\ Unpicked
    /\ \E a, b \in Inserts, huffman \in BOOLEAN, split \in 0..2, capacity \in BOOLEAN :
          sample' = [kind |-> "inserts", inserts |-> <<a, b>>, huffman |-> huffman, split |-> split, capacity |-> capacity]

AsRead(text, huffman) == IF huffman THEN text ELSE text \o <<Newline>>

(* The entries a peer inserts are there for the field sections that refer to *)
(* them, each by its own number, whichever way the instructions fall into    *)
(* pieces; a name that is spelt out comes back as it was, up to the newline  *)
(* that texts which are not compressed are read with.                        *)
InsertsReadable ==
    sample.kind = "inserts" =>
        LET instruction(i) == PeerInsert(sample.inserts[i].index, sample.inserts[i].e, sample.huffman)
            pieces == CASE sample.split = 0 -> <<instruction(1) \o instruction(2)>>
                        [] sample.split = 1 -> <<instruction(1), instruction(2)>>
                        [] OTHER -> <<instruction(1), PeerCapacity \o instruction(2)>>
            start  == IF sample.capacity THEN <<PeerCapacity>> ELSE <<>>
        IN  \A ctx \in {FoldLeft(QpackDecode, Context, start \o pieces)} : \A i \in 1..2 :
               LET e == sample.inserts[i].e
                   name == IF sample.inserts[i].index = 99 THEN AsRead(e.name, sample.huffman) ELSE e.name
                   value == AsRead(e.value, sample.huffman)
               IN  /\ Process(ctx, <<3, 0>> \o WritePfxint(i - 1, 4, 16, Room)) = <<Entry(name, value)>>
                   /\ Process(ctx, <<3, 0>> \o WritePfxint(i - 1, 3, 0, Room) \o PeerText(7, 0, <<"0">>, TRUE))
                         = <<Entry(name, <<"0">>)>>

-----------------------------------------------------------------------------
(* What one end writes the other reads, by kind of what is written: the two  *)
(* are always different functions, often in different files.                 *)

(* Integers: whatever follows and not before the last byte is there, in no   *)
(* more room than needed, and arbitrary bytes are not read past their end    *)
(* (varints, the integers of MoQ in every form of versions 17 and 18, the    *)
(* prefix integers of QPACK).                                                *)
RoundTrip == NumbersReadBack /\ FitsOrNothing /\ WordsReadBack /\ ReadsWithin

(* Messages of every version with their parameters and properties, setup     *)
(* options, object datagrams and authorization tokens: what the writers of    *)
(* moq.c add and its parsers take.                                           *)
MessagesRoundTrip == MessagesReadBack /\ OptionsReadBack /\ DatagramsReadBack /\ TokensReadBack

(* Text: namespaces and names as text and as copies, catalogs as JSON        *)
(* (imquic-moq.c).                                                           *)
TextRoundTrip == NamesReadBack /\ ValidIsCarried /\ CatalogStable

(* Headers compressed by this library, and the instructions of a peer's      *)
(* encoder (qpack.c).                                                        *)
HeadersRoundTrip == FieldsReadBack /\ InsertsReadable

Next == PickHeaders \/ PickInserts \/ PickNames \/ PickCatalog \/ PickBuilt \/ PickNumber \/ PickWord \/ PickBytes \/ PickLong \/ PickMessage \/ PickOptions \/ PickStream \/ PickDatagram \/ PickToken

Spec == Init /\ [][Next]_sample
=============================================================================
