------------------------------- MODULE Http3 --------------------------------
(***************************************************************************)
(* WebTransport on HTTP/3 (http3.c): the SETTINGS of both ends, the CONNECT *)
(* request of the client and its response, the protocol they agree on, and  *)
(* then the streams and datagrams of the two applications.                  *)
(*                                                                          *)
(* Streams are byte sequences that arrive in pieces; the bytes of types,    *)
(* lengths and settings are those of the code, a header takes one "byte"    *)
(* (Qpack has what headers really are on the wire).  All that an end does   *)
(* happens on its loop thread, except what its application sends.           *)
(***************************************************************************)
EXTENDS Varint, ImquicStream, FiniteSets

CONSTANTS
    Configurations, \* the protocols each end is configured with, in order, NULL if none
    Within,      \* <<p, q>>: the text of p is found in that of q
    Payload,     \* what an application writes at once
    MaxWrites,   \* bound: writes of an application
    MaxStreams,  \* bound: streams of a kind an end opens
    MaxDatagrams,\* bound: datagrams of an application
    MaxCuts,     \* bound: pieces that end before what has been sent
    CutHeader,   \* whether the header of a WebTransport stream may be cut
    Overtaking   \* whether a stream may start before those opened earlier are in

Ends == {"client", "server"}
Peer(e) == IF e = "client" THEN "server" ELSE "client"
NULL == <<>>

ASSUME Http3Assumption ==
    /\ \A config \in Configurations, e \in Ends :
         config[e] \in Seq(Nat) /\ \A i \in DOMAIN config[e] : <<config[e][i], config[e][i]>> \in Within
    /\ Payload \subseteq Seq(0..255) \ {<<>>}
    /\ {MaxWrites, MaxStreams, MaxDatagrams, MaxCuts} \subseteq Nat /\ MaxStreams >= 4
    /\ {CutHeader, Overtaking} \subseteq BOOLEAN

VARIABLES wt_protocols, \* what the ends are configured with
          conn,  \* the connection and the imquic_http3_connection of each end
          cuts   \* pieces that have been cut so far

vars == <<wt_protocols, conn, cuts>>

Owner(s) == IF ClientInitiated(s) THEN "client" ELSE "server"
StreamIds == {BuildStreamId(n, client, bidi) : n \in 0..(MaxStreams - 1), client \in BOOLEAN, bidi \in BOOLEAN}
NoStream == 4 * MaxStreams

(* What imquic_http3_connection_create and imquic_connection_create leave.   *)
Fresh ==
    [settings_sent |-> FALSE, settings_received |-> FALSE, webtransport |-> FALSE,
     request_stream |-> NoStream, remote_control_stream |-> NoStream,
     remote_qpack_encoder_stream |-> NoStream, remote_qpack_decoder_stream |-> NoStream,
     chosen |-> NULL, buffers |-> [s \in StreamIds |-> <<>>], skip_in |-> [s \in StreamIds |-> 0],
     streams |-> {}, next |-> [uni |-> 0, bidi |-> 0], closed |-> FALSE, established |-> FALSE,
     \* what it has sent, and how much of it was delivered
     out |-> [s \in StreamIds |-> <<>>], fin |-> {}, delivered |-> [s \in StreamIds |-> 0],
     datagrams |-> <<>>,
     \* what the applications did and what they were told of
     wrote |-> [s \in StreamIds |-> <<>>], writes |-> 0, wroteDatagrams |-> {},
     heard |-> [s \in StreamIds |-> <<>>], heardFin |-> {}, heardOf |-> {}, heardDatagrams |-> {},
     connections |-> 0, connects |-> 0]

(* Op of a value: for TLC, which evaluates an argument wherever it is used.  *)
With(value, Op(_)) == CHOOSE r \in {Op(v) : v \in {value}} : TRUE

-----------------------------------------------------------------------------
(* Sending: imquic_connection_send_on_stream, imquic_connection_new_stream_id. *)

Send(c, s, bytes) == [c EXCEPT !.out[s] = @ \o bytes]

Prefix(bidi) == WriteVarint(IF bidi THEN 65 ELSE 84, 10) \o WriteVarint(0, 10)

\* Mutant: the streams opened for an application are not marked.
MarkingNone(c, s) == <<>>

(* What is written on a stream before anything else. *)
Marking(c, s) == IF c.webtransport THEN Prefix(Bidirectional(s)) ELSE <<>>

NewStream(c, s) ==
    [c EXCEPT !.streams = @ \cup {s}, !.out[s] = Marking(c, s),
              !.next = IF Bidirectional(s) THEN [@ EXCEPT !.bidi = @ + 1] ELSE [@ EXCEPT !.uni = @ + 1]]

NextStream(c, e, bidi) == BuildStreamId(IF bidi THEN c.next.bidi ELSE c.next.uni, e = "client", bidi)

(* A frame: a type, a length, a body. *)
H3Frame(type, body) == WriteVarint(type, 8) \o WriteVarint(Len(body), 8) \o body
DATA == 0
HEADERS == 1
SETTINGS == 4

Setting(type, value) == WriteVarint(type, 100) \o WriteVarint(value, 100)
OwnSettings == Setting(1, 4096) \o Setting(7, 16) \o Setting(8, 1) \o Setting(51, 1) \o Setting(727725890, 1)

Header(name, value) == [name |-> name, value |-> value]

RequestHeaders(e) ==
    <<Header("method", "CONNECT"), Header("scheme", "https"), Header("authority", "host"), Header("path", "/"), Header("protocol", "webtransport")>>
    \o (IF wt_protocols[e] = NULL THEN <<>> ELSE <<Header("wt-available-protocols", wt_protocols[e])>>)
    \o <<Header("user-agent", "imquic"), Header("sec-fetch-dest", "webtransport"), Header("draft", "1")>>

ResponseHeaders(code, chosen) ==
    <<Header("status", code), Header("server", "imquic")>>
    \o (IF code # 200 THEN <<>>
        ELSE <<Header("protocol", "webtransport")>>
             \o (IF chosen = NULL THEN <<>> ELSE <<Header("wt-protocol", chosen)>>) \o <<Header("draft", "draft02")>>)

MayConnect(c) == c.settings_sent /\ c.settings_received

(* imquic_http3_check_send_connect: on a new stream, every time. *)
CheckSendConnect(c) ==
    LET s == NextStream(c, "client", TRUE)
    IN  IF ~MayConnect(c) THEN c
        ELSE [Send(NewStream(c, s), s, H3Frame(HEADERS, RequestHeaders("client")))
                EXCEPT !.request_stream = s, !.connects = @ + 1]

(* imquic_http3_prepare_settings: the control stream and those of QPACK. *)
PrepareSettings(c, e) ==
    LET uni(k) == BuildStreamId(c.next.uni + k, e = "client", FALSE)
        sent == [c EXCEPT !.streams = @ \cup {uni(0), uni(1), uni(2)}, !.next.uni = @ + 3,
                          !.out[uni(0)] = Marking(c, uni(0)) \o <<0>> \o H3Frame(SETTINGS, OwnSettings),
                          !.out[uni(1)] = Marking(c, uni(1)) \o <<2>>,
                          !.out[uni(2)] = Marking(c, uni(2)) \o <<3>>,
                          !.settings_sent = TRUE]
    IN  IF e = "client" THEN CheckSendConnect(sent) ELSE sent

-----------------------------------------------------------------------------
(* Receiving. *)

From(bytes, p) == SubSeq(bytes, p, Len(bytes))

(* Whether the first n bytes are pairs of numbers. *)
SettingsReadable(bytes, n) ==
    LET next(p) == p + ReadVarint(From(bytes, p)).length
        readable[p \in 1..(Len(bytes) + 1)] ==
            \/ p = n + 1
            \/ next(p) > p /\ next(next(p)) > next(p) /\ readable[next(next(p))]
    IN  readable[1]

\* Mutant: a frame that is not complete is thrown away.
IncompleteDropped(c, s, buffer) == [c EXCEPT !.buffers[s] = <<>>]

(* To be tried again with more of the stream. *)
Incomplete(c, s, buffer) == [c EXCEPT !.buffers[s] = buffer]

(* imquic_http3_parse_settings.  A length that is cut counts as zero. *)
ParseSettings(c, e, s, bytes) ==
    LET Parse(buffer) ==
            LET length  == ReadVarint(From(buffer, 2))
                rest    == From(buffer, 2 + length.length)
                dropped == [c EXCEPT !.buffers[s] = <<>>]
                done    == [dropped EXCEPT !.settings_received = TRUE]
            IN  CASE buffer[1] # SETTINGS -> dropped
                  [] buffer[1] = SETTINGS /\ length.value > Len(rest) -> Incomplete(c, s, buffer)
                  [] OTHER -> IF ~SettingsReadable(rest, length.value) THEN dropped
                              ELSE IF e = "server" THEN PrepareSettings(done, e) ELSE CheckSendConnect(done)
    IN  IF bytes = <<>> THEN c ELSE With(c.buffers[s] \o bytes, Parse)

\* Mutant: the first protocol of the end's own list, whatever the other end named.
FirstOwn(own, named) == IF own = NULL THEN NULL ELSE <<own[1]>>

(* The first protocol of an end's own list that is found in what the other   *)
(* end named.                                                                *)
FirstWithin(own, named) ==
    LET found == {i \in DOMAIN own : \E j \in DOMAIN named : <<own[i], named[j]>> \in Within}
    IN  IF found = {} THEN NULL ELSE <<own[CHOOSE i \in found : \A j \in found : i <= j]>>

Named(headers, name) == SelectSeq(headers, LAMBDA x : x.name = name)

(* A negotiation that names no protocol of the end's fails with 406, and so  *)
(* does one that names none although the end has some.                       *)
Negotiated(e, code, headers, chosen) ==
    IF chosen = NULL /\ (headers # <<>> \/ wt_protocols[e] # NULL) THEN 406 ELSE code

Accept(c) == [c EXCEPT !.webtransport = TRUE, !.established = TRUE, !.connections = @ + 1]

(* imquic_http3_parse_request_headers of a server: any method but CONNECT is *)
(* a 405, no method at all leaves -1.  The answer goes out before the close. *)
ServeConnect(c, s, headers) ==
    LET methods == {Named(headers, "method")[i].value : i \in DOMAIN Named(headers, "method")}
        offers  == Named(headers, "wt-available-protocols")
        chosen  == FoldLeft(LAMBDA p, x : IF FirstWithin(wt_protocols["server"], x.value) = NULL THEN p
                                          ELSE FirstWithin(wt_protocols["server"], x.value), NULL, offers)
        code    == Negotiated("server", IF methods \ {"CONNECT"} # {} THEN 405 ELSE IF methods = {} THEN -1 ELSE 200,
                              offers, chosen)
        answered == [Send(c, s, H3Frame(HEADERS, ResponseHeaders(code, chosen)))
                        EXCEPT !.chosen = IF code = 200 /\ chosen # NULL THEN chosen ELSE @]
    IN  IF code = 200 THEN Accept(answered) ELSE [answered EXCEPT !.closed = TRUE]

(* And of a client: the first status counts. *)
ReadResponse(c, headers) ==
    LET statuses == Named(headers, "status")
        answers  == Named(headers, "wt-protocol")
        chosen   == FoldLeft(LAMBDA p, x : IF FirstWithin(wt_protocols["client"], x.value) = NULL THEN p
                                           ELSE FirstWithin(wt_protocols["client"], x.value), NULL, answers)
        code     == Negotiated("client", IF statuses = <<>> THEN -1 ELSE statuses[1].value, answers, chosen)
        read     == [c EXCEPT !.chosen = IF chosen # NULL THEN chosen ELSE @]
    IN  IF code >= 200 /\ code < 300 THEN Accept(read) ELSE [read EXCEPT !.closed = TRUE]

ParseHeaders(c, e, s, headers) ==
    IF e = "server" THEN ServeConnect(c, s, headers) ELSE ReadResponse(c, headers)

(* imquic_buffer_shift on memory that is n bytes of a buffer long. *)
Shifted(memory, by) ==
    IF by = 0 \/ by >= Len(memory) THEN memory
    ELSE [i \in DOMAIN memory |-> IF i <= Len(memory) - by THEN memory[i + by] ELSE memory[i]]

(* The loop of imquic_http3_parse_request: length is how much of the memory  *)
(* the buffer counts as its own, left what the loop takes to be unread.  The *)
(* buffer is moved by what is left and not by what was read.                 *)
RECURSIVE Frames(_, _, _, _, _, _)
Frames(c, e, s, memory, length, left) ==
    LET view == SubSeq(memory, 1, left)
        type == ReadVarint(view)
        size == ReadVarint(From(view, type.length + 1))
        Frame(head) ==
            LET body == SubSeq(view, head + 1, head + size.value)
                rest == left - head - size.value
            IN  IF \/ type.length = 0 \/ size.length = 0 \/ rest < 0
                   \/ (type.value \in {DATA, HEADERS} /\ body = <<>>)
                THEN [c EXCEPT !.buffers[s] = SubSeq(memory, 1, length)]
                ELSE Frames(IF type.value = HEADERS THEN ParseHeaders(c, e, s, body) ELSE c, e, s,
                            Shifted(memory, rest), IF rest < length THEN length - rest ELSE 0, rest)
    IN  IF left = 0 THEN [c EXCEPT !.buffers[s] = <<>>] ELSE With(type.length + size.length, Frame)

ParseRequest(c, e, s, bytes) ==
    IF bytes = <<>> THEN c
    ELSE With(c.buffers[s] \o bytes, LAMBDA buffer : Frames(c, e, s, buffer, Len(buffer), Len(buffer)))

(* imquic_connection_notify_stream_incoming: no news is no event, unless the *)
(* stream has ended.                                                         *)
Notify(c, s, bytes, fin) ==
    IF bytes = <<>> /\ ~fin THEN c
    ELSE [c EXCEPT !.heard[s] = @ \o bytes, !.heardOf = @ \cup {s}, !.heardFin = IF fin THEN @ \cup {s} ELSE @]

SkipAndNotify(c, s, bytes, fin) ==
    LET skip == c.skip_in[s]
    IN  IF skip > 0 /\ skip >= Len(bytes) THEN Notify([c EXCEPT !.skip_in[s] = @ - Len(bytes)], s, <<>>, fin)
        ELSE Notify([c EXCEPT !.skip_in[s] = 0], s, From(bytes, skip + 1), fin)

(* What a new stream is, from its first piece: before the session is up a    *)
(* unidirectional one has a type (a type that is cut counts as 0), later     *)
(* every one has the header of a WebTransport stream.                        *)
Recognised(c, s, bytes) ==
    LET type    == ReadVarint(bytes)
        session == ReadVarint(From(bytes, type.length + 1))
    IN  CASE ~c.webtransport /\ ~Bidirectional(s) ->
               [conn   |-> CASE type.value = 0 -> [c EXCEPT !.remote_control_stream = s]
                             [] type.value = 2 -> [c EXCEPT !.remote_qpack_encoder_stream = s]
                             [] type.value = 3 -> [c EXCEPT !.remote_qpack_decoder_stream = s]
                             [] OTHER -> c,
                offset |-> type.length]
          [] c.webtransport -> [conn |-> [c EXCEPT !.skip_in[s] = type.length + session.length],
                                offset |-> type.length + session.length]
          [] OTHER -> [conn |-> c, offset |-> 0]

(* imquic_http3_process_stream_data.  The instructions on the encoder stream *)
(* go to QPACK, those on the decoder stream nowhere; a stream that is none   *)
(* of the known ones before the session is up is not looked at.              *)
Dispatch(c, e, s, bytes, offset, fin) ==
    LET rest == From(bytes, offset + 1)
    IN  CASE ~Bidirectional(s) /\ s = c.remote_control_stream -> ParseSettings(c, e, s, rest)
          [] ~Bidirectional(s) /\ s # c.remote_control_stream ->
               IF s \in {c.remote_qpack_encoder_stream, c.remote_qpack_decoder_stream} \/ ~c.webtransport THEN c
               ELSE SkipAndNotify(c, s, bytes, fin)
          [] Bidirectional(s) /\ (~c.webtransport \/ s = c.request_stream) ->
               ParseRequest(IF c.request_stream = NoStream THEN [c EXCEPT !.request_stream = s] ELSE c, e, s, rest)
          [] OTHER -> SkipAndNotify(c, s, bytes, fin)

ProcessStreamData(c, e, s, bytes, fin, new) ==
    With(IF new THEN Recognised(c, s, bytes) ELSE [conn |-> c, offset |-> 0],
         LAMBDA known : With(known.conn, LAMBDA d : Dispatch(d, e, s, bytes, known.offset, fin)))

(* imquic_http3_process_datagram: the session is not looked at. *)
ProcessDatagram(c, bytes) ==
    LET rest == From(bytes, ReadVarint(bytes).length + 1)
    IN  IF rest = <<>> THEN c ELSE [c EXCEPT !.heardDatagrams = @ \cup {rest}]

-----------------------------------------------------------------------------
(* The client sends its SETTINGS as soon as the handshake of QUIC is over.   *)
Init == /\ wt_protocols \in Configurations
        /\ conn = [e \in Ends |-> IF e = "client" THEN PrepareSettings(Fresh, e) ELSE Fresh]
        /\ cuts = 0

Running(e) == ~conn[e].closed

(* The streams of the handshake in the order an end writes to them, then the *)
(* others: one starts to arrive when those before it are in.                 *)
Rank(s) == CASE ~Bidirectional(s) /\ ActualId(s) < 3 -> ActualId(s)
             [] s = BuildStreamId(0, TRUE, TRUE) -> 3
             [] OTHER -> 4

InOrder(e, s) ==
    LET from == conn[Peer(e)]
    IN  \/ Overtaking \/ from.delivered[s] > 0
        \/ \A t \in StreamIds : Rank(t) < Rank(s) => from.delivered[t] = Len(from.out[t])

(* picoquic gives an end the next n bytes of a stream, and its end.          *)
DeliverStream(e, s, n) ==
    LET from  == conn[Peer(e)]
        at    == from.delivered[s]
        left  == Len(from.out[s]) - at
        fin   == n = left /\ s \in from.fin
        new   == s \notin conn[e].streams
    IN  /\ Running(e) /\ InOrder(e, s)
        /\ n \in 1..left
        /\ n < left => cuts < MaxCuts
        /\ (new /\ conn[e].webtransport /\ ~CutHeader) => n >= Len(Prefix(TRUE))
        /\ cuts' = (IF n < left THEN cuts + 1 ELSE cuts) /\ UNCHANGED wt_protocols
        /\ \E c \in {[conn[e] EXCEPT !.streams = @ \cup {s}]}, bytes \in {SubSeq(from.out[s], at + 1, at + n)} :
              conn' = [conn EXCEPT ![Peer(e)].delivered[s] = at + n,
                                   ![e] = ProcessStreamData(c, e, s, bytes, fin, new)]

DeliverAll(e, s) ==
    /\ Len(conn[Peer(e)].out[s]) > conn[Peer(e)].delivered[s]
    /\ DeliverStream(e, s, Len(conn[Peer(e)].out[s]) - conn[Peer(e)].delivered[s])

DatagramMay(e) == Overtaking \/ conn[e].established

DeliverDatagram(e) ==
    /\ Running(e) /\ conn[Peer(e)].datagrams # <<>> /\ DatagramMay(e)
    /\ \E i \in DOMAIN conn[Peer(e)].datagrams :
          conn' = [conn EXCEPT ![e] = ProcessDatagram(@, conn[Peer(e)].datagrams[i]),
                               ![Peer(e)].datagrams = RemoveAt(@, i)]
    /\ UNCHANGED <<wt_protocols, cuts>>

LoseDatagram(e) ==
    /\ conn[Peer(e)].datagrams # <<>>
    /\ conn' = [conn EXCEPT ![Peer(e)].datagrams = Tail(@)]
    /\ UNCHANGED <<wt_protocols, cuts>>

(* The application, once it has been told of the connection. *)
AppOpens(e, bidi) ==
    /\ Running(e) /\ conn[e].established /\ conn[e].writes < MaxWrites
    /\ (IF bidi THEN conn[e].next.bidi ELSE conn[e].next.uni) < MaxStreams
    /\ conn' = [conn EXCEPT ![e] = [NewStream(@, NextStream(@, e, bidi)) EXCEPT !.writes = @ + 1]]
    /\ UNCHANGED <<wt_protocols, cuts>>

Writable(e) ==
    {s \in StreamIds : /\ s \in conn[e].streams
                       /\ Owner(s) = e \/ Bidirectional(s)
                       /\ s # conn[e].request_stream /\ (Bidirectional(s) \/ ActualId(s) >= 3)
                       /\ s \notin conn[e].fin}

AppWrites(e) ==
    /\ Running(e) /\ conn[e].established /\ conn[e].writes < MaxWrites
    /\ \E s \in Writable(e), x \in Payload, fin \in BOOLEAN :
          conn' = [conn EXCEPT ![e] = [Send(@, s, x) EXCEPT !.writes = @ + 1, !.wrote[s] = @ \o x,
                                                            !.fin = IF fin THEN @ \cup {s} ELSE @]]
    /\ UNCHANGED <<wt_protocols, cuts>>

(* imquic_connection_send_on_datagram, behind a quarter stream ID of zero. *)
AppSendsDatagram(e) ==
    /\ Running(e) /\ conn[e].established /\ Cardinality(conn[e].wroteDatagrams) < MaxDatagrams
    /\ \E x \in Payload : conn' = [conn EXCEPT ![e].datagrams = Append(@, <<0>> \o x), ![e].wroteDatagrams = @ \cup {x}]
    /\ UNCHANGED <<wt_protocols, cuts>>

(* CONNECTION_CLOSE reaches the other end. *)
PeerCloses(e) ==
    /\ conn[Peer(e)].closed /\ ~conn[e].closed
    /\ conn' = [conn EXCEPT ![e].closed = TRUE]
    /\ UNCHANGED <<wt_protocols, cuts>>

Next ==
    \E e \in Ends :
        \/ \E s \in StreamIds : \E n \in 1..(Len(conn[Peer(e)].out[s]) - conn[Peer(e)].delivered[s]) : DeliverStream(e, s, n)
        \/ DeliverDatagram(e) \/ LoseDatagram(e)
        \/ \E bidi \in BOOLEAN : AppOpens(e, bidi)
        \/ AppWrites(e) \/ AppSendsDatagram(e) \/ PeerCloses(e)

(* QUIC delivers what is sent on a stream, and that a connection is closed.  *)
Fairness ==
    \A e \in Ends : /\ WF_vars(PeerCloses(e))
                    /\ \A s \in StreamIds : WF_vars(DeliverAll(e, s))

Spec == Init /\ [][Next]_vars /\ Fairness

-----------------------------------------------------------------------------
(* The state of the handshake hangs together: a session only over SETTINGS   *)
(* that were sent, nothing half-skipped before there is one.                 *)
TypeOK ==
    /\ cuts \in 0..MaxCuts
    /\ \A e \in Ends :
         /\ conn[e].delivered \in [StreamIds -> Nat] /\ conn[e].skip_in \in [StreamIds -> 0..10]
         /\ conn[e].streams \subseteq StreamIds /\ conn[e].heardOf \subseteq conn[e].streams
         /\ conn[e].webtransport = conn[e].established
         /\ conn[e].established => conn[e].settings_sent

(* An application is told of its connection once, and of the client's only   *)
(* after that of the server; if both are, they have the same protocol, the   *)
(* first of the server's that the client offers.  However the SETTINGS of    *)
(* the two ends cross, the client sends one CONNECT, after both.             *)
SameProtocol ==
    /\ TypeOK
    /\ conn["client"].connects <= 1 /\ (conn["client"].connects = 1 => conn["server"].settings_sent)
    /\ \A e \in Ends : conn[e].connections <= 1
    /\ conn["client"].established =>
         /\ conn["server"].established /\ conn["client"].chosen = conn["server"].chosen
         /\ conn["client"].chosen = FirstWithin(wt_protocols["server"], wt_protocols["client"])

(* WebTransport is transparent: an application hears of the streams that the *)
(* other application writes to, and of no other stream, of what was written  *)
(* and not of the headers in front of it, in order, whatever the pieces, and *)
(* nothing that has arrived stays behind in the library.                     *)
NothingAdded ==
    \A e \in Ends :
        /\ \A s \in conn[e].heardOf : /\ IsPrefix(conn[e].heard[s], conn[Peer(e)].wrote[s])
                                      /\ conn[Peer(e)].wrote[s] # <<>>
        /\ conn[e].heardFin \subseteq {s \in conn[Peer(e)].fin : conn[e].heard[s] = conn[Peer(e)].wrote[s]}
        /\ conn[e].heardDatagrams \subseteq conn[Peer(e)].wroteDatagrams
        /\ (conn[e].heardOf # {} \/ conn[e].heardDatagrams # {}) => conn[e].connections = 1

AllDelivered ==
    \A e \in Ends : \A s \in StreamIds :
        (/\ Running(e) /\ conn[Peer(e)].wrote[s] # <<>> /\ conn[Peer(e)].delivered[s] = Len(conn[Peer(e)].out[s]))
            => /\ conn[e].heard[s] = conn[Peer(e)].wrote[s]
               /\ s \in conn[Peer(e)].fin => s \in conn[e].heardFin

Transparent == NothingAdded /\ AllDelivered

(* The handshake ends: with a session at both ends, or closed at both.       *)
Settled == <>(\/ \A e \in Ends : conn[e].established
              \/ \A e \in Ends : conn[e].closed)

=============================================================================
