----------------------------- MODULE MoqSession -----------------------------
(***************************************************************************)
(* The session of MoQ (moq.c): how two endpoints open the control stream or *)
(* streams, exchange the SETUP messages, hold back what arrives too early,  *)
(* number their requests, limit those of the peer (version 16), and send a  *)
(* GOAWAY.  Each endpoint has a loop thread, which runs new_connection and  *)
(* the handlers of what arrives, and application threads that call the API. *)
(*                                                                          *)
(* A message travels as two halves, so that a piece of a stream may end in  *)
(* the middle of it.  The contents of requests and their answers are left   *)
(* to MoqRequests, the objects to MoqObjects.                               *)
(***************************************************************************)
EXTENDS Integers, Sequences, FiniteSets, SequencesExt

CONSTANTS
    Versions,       \* versions the ALPN may have negotiated, of 16, 17 and 18
    Threads,        \* application threads of each endpoint
    Limits,         \* imquic_moq_set_max_request_id in new_connection: 0 is no call
    NewLimits,      \* arguments of later calls of imquic_moq_set_max_request_id
    EarlyLimit,     \* whether those may come before the session is ready
    Verdicts,       \* what incoming_moq_connection may return
    GoawayVersions, \* versions on which the application sends a GOAWAY
    EarlyData,      \* versions on which data may arrive before new_connection
    CutSetup,       \* whether a SETUP may arrive in two pieces
    DataOvertakes,  \* whether objects may arrive before the control stream
    MaxCalls,       \* bound: API calls of each thread of each end
    MaxLimitCalls   \* bound: of those, calls of imquic_moq_set_max_request_id

Ends == {"client", "server"}
Peer(e) == IF e = "client" THEN "server" ELSE "client"

ASSUME SessionAssumption ==
    /\ Versions \subseteq {16, 17, 18} /\ Versions # {}
    /\ GoawayVersions \subseteq Versions /\ EarlyData \subseteq Versions \ {16}
    /\ Limits \subseteq Nat /\ NewLimits \subseteq Nat \ {0} /\ Verdicts \subseteq Nat
    /\ {EarlyLimit, CutSetup, DataOvertakes} \subseteq BOOLEAN
    /\ MaxCalls \in [Ends -> Nat] /\ MaxLimitCalls \in Nat

VARIABLES
    version,  \* of the session, the same at both ends
    verdict,  \* what the server's incoming_moq_connection returns
    moq,      \* the imquic_moq_context of each end
    pending,  \* moq_pending_streams of each end: the data held back of each stream
    stolen,   \* the table imquic_moq_handle_pending_streams is going through
    buffer,   \* the moq->buffer and the buffer of each request stream
    loop,     \* what the loop thread of each end is doing
    pc,       \* what each application thread is doing
    calls,    \* calls made by each application thread
    wire,     \* what is on its way to each end, on each stream
    written,  \* history: all that was sent to each end
    parsed,   \* history: all that imquic_moq_parse_message was given
    requested,\* history: requests the application of each end was told about
    closed    \* why each end closed the connection, or "open"

vars == <<version, verdict, moq, pending, stolen, buffer, loop, pc, calls, wire,
          written, parsed, requested, closed>>

-----------------------------------------------------------------------------
(* Streams and messages.                                                    *)

\* Stream 0 of an end is its control stream (version 16 has only the client's,
\* used both ways), the others carry a request each, the last one objects.
DataStream(e) == <<e, MaxCalls[e] + 1>>
Streams == UNION {{e} \X (0..(MaxCalls[e] + 1)) : e \in Ends}
Control(e) == <<IF version = 16 THEN "client" ELSE e, 0>>
RemoteControl(e) == IF version = 16 THEN Control(e) ELSE Control(Peer(e))
Bidirectional(s) == IF s[2] = 0 THEN version = 16 ELSE s # DataStream(s[1])

Msg(type, value) == [type |-> type, value |-> value]
Halves(m) == <<<<m, 1>>, <<m, 2>>>>
Empty == [s \in Streams |-> <<>>]

(* imquic_connection_send_on_stream. *)
Send(e, s, m) ==
    /\ wire' = [wire EXCEPT ![Peer(e)][s] = @ \o Halves(m)]
    /\ written' = [written EXCEPT ![Peer(e)][s] = @ \o Halves(m)]

Idle == [pc |-> "idle", stream |-> <<"client", 0>>]
Loop(what, s) == [pc |-> what, stream |-> s]

Context ==
    [state : {"none", "new", "up", "gone"}, control : BOOLEAN, sent : BOOLEAN,
     recvd : BOOLEAN, connected : BOOLEAN, check : BOOLEAN, next : Nat,
     expected : Nat, max : Nat, local : Nat, goaway : BOOLEAN]

Init ==
    /\ version \in Versions
    /\ verdict \in Verdicts
    /\ moq = [e \in Ends |->
         [state |-> "none", control |-> FALSE, sent |-> FALSE, recvd |-> FALSE,
          connected |-> FALSE, check |-> FALSE, next |-> 0, expected |-> 0,
          max |-> 0, local |-> 0, goaway |-> FALSE]]
    /\ pending = [e \in Ends |-> Empty] /\ stolen = [e \in Ends |-> Empty]
    /\ buffer = [e \in Ends |-> Empty]
    /\ loop = [e \in Ends |-> Idle]
    /\ pc = [e \in Ends |-> [t \in Threads |-> [pc |-> "idle", value |-> 0]]]
    /\ calls = [e \in Ends |-> [t \in Threads |-> 0]]
    /\ wire = [e \in Ends |-> Empty] /\ written = [e \in Ends |-> Empty]
    /\ parsed = [e \in Ends |-> Empty]
    /\ requested = [e \in Ends |-> {}]
    /\ closed = [e \in Ends |-> "open"]

Running(e) == closed[e] = "open" /\ moq[e].state # "gone"

-----------------------------------------------------------------------------
(* new_connection, on the loop thread: the context can be found by the API  *)
(* as soon as it is in moq_sessions, before the SETUP has been sent.        *)

HasControl(e) == version = 16 /\ e = "client"

CreateContext(e) ==
    /\ moq[e].state = "none"
    /\ \E limit \in IF version = 16 THEN Limits ELSE {0} :
         moq' = [moq EXCEPT ![e].state = "new",
                   ![e].next = IF e = "server" THEN 1 ELSE 0,
                   ![e].expected = IF e = "server" THEN 0 ELSE 1,
                   ![e].control = HasControl(e),
                   ![e].sent = (version >= 17),
                   ![e].local = limit]
    /\ pending' = IF version = 16 THEN [pending EXCEPT ![e] = Empty] ELSE pending
    /\ loop' = [loop EXCEPT ![e] = Loop("opening", Control(e))]
    /\ UNCHANGED <<version, verdict, stolen, buffer, pc, calls, wire, written, parsed,
                   requested, closed>>

(* imquic_moq_handle_pending_streams takes the whole table. *)
HandlePending(e) ==
    /\ stolen' = [stolen EXCEPT ![e] = pending[e]]
    /\ pending' = [pending EXCEPT ![e] = Empty]

SendSetup(e) ==
    /\ loop[e].pc = "opening"
    /\ IF version = 16 /\ e = "server"
       THEN UNCHANGED <<wire, written>>
       ELSE Send(e, Control(e), Msg("SETUP", moq[e].local))
    /\ moq' = [moq EXCEPT ![e].state = "up"]
    /\ HandlePending(e)
    /\ loop' = [loop EXCEPT ![e] = Loop("replay", Control(e))]
    /\ UNCHANGED <<version, verdict, buffer, pc, calls, parsed, requested, closed>>

-----------------------------------------------------------------------------
(* Data arrives (imquic_moq_stream_incoming).                               *)

\* Mutant: the buffer is created anew for every piece.
TrackLast(e, s, data) == pending' = [pending EXCEPT ![e][s] = data]
TrackPending(e, s, data) == pending' = [pending EXCEPT ![e][s] = @ \o data]

Keep(e, s, data, then) ==
    /\ TrackPending(e, s, data)
    /\ loop' = [loop EXCEPT ![e].pc = then]
    /\ UNCHANGED <<moq, buffer, parsed>>

Ignore(e, then) ==
    /\ loop' = [loop EXCEPT ![e].pc = then]
    /\ UNCHANGED <<moq, pending, buffer, parsed>>

(* imquic_moq_parse_message takes the data: it is told apart by the message *)
(* it starts with unless its stream is known, and buffered unless it is not *)
(* the start of anything.                                                   *)
IsControl(e, s) == moq'[e].control /\ s = RemoteControl(e)
Parsable(e, s, data) == IsControl(e, s) \/ buffer[e][s] # <<>> \/ data[1][2] = 1

ParseMessage(e, s, data) ==
    /\ parsed' = [parsed EXCEPT ![e][s] = @ \o data]
    /\ buffer' = IF Parsable(e, s, data) THEN [buffer EXCEPT ![e][s] = @ \o data] ELSE buffer
    /\ loop' = [loop EXCEPT ![e] = Loop("parsing", s)]
    /\ UNCHANGED pending

(* On versions 17 and 18 whatever unidirectional stream comes first is the  *)
(* control stream; the module's control streams are told apart by name, so  *)
(* data taken for one ends the session at once.                             *)
StreamIncoming(e, s, data, then) ==
    IF moq[e].state = "none"
    THEN Keep(e, s, data, then) /\ UNCHANGED closed
    ELSE IF ~moq[e].control /\ version = 16 /\ ~Bidirectional(s)
    THEN Ignore(e, then) /\ UNCHANGED closed
    ELSE IF ~moq[e].control /\ version >= 17 /\ Bidirectional(s)
    THEN Keep(e, s, data, then) /\ UNCHANGED closed
    ELSE IF ~moq[e].control /\ s # RemoteControl(e)
    THEN /\ closed' = [closed EXCEPT ![e] = "protocol_violation"]
         /\ Ignore(e, then)
    ELSE /\ moq' = [moq EXCEPT ![e].control = TRUE]
         /\ ParseMessage(e, s, data)
         /\ UNCHANGED closed

\* The pieces the network may deliver of what is on its way.
Uncut(data, n) == n = Len(data) \/ data[n][1].type # "SETUP" \/ data[n][2] = 2
MayArrive(e, s) ==
    /\ moq[e].state = "none" => version \in EarlyData /\ Bidirectional(s)
    /\ s = DataStream(Peer(e)) => DataOvertakes \/ moq[e].control

Deliver(e) ==
    /\ Running(e)
    /\ loop[e].pc = "idle"
    /\ \E s \in Streams :
         /\ MayArrive(e, s)
         /\ \E n \in 1..Len(wire[e][s]) :
              /\ CutSetup \/ Uncut(wire[e][s], n)
              /\ StreamIncoming(e, s, SubSeq(wire[e][s], 1, n), "idle")
              /\ wire' = [wire EXCEPT ![e][s] = SubSeq(@, n + 1, Len(@))]
    /\ UNCHANGED <<version, verdict, stolen, pc, calls, written, requested>>

(* The streams of the stolen table, in the order of a hash table. *)
Replay(e) ==
    /\ Running(e)
    /\ loop[e].pc = "replay"
    /\ \E s \in Streams :
         /\ stolen[e][s] # <<>>
         /\ StreamIncoming(e, s, stolen[e][s], "replay")
         /\ stolen' = [stolen EXCEPT ![e][s] = <<>>]
    /\ UNCHANGED <<version, verdict, pc, calls, wire, written, requested>>

ReplayDone(e) ==
    /\ Running(e)
    /\ loop[e].pc = "replay" /\ stolen[e] = Empty
    /\ loop' = [loop EXCEPT ![e] = Idle]
    /\ UNCHANGED <<version, verdict, moq, pending, stolen, buffer, pc, calls, wire,
                   written, parsed, requested, closed>>

-----------------------------------------------------------------------------
(* The handlers of the messages, one at a time.                             *)

Complete(b) == Len(b) >= 2
Consume(e, s) == buffer' = [buffer EXCEPT ![e][s] = Tail(Tail(@))]
Close(e, why) == closed' = [closed EXCEPT ![e] = why]

(* moq_is_request_id_valid *)
Parity(e, id) == id % 2 = IF e = "server" THEN 1 ELSE 0
\* Mutant: the maximum itself is allowed.
OutgoingUpToMax(e, id) ==
    /\ Parity(e, id)
    /\ version = 16 => id >= moq[e].next /\ id <= moq[e].max
OutgoingValid(e, id) ==
    /\ Parity(e, id)
    /\ version = 16 => id >= moq[e].next /\ id < moq[e].max
IncomingValid(e, id) ==
    /\ ~Parity(e, id)
    /\ version = 16 => id = moq[e].expected /\ id < moq[e].local

\* A limit that was not given is 1.
LimitOf(m, known) == IF m.value > 0 THEN m.value ELSE IF known = 0 THEN 1 ELSE known

(* imquic_moq_parse_client_setup: the application decides, and the loop     *)
(* thread has yet to say that the session is connected when it has written  *)
(* the SERVER_SETUP.                                                        *)
ParseClientSetup(e, m) ==
    IF e = "client" THEN Close(e, "protocol_violation") /\ UNCHANGED <<moq, loop, wire, written>>
    ELSE /\ moq' = [moq EXCEPT ![e].max = LimitOf(m, @)]
         /\ IF verdict > 0
            THEN Close(e, "rejected") /\ UNCHANGED <<loop, wire, written>>
            ELSE /\ Send(e, Control(e), Msg("SERVER_SETUP", moq[e].local))
                 /\ loop' = [loop EXCEPT ![e].pc = "accepted"]
                 /\ UNCHANGED closed

Connected(e) ==
    /\ loop[e].pc = "accepted"
    /\ moq' = [moq EXCEPT ![e].connected = TRUE]
    /\ loop' = [loop EXCEPT ![e].pc = "parsing"]
    /\ UNCHANGED <<version, verdict, pending, stolen, buffer, pc, calls, wire, written,
                   parsed, requested, closed>>

\* Mutant: the client is never connected.
ParseServerSetupSilent(e, m) ==
    /\ moq' = [moq EXCEPT ![e].max = LimitOf(m, @)]
    /\ UNCHANGED <<loop, wire, written, closed>>
ParseServerSetup(e, m) ==
    /\ IF e = "server" THEN Close(e, "protocol_violation") /\ UNCHANGED moq
       ELSE /\ moq' = [moq EXCEPT ![e].max = LimitOf(m, @), ![e].connected = TRUE]
            /\ UNCHANGED closed
    /\ UNCHANGED <<loop, wire, written>>

(* imquic_moq_parse_setup (versions 17 and 18) *)
ParseSetup(e, m) ==
    /\ moq' = [moq EXCEPT ![e].max = LimitOf(Msg("SETUP", 0), @), ![e].recvd = TRUE,
                          ![e].connected = @ \/ moq[e].sent, ![e].check = @ \/ moq[e].sent]
    /\ UNCHANGED <<loop, wire, written, closed>>

\* Mutant: the limit is not incremented back.
ParseMaxRequestIdRaw(e, m) ==
    /\ IF m.value <= moq[e].max
       THEN Close(e, "protocol_violation") /\ UNCHANGED moq
       ELSE moq' = [moq EXCEPT ![e].max = m.value] /\ UNCHANGED closed
    /\ UNCHANGED <<loop, wire, written>>
ParseMaxRequestId(e, m) ==
    LET max == m.value + 1
    IN  /\ IF max <= moq[e].max
           THEN Close(e, "protocol_violation") /\ UNCHANGED moq
           ELSE moq' = [moq EXCEPT ![e].max = max] /\ UNCHANGED closed
        /\ UNCHANGED <<loop, wire, written>>

(* imquic_moq_parse_goaway: on version 18 an ID of the parity of the         *)
(* receiver's own requests is refused, though the sender gives just that.   *)
ParseGoaway(e, m) ==
    /\ IF version = 18 /\ Parity(e, m.value)
       THEN Close(e, "invalid_request_id") /\ UNCHANGED moq
       ELSE /\ moq' = [moq EXCEPT ![e].goaway = TRUE,
                         ![e].expected = IF version = 18 THEN m.value + 2 ELSE @]
            /\ IF moq[e].goaway THEN Close(e, "protocol_violation") ELSE UNCHANGED closed
    /\ UNCHANGED <<loop, wire, written>>

(* The part of imquic_moq_parse_subscribe that all requests share. *)
ParseRequest(e, m) ==
    /\ IF IncomingValid(e, m.value)
       THEN /\ moq' = [moq EXCEPT ![e].expected = m.value + 2]
            /\ requested' = [requested EXCEPT ![e] = @ \cup {m.value}]
            /\ UNCHANGED closed
       ELSE Close(e, "invalid_request_id") /\ UNCHANGED <<moq, requested>>
    /\ UNCHANGED <<loop, wire, written>>

Refuse(e) == Close(e, "protocol_violation") /\ UNCHANGED <<moq, loop, wire, written>>
Told == UNCHANGED <<moq, loop, wire, written, closed>>

ControlMessage(e, m) ==
    CASE m.type = "SETUP" /\ version = 16 -> ParseClientSetup(e, m)
      [] m.type = "SERVER_SETUP" /\ version = 16 -> ParseServerSetup(e, m)
      [] m.type = "SETUP" /\ version >= 17 -> ParseSetup(e, m)
      [] m.type = "MAX_REQUEST_ID" /\ version = 16 -> ParseMaxRequestId(e, m)
      [] m.type = "REQUESTS_BLOCKED" /\ version = 16 -> Told
      [] m.type = "GOAWAY" -> ParseGoaway(e, m)
      [] OTHER -> Refuse(e)

Parse(e) ==
    /\ Running(e)
    /\ loop[e].pc = "parsing"
    /\ LET s == loop[e].stream
           m == buffer[e][s][1][1]
       IN  /\ Complete(buffer[e][s])
           /\ Consume(e, s)
           /\ IF m.type = "REQUEST" /\ (s # RemoteControl(e) \/ version = 16)
              THEN ParseRequest(e, m)
              ELSE /\ IF s = RemoteControl(e) THEN ControlMessage(e, m) ELSE Told
                   /\ UNCHANGED requested
    /\ UNCHANGED <<version, verdict, pending, stolen, pc, calls, parsed>>

(* No whole message is left: the compare-and-exchange of check_pending. *)
ParseDone(e) ==
    /\ Running(e)
    /\ loop[e].pc = "parsing" /\ ~Complete(buffer[e][loop[e].stream])
    /\ IF moq[e].check
       THEN /\ moq' = [moq EXCEPT ![e].check = FALSE]
            /\ HandlePending(e)
       ELSE UNCHANGED <<moq, pending, stolen>>
    /\ loop' = [loop EXCEPT ![e].pc = "replay"]
    /\ UNCHANGED <<version, verdict, buffer, pc, calls, wire, written, parsed, requested,
                   closed>>

-----------------------------------------------------------------------------
(* The API, called by the application's threads.                            *)

Free(e, t) ==
    /\ Running(e) /\ moq[e].state \in {"new", "up"}
    /\ pc[e][t].pc = "idle" /\ calls[e][t] < MaxCalls[e]
Goes(e, t, what, value) == pc' = [pc EXCEPT ![e][t] = [pc |-> what, value |-> value]]
Counted(e, t) == calls' = [calls EXCEPT ![e][t] = @ + 1]

GetNextRequestId(e, t) ==
    /\ Free(e, t)
    /\ Goes(e, t, "has_id", moq[e].next)
    /\ Counted(e, t)
    /\ UNCHANGED <<version, verdict, moq, pending, stolen, buffer, loop, wire, written,
                   parsed, requested, closed>>

(* imquic_moq_subscribe and the other requests: the ID is checked and used  *)
(* up under moq_mutex, the message written after unlocking.                 *)
Reserve(e, t) ==
    /\ Running(e) /\ pc[e][t].pc = "has_id"
    /\ IF OutgoingValid(e, pc[e][t].value)
       THEN /\ moq' = [moq EXCEPT ![e].next = pc[e][t].value + 2]
            /\ Goes(e, t, "reserved", pc[e][t].value)
       ELSE Goes(e, t, "idle", 0) /\ UNCHANGED moq
    /\ UNCHANGED <<version, verdict, pending, stolen, buffer, loop, calls, wire, written,
                   parsed, requested, closed>>

\* imquic_connection_new_stream_id gives the next one; on version 16 requests go on the control stream.
IsFree(e, k) == written[Peer(e)][<<e, k>>] = <<>>
RequestStreams(e) ==
    IF version = 16 THEN {Control(e)}
    ELSE {<<e, k>> : k \in {j \in 1..MaxCalls[e] : IsFree(e, j) /\ \A i \in 1..(j - 1) : ~IsFree(e, i)}}

SendRequest(e, t) ==
    /\ Running(e) /\ pc[e][t].pc = "reserved"
    /\ \E s \in RequestStreams(e) : Send(e, s, Msg("REQUEST", pc[e][t].value))
    /\ Goes(e, t, "idle", 0)
    /\ UNCHANGED <<version, verdict, moq, pending, stolen, buffer, loop, calls, parsed,
                   requested, closed>>

(* imquic_moq_set_max_request_id: the limit is raised under moq_mutex, and  *)
(* announced only if the session is connected by the time that is read.     *)
SetMaxRequestId(e, t) ==
    /\ Free(e, t)
    /\ EarlyLimit \/ moq[e].connected
    /\ calls[e][t] < MaxLimitCalls
    /\ \E max \in NewLimits :
         IF version >= 17 \/ moq[e].local >= max
         THEN UNCHANGED <<moq, pc>>
         ELSE /\ moq' = [moq EXCEPT ![e].local = max]
              /\ Goes(e, t, "raised", max - 1)
    /\ Counted(e, t)
    /\ UNCHANGED <<version, verdict, pending, stolen, buffer, loop, wire, written, parsed,
                   requested, closed>>

AnnounceLimit(e, t) ==
    /\ Running(e) /\ pc[e][t].pc = "raised"
    /\ IF moq[e].connected
       THEN Send(e, Control(e), Msg("MAX_REQUEST_ID", pc[e][t].value))
       ELSE UNCHANGED <<wire, written>>
    /\ Goes(e, t, "idle", 0)
    /\ UNCHANGED <<version, verdict, moq, pending, stolen, buffer, loop, calls, parsed,
                   requested, closed>>

(* imquic_moq_requests_blocked and imquic_moq_goaway: one message each. *)
SendControl(e, t, m) ==
    /\ Free(e, t) /\ moq[e].connected
    /\ Send(e, Control(e), m)
    /\ Counted(e, t)
    /\ UNCHANGED <<version, verdict, moq, pending, stolen, buffer, loop, pc, parsed,
                   requested, closed>>

RequestsBlocked(e, t) == version = 16 /\ SendControl(e, t, Msg("REQUESTS_BLOCKED", moq[e].max))
SendsOnce(e) == \A i \in DOMAIN written[Peer(e)][Control(e)] :
                   written[Peer(e)][Control(e)][i][1].type # "GOAWAY"
Goaway(e, t) ==
    /\ version \in GoawayVersions /\ SendsOnce(e)
    /\ SendControl(e, t, Msg("GOAWAY", IF version = 18 THEN moq[e].expected ELSE 0))

(* imquic_moq_send_object on the first stream of a publisher. *)
SendObject(e, t) ==
    /\ Free(e, t) /\ moq[e].connected
    /\ written[Peer(e)][DataStream(e)] = <<>>
    /\ Send(e, DataStream(e), Msg("OBJECT", 0))
    /\ Counted(e, t)
    /\ UNCHANGED <<version, verdict, moq, pending, stolen, buffer, loop, pc, parsed,
                   requested, closed>>

(* imquic_moq_connection_gone, at the end that closed and at its peer. *)
ConnectionGone(e) ==
    /\ moq[e].state # "gone" /\ \E f \in Ends : closed[f] # "open"
    /\ loop[e].pc # "opening"
    /\ moq' = [moq EXCEPT ![e].state = "gone"]
    /\ pending' = [pending EXCEPT ![e] = Empty]
    /\ UNCHANGED <<version, verdict, stolen, buffer, loop, pc, calls, wire, written, parsed,
                   requested, closed>>

-----------------------------------------------------------------------------
LoopStep(e) ==
    \/ CreateContext(e) \/ SendSetup(e) \/ Deliver(e) \/ Replay(e) \/ ReplayDone(e)
    \/ Parse(e) \/ Connected(e) \/ ParseDone(e) \/ ConnectionGone(e)
CallStep(e, t) ==
    \/ Reserve(e, t) \/ SendRequest(e, t) \/ AnnounceLimit(e, t)
Call(e, t) ==
    \/ GetNextRequestId(e, t) \/ SetMaxRequestId(e, t) \/ RequestsBlocked(e, t)
    \/ Goaway(e, t) \/ SendObject(e, t)

Next == \E e \in Ends : LoopStep(e) \/ \E t \in Threads : CallStep(e, t) \/ Call(e, t)

Spec == Init /\ [][Next]_vars

(* The loop thread runs, the network delivers, and calls return.            *)
Fairness == \A e \in Ends : /\ WF_vars(LoopStep(e))
                            /\ \A t \in Threads : WF_vars(CallStep(e, t))
FairSpec == Spec /\ Fairness

-----------------------------------------------------------------------------
(* Every context, buffer and thread stays within its type.                  *)
TypeOK ==
    /\ moq \in [Ends -> Context]
    /\ \A e \in Ends :
         /\ loop[e] \in [pc : {"idle", "opening", "replay", "parsing", "accepted"},
                         stream : Streams]
         /\ closed[e] \in {"open", "rejected", "protocol_violation", "invalid_request_id"}
         /\ \A s \in Streams : Len(buffer[e][s]) <= Len(parsed[e][s])
         /\ \A t \in Threads : pc[e][t].pc \in {"idle", "has_id", "reserved", "raised"}

(* No end closes the connection over what the other end's API wrote: IDs    *)
(* are used in order and within the limit, limits only grow                 *)
(* (moq_is_request_id_valid, imquic_moq_parse_max_request_id).              *)
NoRefusal == \A e \in Ends : closed[e] = "open" \/ (closed[e] = "rejected" /\ verdict > 0)

(* No request reaches the application before the SETUP of the peer has been *)
(* parsed: until then bidirectional streams are held back (moq.c:328-336).  *)
SetupFirst == \A e \in Ends : requested[e] # {} => moq[e].recvd \/ version = 16

(* Once an end is connected and its loop thread idle, nothing that arrived  *)
(* is held back: what was kept before the SETUP has been replayed.          *)
NothingHeldBack ==
    \A e \in Ends :
      moq[e].connected /\ loop[e].pc = "idle" /\ Running(e) =>
        \A s \in Streams : wire[e][s] = <<>> => parsed[e][s] = written[e][s]

(* The data of a stream is parsed in the order it was sent, though part of  *)
(* it was held back (imquic_moq_track_pending_stream) and part was not, no  *)
(* request of it before the SETUP, and none of it is left behind.           *)
StreamsInOrder ==
    /\ TypeOK /\ SetupFirst /\ NothingHeldBack
    /\ \A e \in Ends, s \in Streams : IsPrefix(parsed[e][s], written[e][s])

(* When nothing is on its way, the limit an end enforces is the limit the   *)
(* other end knows of (imquic_moq_set_max_request_id, moq.h:1258-1260).     *)
Quiet(e) ==
    /\ loop[e].pc = "idle" /\ wire[e] = Empty
    /\ \A t \in Threads : pc[e][t].pc # "raised"
LimitTold ==
    version = 16 /\ (\A e \in Ends : moq[e].connected /\ Running(e) /\ Quiet(e)) =>
      \A e \in Ends : moq[Peer(e)].max = IF moq[e].local = 0 THEN 1 ELSE moq[e].local

(* Both ends become connected unless the server's application refuses:      *)
(* held back streams, replays and calls made meanwhile do not stop it.      *)
BothUp == \A e \in Ends : moq[e].connected
SessionComesUp == (verdict = 0) ~> BothUp
=============================================================================
