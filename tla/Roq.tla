-------------------------------- MODULE Roq --------------------------------
(***************************************************************************)
(* RTP over QUIC (roq.c): application threads send RTP packets on the      *)
(* STREAM of their flow, and the peer takes the bytes of every stream in   *)
(* pieces of any size and gives the packets back to its application.       *)
(*                                                                         *)
(* A stream is the bytes written to it; the connection below delivers them *)
(* in order (ImquicConnection), streams independently of each other.  A    *)
(* thread is stopped wherever imquic_roq_send_rtp is between two critical  *)
(* sections, or between reading and writing a field without the lock.      *)
(***************************************************************************)
EXTENDS Varint, FiniteSets

CONSTANTS Threads,     \* application threads that send
          FlowsOf,     \* the flow IDs each thread sends on
          RtpSizes,    \* sizes of RTP packets
          MaxPackets,  \* bound: packets sent in total
          MaxStreams,  \* bound: streams opened
          PieceSizes,  \* bytes a piece of a stream may have, besides all there are
          SplitFlow,   \* whether the first piece may end inside the flow ID
          None

ASSUME RoqAssumption ==
    /\ FlowsOf \in [Threads -> SUBSET Nat]
    /\ RtpSizes \subseteq Nat /\ PieceSizes \subseteq Nat
    /\ MaxPackets \in Nat /\ MaxStreams \in Nat
    /\ SplitFlow \in BOOLEAN
    /\ None \notin Nat /\ None \notin [rtpLen : Nat, buffer : Seq(Byte)]

Streams == 1..MaxStreams
Flows == UNION {FlowsOf[t] : t \in Threads}

VARIABLES
    flowsOut,     \* endpoint->stream_flows_out: flow ID to stream
    newStream,    \* new_stream of each imquic_roq_stream
    opened,       \* number of streams opened so far
    wire,         \* bytes written to each stream
    fin,          \* the FIN was written
    pc, call,     \* where each thread is in imquic_roq_send_rtp, and its arguments
    calls,        \* number of calls so far
    flowsIn,      \* the peer's endpoint->stream_flows_in
    packets,      \* the peer's endpoint->packets: bytes buffered and rtp_len
    taken,        \* bytes of each stream the peer's stack has delivered
    ended,        \* the peer was told of the FIN
    session,      \* the peer still has a RoQ session for the connection
    sent,         \* history: the packets written to each stream
    rtpIncoming   \* history: the packets rtp_incoming was called with

sendVars == <<flowsOut, newStream, opened, wire, fin, pc, call, calls, sent>>
recvVars == <<flowsIn, packets, taken, ended, session, rtpIncoming>>
vars == <<sendVars, recvVars>>

(* The n-th packet is told apart by its content. *)
Rtp(n, size) == [i \in 1..size |-> n % 256]

Packet(flow, bytes) == [flow |-> flow, bytes |-> bytes]
Idle == [flow |-> None, bytes |-> <<>>, close |-> FALSE, stream |-> None, fresh |-> FALSE]

Init ==
    /\ flowsOut = [f \in Flows |-> None]
    /\ newStream = [s \in Streams |-> FALSE]
    /\ opened = 0 /\ calls = 0
    /\ wire = [s \in Streams |-> <<>>]
    /\ fin = [s \in Streams |-> FALSE]
    /\ pc = [t \in Threads |-> "idle"]
    /\ call = [t \in Threads |-> Idle]
    /\ flowsIn = [s \in Streams |-> None]
    /\ packets = [s \in Streams |-> None]
    /\ taken = [s \in Streams |-> 0]
    /\ ended = [s \in Streams |-> FALSE]
    /\ session = TRUE
    /\ sent = [s \in Streams |-> <<>>]
    /\ rtpIncoming = [s \in Streams |-> <<>>]

-----------------------------------------------------------------------------
(* Sending.                                                                *)

(* Under endpoint->mutex: the stream of the flow, a new one if it has none. *)
LookupStream(t) ==
    /\ pc[t] = "idle"
    /\ calls < MaxPackets /\ calls' = calls + 1
    /\ \E f \in FlowsOf[t], size \in RtpSizes, close \in BOOLEAN :
        LET s == IF flowsOut[f] = None THEN opened + 1 ELSE flowsOut[f]
        IN  /\ size >= 12
            /\ s \in Streams
            /\ flowsOut' = [flowsOut EXCEPT ![f] = s]
            /\ newStream' = [newStream EXCEPT ![s] = @ \/ flowsOut[f] = None]
            /\ opened' = IF flowsOut[f] = None THEN s ELSE opened
            /\ call' = [call EXCEPT ![t] = [flow |-> f, bytes |-> Rtp(calls + 1, size),
                                            close |-> close, stream |-> s, fresh |-> FALSE]]
    /\ pc' = [pc EXCEPT ![t] = "test"]
    /\ UNCHANGED <<wire, fin, sent, recvVars>>

(* new_stream is read without the lock... *)
TestNew(t) ==
    /\ pc[t] = "test"
    /\ call' = [call EXCEPT ![t].fresh = newStream[call[t].stream]]
    /\ pc' = [pc EXCEPT ![t] = IF newStream[call[t].stream] THEN "clear" ELSE "write"]
    /\ UNCHANGED <<flowsOut, newStream, opened, wire, fin, calls, sent, recvVars>>

(* ...and written without it. *)
ClearNew(t) ==
    /\ pc[t] = "clear"
    /\ newStream' = [newStream EXCEPT ![call[t].stream] = FALSE]
    /\ pc' = [pc EXCEPT ![t] = "write"]
    /\ UNCHANGED <<flowsOut, opened, wire, fin, call, calls, sent, recvVars>>

\* Mutant: the flow ID is left out.
FramedNoFlow(c) == WriteVarint(Len(c.bytes), 2048) \o c.bytes

(* What goes on the stream: the flow ID if the stream is new, the size, the packet. *)
Framed(c) ==
    (IF c.fresh THEN WriteVarint(c.flow, 2048) ELSE <<>>)
        \o WriteVarint(Len(c.bytes), 2048) \o c.bytes

(* imquic_send_on_stream: refused once the FIN was sent. *)
Write(t) ==
    LET c == call[t] IN
    /\ pc[t] = "write"
    /\ IF fin[c.stream] THEN UNCHANGED <<wire, fin, sent>>
       ELSE /\ wire' = [wire EXCEPT ![c.stream] = @ \o Framed(c)]
            /\ fin' = [fin EXCEPT ![c.stream] = c.close]
            /\ sent' = [sent EXCEPT ![c.stream] = Append(@, Packet(c.flow, c.bytes))]
    /\ pc' = [pc EXCEPT ![t] = "forget"]
    /\ UNCHANGED <<flowsOut, newStream, opened, call, calls, recvVars>>

\* Mutant: the stream of a flow stays in the table when it is closed.
ForgetNothing(t) ==
    /\ pc[t] = "forget"
    /\ pc' = [pc EXCEPT ![t] = "idle"]
    /\ call' = [call EXCEPT ![t] = Idle]
    /\ UNCHANGED <<flowsOut, newStream, opened, wire, fin, calls, sent, recvVars>>

(* Whatever stream the flow has by now is removed when this one was closed. *)
Forget(t) ==
    /\ pc[t] = "forget"
    /\ flowsOut' = IF call[t].close THEN [flowsOut EXCEPT ![call[t].flow] = None] ELSE flowsOut
    /\ pc' = [pc EXCEPT ![t] = "idle"]
    /\ call' = [call EXCEPT ![t] = Idle]
    /\ UNCHANGED <<newStream, opened, wire, fin, calls, sent, recvVars>>

-----------------------------------------------------------------------------
(* Receiving.                                                              *)

(* The size of the next packet, taken from the buffer when it is not known. *)
NextPacket(pkt) ==
    IF pkt.rtpLen # 0 THEN pkt
    ELSE LET r == ReadVarint(pkt.buffer)
         IN  [rtpLen |-> r.value, buffer |-> SubSeq(pkt.buffer, r.length + 1, Len(pkt.buffer))]

(* A turn of the loop of imquic_roq_buffer_data: what is left, the packets   *)
(* found so far, and whether the loop goes on.                               *)
BufferTurn(st) ==
    LET p == NextPacket(st.pkt)
        n == p.rtpLen
        noSize == st.pkt.rtpLen = 0 /\ ReadVarint(st.pkt.buffer).length = 0
    IN  IF ~st.more \/ st.pkt.buffer = <<>> THEN st
        ELSE IF noSize \/ n > Len(p.buffer) THEN [st EXCEPT !.pkt = p, !.more = FALSE]
        ELSE [st EXCEPT !.pkt = [rtpLen |-> 0, buffer |-> SubSeq(p.buffer, n + 1, Len(p.buffer))],
                        !.found = IF n > 0 THEN Append(@, SubSeq(p.buffer, 1, n)) ELSE @]

(* The loop, at most one turn per byte. *)
BufferData(pkt) ==
    LET turns[i \in 0..Len(pkt.buffer)] ==
            IF i = 0 THEN [pkt |-> pkt, found |-> <<>>, more |-> TRUE] ELSE BufferTurn(turns[i - 1])
    IN  turns[Len(pkt.buffer)]

(* The flow ID of the stream and how many of these bytes hold it. *)
KnownFlow(s, bytes) ==
    IF flowsIn[s] # None THEN Parsed(flowsIn[s], 0) ELSE ReadVarint(bytes)

(* imquic_roq_stream_incoming, for the bytes of a piece. *)
StreamIncoming(s, bytes, complete) ==
    LET flow == KnownFlow(s, bytes)
        old  == IF packets[s] = None THEN [buffer |-> <<>>, rtpLen |-> 0] ELSE packets[s]
        new  == SubSeq(bytes, flow.length + 1, Len(bytes))
        out  == BufferData([old EXCEPT !.buffer = @ \o new])
    IN  IF ~session \/ bytes = <<>> \/ (flowsIn[s] = None /\ flow.length = 0)
        THEN UNCHANGED <<flowsIn, packets, rtpIncoming>>
        ELSE /\ flowsIn' = [flowsIn EXCEPT ![s] = IF complete THEN None ELSE flow.value]
             /\ packets' = [packets EXCEPT ![s] = IF complete THEN None ELSE out.pkt]
             /\ rtpIncoming' = [rtpIncoming EXCEPT ![s] =
                    @ \o [i \in DOMAIN out.found |-> Packet(flow.value, out.found[i])]]

(* picoquic gives n more bytes of a stream, the FIN with the last ones or alone. *)
Piece(s, n, complete) ==
    /\ ~ended[s]
    /\ taken[s] + n <= Len(wire[s])
    /\ complete => fin[s] /\ taken[s] + n = Len(wire[s])
    /\ n > 0 \/ complete
    /\ SplitFlow \/ taken[s] > 0 \/ n = 0 \/ ReadVarint(SubSeq(wire[s], 1, n)).length > 0
    /\ taken' = [taken EXCEPT ![s] = @ + n]
    /\ ended' = [ended EXCEPT ![s] = complete]
    /\ StreamIncoming(s, SubSeq(wire[s], taken[s] + 1, taken[s] + n), complete)
    /\ UNCHANGED <<session, sendVars>>

(* imquic_roq_connection_gone: the session goes with all it has buffered. *)
ConnectionGone ==
    /\ session
    /\ session' = FALSE
    /\ flowsIn' = [s \in Streams |-> None]
    /\ packets' = [s \in Streams |-> None]
    /\ UNCHANGED <<taken, ended, rtpIncoming, sendVars>>

Send(t) == LookupStream(t) \/ TestNew(t) \/ ClearNew(t) \/ Write(t) \/ Forget(t)

Deliver(s) ==
    \E n \in PieceSizes \cup {Len(wire[s]) - taken[s]}, complete \in BOOLEAN : Piece(s, n, complete)

Next ==
    \/ \E t \in Threads : Send(t)
    \/ \E s \in Streams : Deliver(s)
    \/ ConnectionGone

Spec == Init /\ [][Next]_vars

-----------------------------------------------------------------------------
(* Every variable has its type, and a stream is never taken further than it  *)
(* was written nor buffered beyond what was taken (roq.c, all of it).        *)
TypeOK ==
    /\ flowsOut \in [Flows -> Streams \cup {None}]
    /\ newStream \in [Streams -> BOOLEAN] /\ fin \in [Streams -> BOOLEAN]
    /\ opened \in 0..MaxStreams /\ calls \in 0..MaxPackets
    /\ \A s \in Streams : wire[s] \in Seq(Byte) /\ taken[s] \in 0..Len(wire[s])
    /\ \A t \in Threads : pc[t] \in {"idle", "test", "clear", "write", "forget"}
    /\ flowsIn \in [Streams -> Flows \cup {None}]
    /\ \A s \in Streams : packets[s] = None \/ Len(packets[s].buffer) <= taken[s]
    /\ ended \in [Streams -> BOOLEAN] /\ session \in BOOLEAN

(* imquic_set_rtp_incoming_cb: what the application is given on a stream are *)
(* the packets that were sent on it, each once, whole, in order and with     *)
(* their flow, however the stream was cut and whatever other streams do; and *)
(* imquic_roq_buffer_data holds none of them back: when every byte written   *)
(* to a stream has been taken, every packet sent on it has been given, the   *)
(* last before the FIN (that frees the buffer) included.                     *)
RtpInOrder ==
    \A s \in Streams :
        /\ IsPrefix(rtpIncoming[s], sent[s])
        /\ session /\ taken[s] = Len(wire[s]) => Len(rtpIncoming[s]) = Len(sent[s])

(* imquic_roq_send_rtp returns the size of the message as if it was sent     *)
(* whatever the connection answers: the stream it found must not have been   *)
(* closed by the time it writes (and the tables have their types).           *)
NeverRefused == TypeOK /\ \A t \in Threads : pc[t] = "write" => ~fin[call[t].stream]
=============================================================================
