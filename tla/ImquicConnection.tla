-------------------------- MODULE ImquicConnection --------------------------
(***************************************************************************)
(* One imquic_connection: its stream table, the queue of events that       *)
(* carries work from application threads to the loop thread, the loop      *)
(* thread handing those events to picoquic, the picoquic callbacks, and    *)
(* the protocol by which a connection is closed and the application told   *)
(* (src/src/connection.c, src/src/quic.c, src/src/loop.c and the part of   *)
(* src/src/network.c that tears an endpoint down).                         *)
(*                                                                         *)
(* A step is what one thread does between two points where another thread  *)
(* can see it: a critical section, an atomic operation, a queue push.      *)
(***************************************************************************)
EXTENDS ImquicStream, Sequences, FiniteSets

CONSTANTS
    Threads,      \* application threads
    Loop,         \* the thread running imquic_loop_thread
    IsServer,     \* conn->is_server
    WebTransport, \* conn->http3 != NULL && conn->http3->webtransport
    PeerSids,     \* stream IDs the peer may open
    SingleOwner,  \* each stream is written by one thread only
    MaxNew,       \* bound: streams opened locally
    MaxChunks     \* bound: sends and resets the application starts

Callers == Threads \cup {Loop}
Local(sid) == ClientInitiated(sid) <=> ~IsServer

ASSUME ConnectionAssumption ==
    /\ Loop \notin Threads
    /\ IsServer \in BOOLEAN
    /\ WebTransport \in BOOLEAN
    /\ SingleOwner \in BOOLEAN
    /\ MaxNew \in Nat
    /\ MaxChunks \in Nat
    /\ PeerSids \subseteq {sid \in Nat : ~Local(sid)}

VARIABLES
    streams,        \* conn->streams: stream ID -> imquic_stream
    next,           \* conn->stream_next_uni / stream_next_bidi
    queue,          \* conn->queued_events
    closing,        \* conn->closing
    closed,         \* conn->closed
    notified_close, \* conn->notified_close
    established,    \* conn->established
    source,         \* the network source is attached to the loop
    deferred,       \* its finalizer waits for the loop thread to leave a dispatch
    pc,             \* where each thread is in an API call
    call,           \* the arguments of that call
    pico,           \* picoquic's connection: "open", "closing" or "closed"
    wire,           \* per stream, the chunks handed to picoquic
    peerEnded,      \* streams whose incoming side picoquic has ended
    owner,          \* history: the thread a stream was first returned to
    accepted,       \* history: per stream, the chunks a send accepted
    chunks,         \* history: sends and resets the application started
    resets,         \* history: streams reset by the application before their end
    told            \* history: connection callbacks the application got

connVars == <<streams, next, queue, established>>
closeVars == <<closing, closed, notified_close, source, deferred>>
picoVars == <<pico, wire, peerEnded>>
histVars == <<owner, accepted, chunks, resets>>
vars == <<connVars, closeVars, pc, call, picoVars, histVars, told>>

-----------------------------------------------------------------------------
(* Events, chunks and calls                                                *)

\* A piece of data and its FIN flag; chunk 0 is the WebTransport prefix.
Chunk == [data : 0 .. MaxChunks, fin : BOOLEAN]
Prefix == [data |-> 0, fin |-> FALSE]
NoChunk == Prefix

StreamEvent(sid, chunk) == [type |-> "STREAM", sid |-> sid, chunk |-> chunk]
ControlEvent(type, sid) == [type |-> type, sid |-> sid, chunk |-> NoChunk]

EventType == {"STREAM", "DATAGRAM", "RESET_STREAM", "STOP_SENDING", "CLOSE_CONN"}

NewSids == {BuildStreamId(id, ~IsServer, bidi) : id \in 0 .. MaxNew, bidi \in BOOLEAN}
Sids == NewSids \cup PeerSids

Event == [type : EventType, sid : Sids \cup {0}, chunk : Chunk]

\* "destroy" marks a close that imquic_network_endpoint_destroy performs.
Call == [sid : Sids \cup {0}, chunk : Chunk, destroy : BOOLEAN]
NoCall == [sid |-> 0, chunk |-> NoChunk, destroy |-> FALSE]

PC == {"idle", "prefix", "push", "mark", "close", "closepush", "wait", "gonecas", "notify"}

Put(f, k, v) == [x \in DOMAIN f \cup {k} |-> IF x = k THEN v ELSE f[x]]

Init ==
    /\ streams = [sid \in {} |-> StreamCreate]
    /\ next = [uni |-> 0, bidi |-> 0]
    /\ queue = <<>>
    /\ closing = FALSE
    /\ closed = FALSE
    /\ notified_close = FALSE
    /\ established = FALSE
    /\ source = TRUE
    /\ deferred = FALSE
    /\ pc = [t \in Callers |-> "idle"]
    /\ call = [t \in Callers |-> NoCall]
    /\ pico = "open"
    /\ wire = [sid \in Sids |-> <<>>]
    /\ peerEnded = {}
    /\ owner = [sid \in {} |-> Loop]
    /\ accepted = [sid \in Sids |-> <<>>]
    /\ chunks = 0
    /\ resets = {}
    /\ told = <<>>

Goto(t, label) == pc' = [pc EXCEPT ![t] = label] /\ UNCHANGED call
Enter(t, label, args) == pc' = [pc EXCEPT ![t] = label] /\ call' = [call EXCEPT ![t] = args]
Return(t) == Enter(t, "idle", NoCall)

LoopIdle == pc[Loop] = "idle"

\* The application knows the connection once new_connection has run.
HasConnection == \E i \in 1 .. Len(told) : told[i] = "new"
Ready(t) == pc[t] = "idle" /\ HasConnection

\* A stream can be used once the call that opened it returned its ID.
Returned(sid) ==
    \A t \in Callers :
        pc[t] \in {"prefix", "push"} /\ call[t].sid = sid => call[t].chunk # Prefix

MayUse(t, sid) ==
    /\ sid \in DOMAIN owner
    /\ Returned(sid)
    /\ SingleOwner => owner[sid] = t

-----------------------------------------------------------------------------
(* The API an application calls, from any thread                           *)

\* Mutant: the other counter advances.
AdvanceOther(bidi) ==
    next' = IF bidi THEN [next EXCEPT !.uni = @ + 1] ELSE [next EXCEPT !.bidi = @ + 1]

Advance(bidi) ==
    next' = IF bidi THEN [next EXCEPT !.bidi = @ + 1] ELSE [next EXCEPT !.uni = @ + 1]

\* Mutant: only bidirectional streams get a prefix.
OpeningBidiOnly(t, sid) ==
    IF WebTransport /\ Bidirectional(sid)
    THEN Enter(t, "prefix", [NoCall EXCEPT !.sid = sid])
    ELSE UNCHANGED <<pc, call>>

Opening(t, sid) ==
    IF WebTransport THEN Enter(t, "prefix", [NoCall EXCEPT !.sid = sid])
                    ELSE UNCHANGED <<pc, call>>

(***************************************************************************)
(* imquic_connection_new_stream_id: allocate the ID and register the       *)
(* stream under conn->mutex, then, over WebTransport, send the prefix      *)
(* before the caller learns the ID.                                        *)
(***************************************************************************)
NewStreamId(t, bidi) ==
    LET id  == IF bidi THEN next.bidi ELSE next.uni
        sid == BuildStreamId(id, ~IsServer, bidi)
    IN  /\ Ready(t)
        /\ next.uni + next.bidi < MaxNew
        /\ Advance(bidi)
        /\ streams' = Put(streams, sid, StreamCreate)
        /\ owner' = Put(owner, sid, t)
        /\ Opening(t, sid)
        /\ UNCHANGED <<queue, established, closeVars, picoVars, accepted, chunks, resets, told>>

\* Mutant: a finished stream still accepts data.
SendableFinished(sid) ==
    /\ sid \in DOMAIN streams
    /\ streams[sid].out \notin {BLOCKED, RESET}

Sendable(sid) ==
    /\ sid \in DOMAIN streams
    /\ streams[sid].out \notin {BLOCKED, RESET, COMPLETE}

(***************************************************************************)
(* imquic_connection_send_on_stream, in the three steps other threads can  *)
(* tell apart: the check under conn->mutex, the push on queued_events, and *)
(* the marking of the stream under stream->mutex.  A send the check        *)
(* refuses returns -1 and changes nothing.                                 *)
(***************************************************************************)
SendCheck(t, sid, fin) ==
    LET chunk == [data |-> chunks + 1, fin |-> fin] IN
    /\ Ready(t)
    /\ chunks < MaxChunks
    /\ MayUse(t, sid)
    /\ Sendable(sid)
    /\ chunks' = chunks + 1
    /\ accepted' = [accepted EXCEPT ![sid] = Append(@, chunk)]
    /\ Enter(t, "push", [sid |-> sid, chunk |-> chunk, destroy |-> FALSE])
    /\ UNCHANGED <<connVars, closeVars, picoVars, owner, resets, told>>

PrefixCheck(t) ==
    /\ pc[t] = "prefix"
    /\ IF Sendable(call[t].sid)
       THEN /\ accepted' = [accepted EXCEPT ![call[t].sid] = Append(@, Prefix)]
            /\ Goto(t, "push")
       ELSE /\ Return(t)
            /\ UNCHANGED accepted
    /\ UNCHANGED <<connVars, closeVars, picoVars, owner, chunks, resets, told>>

SendPush(t) ==
    /\ pc[t] = "push"
    /\ queue' = Append(queue, StreamEvent(call[t].sid, call[t].chunk))
    /\ IF call[t].chunk.fin THEN Goto(t, "mark") ELSE Return(t)
    /\ UNCHANGED <<streams, next, established, closeVars, picoVars, histVars, told>>

SendMark(t) ==
    /\ pc[t] = "mark"
    /\ streams' = [streams EXCEPT ![call[t].sid] = MarkComplete(@, FALSE)]
    /\ Return(t)
    /\ UNCHANGED <<next, queue, established, closeVars, picoVars, histVars, told>>

\* imquic_connection_send_on_datagram: nothing is checked, the data is queued.
SendDatagram(t) ==
    /\ Ready(t)
    /\ chunks < MaxChunks
    /\ chunks' = chunks + 1
    /\ queue' = Append(queue, ControlEvent("DATAGRAM", 0))
    /\ UNCHANGED <<streams, next, established, closeVars, pc, call, picoVars,
                   owner, accepted, resets, told>>

(***************************************************************************)
(* imquic_connection_reset_stream and imquic_connection_stop_sending_stream*)
(* refuse a stream whose can_send is false; past that check they mark the  *)
(* stream and queue the frame.  (The two critical sections are one step    *)
(* here: no stream passes the check.)                                      *)
(***************************************************************************)
EndStream(sid, type, state, ended) ==
    IF sid \in DOMAIN streams /\ streams[sid].can_send /\ state < RESET
    THEN /\ streams' = [streams EXCEPT ![sid] = ended]
         /\ queue' = Append(queue, ControlEvent(type, sid))
    ELSE UNCHANGED <<streams, queue>>

ResetStream(t, sid) ==
    /\ Ready(t)
    /\ MayUse(t, sid)
    /\ chunks < MaxChunks
    /\ chunks' = chunks + 1
    /\ EndStream(sid, "RESET_STREAM", streams[sid].out, [streams[sid] EXCEPT !.out = RESET])
    /\ resets' = IF streams[sid].out < RESET THEN resets \cup {sid} ELSE resets
    /\ UNCHANGED <<next, established, closeVars, pc, call, picoVars, owner, accepted, told>>

StopSendingStream(t, sid) ==
    /\ Ready(t)
    /\ MayUse(t, sid)
    /\ EndStream(sid, "STOP_SENDING", streams[sid].in,
                 [MarkComplete(streams[sid], FALSE) EXCEPT !.in = RESET])
    /\ UNCHANGED <<next, established, closeVars, pc, call, picoVars, histVars, told>>

-----------------------------------------------------------------------------
(* Closing                                                                 *)

\* What a thread does once imquic_connection_close returns to it.
AfterClose(t) == IF call[t].destroy THEN Goto(t, "gonecas") ELSE Return(t)

\* imquic_connection_close reads "closed" first ...
CloseCall(t) ==
    /\ Ready(t)
    /\ ~closed
    /\ Goto(t, "close")
    /\ UNCHANGED <<connVars, closeVars, picoVars, histVars, told>>

\* Mutant: "closing" is set without looking at what it was.
CloseClaimAlways(t) ==
    /\ pc[t] = "close"
    /\ closing' = TRUE
    /\ Goto(t, "closepush")
    /\ UNCHANGED <<connVars, closed, notified_close, source, deferred, picoVars, histVars, told>>

\* ... then claims "closing" with a compare and exchange ...
CloseClaim(t) ==
    /\ pc[t] = "close"
    /\ closing' = TRUE
    /\ IF closing THEN AfterClose(t) ELSE Goto(t, "closepush")
    /\ UNCHANGED <<connVars, closed, notified_close, source, deferred, picoVars, histVars, told>>

\* ... queues the event for the loop thread ...
ClosePush(t) ==
    /\ pc[t] = "closepush"
    /\ queue' = Append(queue, ControlEvent("CLOSE_CONN", 0))
    /\ Goto(t, "wait")
    /\ UNCHANGED <<streams, next, established, closeVars, picoVars, histVars, told>>

\* Mutant: the poll has no time limit.
CloseWaitForever(t) ==
    /\ pc[t] = "wait"
    /\ closed
    /\ AfterClose(t)
    /\ UNCHANGED <<connVars, closeVars, picoVars, histVars, told>>

\* ... and polls "closed" for at most 100 ms, on whichever thread it is.
CloseWait(t) ==
    /\ pc[t] = "wait"
    /\ AfterClose(t)
    /\ UNCHANGED <<connVars, closeVars, picoVars, histVars, told>>

(***************************************************************************)
(* imquic_shutdown_endpoint destroys the network source, whose finalizer   *)
(* runs imquic_network_endpoint_destroy on the thread that drops the last  *)
(* reference: the caller, or the loop thread if it is in a dispatch of     *)
(* that source.  Destroy closes the connection and then notifies that it   *)
(* is gone.                                                                *)
(***************************************************************************)
Destroy(t) ==
    Enter(t, IF closed THEN "gonecas" ELSE "close", [NoCall EXCEPT !.destroy = TRUE])

Shutdown(t) ==
    /\ source
    /\ pc[t] = "idle"
    /\ source' = FALSE
    /\ \/ /\ Destroy(t)
          /\ UNCHANGED deferred
       \/ /\ ~LoopIdle
          /\ deferred' = TRUE
          /\ UNCHANGED <<pc, call>>
    /\ UNCHANGED <<connVars, closing, closed, notified_close, picoVars, histVars, told>>

LoopFinalize ==
    /\ deferred
    /\ LoopIdle
    /\ deferred' = FALSE
    /\ Destroy(Loop)
    /\ UNCHANGED <<connVars, closing, closed, notified_close, source, picoVars, histVars, told>>

\* Mutant: "notified_close" is set without looking at what it was.
NotifyClaimAlways(t) ==
    /\ pc[t] = "gonecas"
    /\ notified_close' = TRUE
    /\ Goto(t, "notify")
    /\ UNCHANGED <<connVars, closing, closed, source, deferred, picoVars, histVars, told>>

\* imquic_connection_notify_gone: one thread wins "notified_close" ...
NotifyClaim(t) ==
    /\ pc[t] = "gonecas"
    /\ notified_close' = TRUE
    /\ IF notified_close THEN Return(t) ELSE Goto(t, "notify")
    /\ UNCHANGED <<connVars, closing, closed, source, deferred, picoVars, histVars, told>>

\* ... and runs the callback the connection's history calls for.
NotifyCall(t) ==
    /\ pc[t] = "notify"
    /\ told' = IF established THEN Append(told, "gone")
               ELSE IF ~IsServer THEN Append(told, "failed")
               ELSE told
    /\ Return(t)
    /\ UNCHANGED <<connVars, closeVars, picoVars, histVars>>

-----------------------------------------------------------------------------
(* The loop thread                                                         *)

\* imquic_connection_source_dispatch pops an event and
\* imquic_quic_queued_event passes it to picoquic, which ignores what comes
\* after it started closing.
LoopDispatch ==
    /\ LoopIdle
    /\ queue # <<>>
    /\ queue' = Tail(queue)
    /\ LET e == Head(queue) IN
         /\ wire' = IF e.type = "STREAM" /\ pico = "open"
                    THEN [wire EXCEPT ![e.sid] = Append(@, e.chunk)]
                    ELSE wire
         /\ pico' = IF e.type = "CLOSE_CONN" /\ pico = "open" THEN "closing" ELSE pico
    /\ UNCHANGED <<streams, next, established, closeVars, pc, call, peerEnded, histVars, told>>

\* A callback that answers a packet needs the network source.
Callback == LoopIdle /\ source /\ pico = "open"

\* picoquic_callback_almost_ready (over WebTransport, the CONNECT exchange
\* that follows it): the connection is established and the application told.
CallbackReady ==
    /\ Callback
    /\ ~established
    /\ established' = TRUE
    /\ told' = Append(told, "new")
    /\ UNCHANGED <<streams, next, queue, closeVars, pc, call, picoVars, histVars>>

\* The peer can send on its own streams and on the bidirectional ones it
\* has seen us use, until it ends them.
PeerCanSend(sid) ==
    /\ sid \notin peerEnded
    /\ IF Local(sid) THEN Bidirectional(sid) /\ wire[sid] # <<>> ELSE sid \in PeerSids

\* The peer can refuse what we send on a stream it knows.
PeerCanStop(sid) ==
    IF Local(sid) THEN wire[sid] # <<>>
                  ELSE sid \in PeerSids /\ Bidirectional(sid)

\* picoquic_callback_stream_data / picoquic_callback_stream_fin
CallbackStream(sid, fin) ==
    LET known == sid \in DOMAIN streams
        st    == IF known THEN streams[sid] ELSE StreamCreate
    IN  /\ Callback
        /\ established
        /\ PeerCanSend(sid)
        /\ streams' = Put(streams, sid, IF fin THEN MarkComplete(st, TRUE) ELSE st)
        /\ owner' = IF known THEN owner ELSE Put(owner, sid, Loop)
        /\ peerEnded' = IF fin THEN peerEnded \cup {sid} ELSE peerEnded
        /\ UNCHANGED <<next, queue, established, closeVars, pc, call, pico, wire,
                       accepted, chunks, resets, told>>

\* picoquic_callback_stream_reset
CallbackReset(sid) ==
    /\ Callback
    /\ established
    /\ PeerCanSend(sid)
    /\ streams' = IF sid \in DOMAIN streams /\ streams[sid].in # COMPLETE
                  THEN [streams EXCEPT ![sid].in = RESET] ELSE streams
    /\ peerEnded' = peerEnded \cup {sid}
    /\ UNCHANGED <<next, queue, established, closeVars, pc, call, pico, wire, histVars, told>>

\* Mutant: a finished stream can be blocked.
StoppedBlocked(st) == [st EXCEPT !.out = BLOCKED]

Stopped(st) == IF st.out # COMPLETE THEN [st EXCEPT !.out = RESET] ELSE st

\* picoquic_callback_stop_sending
CallbackStop(sid) ==
    /\ Callback
    /\ established
    /\ PeerCanStop(sid)
    /\ streams' = [streams EXCEPT ![sid] = Stopped(@)]
    /\ UNCHANGED <<next, queue, established, closeVars, pc, call, picoVars, histVars, told>>

\* picoquic_callback_close, after our CLOSE or because the peer closed, the
\* handshake failed or the idle timer fired.
CallbackClose ==
    /\ LoopIdle
    /\ pico # "closed"
    /\ pico' = "closed"
    /\ closed' = TRUE
    /\ notified_close' = TRUE
    /\ Goto(Loop, IF notified_close THEN "idle" ELSE "notify")
    /\ UNCHANGED <<connVars, closing, source, deferred, wire, peerEnded, histVars, told>>

-----------------------------------------------------------------------------
Api(t) ==
    \/ \E bidi \in BOOLEAN : NewStreamId(t, bidi)
    \/ \E sid \in Sids, fin \in BOOLEAN : SendCheck(t, sid, fin)
    \/ SendDatagram(t)
    \/ \E sid \in Sids : ResetStream(t, sid)
    \/ \E sid \in Sids : StopSendingStream(t, sid)
    \/ CloseCall(t)
    \/ Shutdown(t)

\* The steps of a call once it has started.
Continue(t) ==
    \/ PrefixCheck(t)
    \/ SendPush(t)
    \/ SendMark(t)
    \/ CloseClaim(t)
    \/ ClosePush(t)
    \/ CloseWait(t)
    \/ NotifyClaim(t)
    \/ NotifyCall(t)

Peer ==
    \/ CallbackReady
    \/ \E sid \in Sids, fin \in BOOLEAN : CallbackStream(sid, fin)
    \/ \E sid \in Sids : CallbackReset(sid)
    \/ \E sid \in Sids : CallbackStop(sid)
    \/ CallbackClose

Next ==
    \/ \E t \in Callers : Api(t) \/ Continue(t)
    \/ LoopFinalize
    \/ LoopDispatch
    \/ Peer

(***************************************************************************)
(* Threads run; the main loop goes back to its sources after every         *)
(* callback, so that what stays ready is dispatched even if the            *)
(* application calls the API from every callback (hence SF for the loop    *)
(* thread); picoquic reports the end of a connection it was asked to       *)
(* close.  Nothing makes the application or the peer act.                  *)
(***************************************************************************)
Fairness ==
    /\ \A t \in Callers : WF_vars(Continue(t))
    /\ SF_vars(LoopDispatch)
    /\ SF_vars(pico = "closing" /\ CallbackClose)

Spec == Init /\ [][Next]_vars
FairSpec == Spec /\ Fairness

-----------------------------------------------------------------------------
(* Properties                                                              *)

TypeOK ==
    /\ DOMAIN streams \subseteq Sids
    /\ streams \in [DOMAIN streams -> Stream]
    /\ next \in [uni : Nat, bidi : Nat]
    /\ queue \in Seq(Event)
    /\ closing \in BOOLEAN
    /\ closed \in BOOLEAN
    /\ notified_close \in BOOLEAN
    /\ established \in BOOLEAN
    /\ source \in BOOLEAN
    /\ deferred \in BOOLEAN
    /\ pc \in [Callers -> PC]
    /\ call \in [Callers -> Call]
    /\ pico \in {"open", "closing", "closed"}
    /\ wire \in [Sids -> Seq(Chunk)]
    /\ peerEnded \subseteq Sids
    /\ owner \in [DOMAIN streams -> Callers]
    /\ accepted \in [Sids -> Seq(Chunk)]
    /\ chunks \in 0 .. MaxChunks
    /\ resets \subseteq Sids
    /\ told \in Seq({"new", "gone", "failed"})

\* An event that carries data of a stream.
Carries(e, sid) == e.type = "STREAM" /\ e.sid = sid

(***************************************************************************)
(* The connection callbacks the application sees: at most one of them ends *)
(* the connection, whichever threads race to report it (the loop thread in *)
(* picoquic_callback_close, the thread that shuts the endpoint down), the  *)
(* end it is told fits the start it was told, and no connection is         *)
(* announced once its end was reported.                                    *)
(***************************************************************************)
ToldOnce == told \in {<<>>, <<"failed">>, <<"new">>, <<"new", "gone">>}

(***************************************************************************)
(* Threads, the loop thread included, may all try to close the connection: *)
(* at most one CLOSE_CONN is ever on its way to picoquic, only for a       *)
(* connection somebody claimed to close, and none follows it.              *)
(***************************************************************************)
CloseEvents == {i \in 1 .. Len(queue) : queue[i].type = "CLOSE_CONN"}
ClosePushers == {t \in Callers : pc[t] = "closepush"}
CloseOnce ==
    /\ \A i, j \in CloseEvents : i = j
    /\ \A t, u \in ClosePushers : t = u
    /\ CloseEvents = {} \/ ClosePushers = {}
    /\ CloseEvents # {} \/ ClosePushers # {} \/ pico = "closing" => closing
    /\ pico = "closing" => CloseEvents = {} /\ ClosePushers = {}

(* A locally opened stream has a number its counter has passed. *)
LocalIdsIssued ==
    \A sid \in DOMAIN streams :
        Local(sid) =>
            ActualId(sid) < (IF Bidirectional(sid) THEN next.bidi ELSE next.uni)

(***************************************************************************)
(* The ID that imquic_connection_new_stream_id returns is one only this    *)
(* end may open, and no stream has it: neither one that the peer opened    *)
(* nor one of an earlier call, of whichever thread, kind or end, so that   *)
(* the new stream replaces nothing in the table.  Streams get into the     *)
(* table in no other way but by the peer's opening one that is its own.    *)
(***************************************************************************)
FreshIds ==
    [][\/ /\ next' = next
          /\ \A sid \in DOMAIN streams' \ DOMAIN streams : ~Local(sid)
       \/ \E sid \in Sids :
             /\ Local(sid)
             /\ sid \notin DOMAIN streams
             /\ streams' = Put(streams, sid, StreamCreate)]_<<streams, next>>

(***************************************************************************)
(* On a WebTransport connection the peer sees the stream prefix before any *)
(* application data of a stream we opened: it was the first thing handed   *)
(* to picoquic, or it is queued ahead of everything else of the stream.    *)
(***************************************************************************)
PrefixFirst ==
    WebTransport =>
        \A sid \in NewSids :
            /\ wire[sid] # <<>> => Head(wire[sid]) = Prefix
            /\ wire[sid] = <<>> /\ pico = "open" =>
                  \A i \in 1 .. Len(queue) : Carries(queue[i], sid) =>
                      \E j \in 1 .. i : Carries(queue[j], sid) /\ queue[j].chunk = Prefix

(***************************************************************************)
(* When each stream has one writing thread, what reaches picoquic is what  *)
(* the sends accepted, in order, and nothing is accepted after a FIN: the  *)
(* queue between the threads and the loop implements OrderedSend.          *)
(***************************************************************************)
Sends == INSTANCE OrderedSend WITH Streams <- Sids, Chunk <- Chunk, delivered <- wire
SendsInOrder == Sends!Spec

(***************************************************************************)
(* Once a direction of a stream has ended (FIN, RESET_STREAM or            *)
(* STOP_SENDING), no step of any thread opens it again.                    *)
(***************************************************************************)
EndedStaysEnded ==
    [][\A sid \in DOMAIN streams :
          /\ streams[sid].out >= RESET => streams'[sid].out >= RESET
          /\ streams[sid].in >= RESET => streams'[sid].in >= RESET]_streams

(***************************************************************************)
(* connection.h says of imquic_connection_reset_stream: "reset a stream,   *)
(* sending a RESET_STREAM".  A stream the application reset before its end *)
(* is therefore one whose sending side has ended.  (The code does not keep *)
(* this: see the README, what the code does.)                              *)
(***************************************************************************)
ResetEndsStream == \A sid \in resets : streams[sid].out >= RESET

(***************************************************************************)
(* A close somebody asked for ends with the application told, although the *)
(* caller may be the loop thread itself, or the endpoint may be torn down  *)
(* meanwhile.                                                              *)
(***************************************************************************)
Gone == told = <<"new", "gone">>
CloseIsReported == (closing /\ HasConnection) ~> Gone

\* No API call leaves its thread stuck, the poll in a close included.
CallsReturn == \A t \in Callers : pc[t] # "idle" ~> pc[t] = "idle"

\* Both ends of imquic_connection_close: whoever called it goes on, and the application hears of it.
CloseCompletes == CloseIsReported /\ CallsReturn
=============================================================================
