----------------------- MODULE ImquicConnectionProofs -----------------------
(***************************************************************************)
(* What ImquicConnection guarantees for every set of threads, role and     *)
(* bound: types, the uniqueness of local stream IDs, and the callbacks the *)
(* application gets at the end of a connection.                            *)
(***************************************************************************)
EXTENDS ImquicConnection, SequenceTheorems, TLAPS

-----------------------------------------------------------------------------
(* Stream identifiers                                                      *)

(***************************************************************************)
(* A stream ID built by imquic_build_stream_id is decoded by               *)
(* imquic_parse_stream_id to the values it was built from.                 *)
(***************************************************************************)
LEMMA StreamIdRoundTrip ==
    ASSUME NEW id \in Nat, NEW client \in BOOLEAN, NEW bidi \in BOOLEAN
    PROVE  /\ BuildStreamId(id, client, bidi) \in Nat
           /\ ActualId(BuildStreamId(id, client, bidi)) = id
           /\ ClientInitiated(BuildStreamId(id, client, bidi)) <=> client
           /\ Bidirectional(BuildStreamId(id, client, bidi)) <=> bidi
<1> DEFINE low == (IF bidi THEN 0 ELSE 2) + (IF client THEN 0 ELSE 1)
<1>1. low \in 0 .. 3 /\ BuildStreamId(id, client, bidi) = 4 * id + low
  BY DEF BuildStreamId
<1>2. (low \in {0, 2} <=> client) /\ (low \in {0, 1} <=> bidi)
  OBVIOUS
<1> HIDE DEF low
<1>3. (4 * id + low) \div 4 = id /\ (4 * id + low) % 4 = low
  BY <1>1
<1>4. ActualId(BuildStreamId(id, client, bidi)) = id
  BY <1>1, <1>3 DEF ActualId
<1>5. ClientInitiated(BuildStreamId(id, client, bidi)) <=> client
  BY <1>1, <1>2, <1>3 DEF ClientInitiated
<1>6. Bidirectional(BuildStreamId(id, client, bidi)) <=> bidi
  BY <1>1, <1>2, <1>3 DEF Bidirectional
<1>7. BuildStreamId(id, client, bidi) \in Nat
  BY <1>1
<1>. QED  BY <1>4, <1>5, <1>6, <1>7

(***************************************************************************)
(* Two stream IDs built from different values differ: no two streams of a  *)
(* connection share an ID.                                                 *)
(***************************************************************************)
THEOREM StreamIdsUnique ==
    ASSUME NEW i \in Nat, NEW c \in BOOLEAN, NEW b \in BOOLEAN,
           NEW j \in Nat, NEW d \in BOOLEAN, NEW e \in BOOLEAN,
           BuildStreamId(i, c, b) = BuildStreamId(j, d, e)
    PROVE  i = j /\ (c <=> d) /\ (b <=> e)
<1> DEFINE x == BuildStreamId(i, c, b)
           y == BuildStreamId(j, d, e)
<1>1. ActualId(x) = i /\ (ClientInitiated(x) <=> c) /\ (Bidirectional(x) <=> b)
  BY StreamIdRoundTrip
<1>2. ActualId(y) = j /\ (ClientInitiated(y) <=> d) /\ (Bidirectional(y) <=> e)
  BY StreamIdRoundTrip
<1>3. x = y
  OBVIOUS
<1> HIDE DEF x, y
<1>4. i = j
  BY <1>1, <1>2, <1>3
<1>5. (c <=> d) /\ (b <=> e)
  BY <1>1, <1>2, <1>3
<1>. QED  BY <1>4, <1>5
-----------------------------------------------------------------------------
(* Types                                                                   *)

LEMMA ConstantTypes ==
    /\ Loop \in Callers
    /\ Prefix \in Chunk
    /\ NoCall \in Call
    /\ \A type \in EventType : ControlEvent(type, 0) \in Event
    /\ \A type \in EventType, sid \in Sids : ControlEvent(type, sid) \in Event
    /\ \A sid \in Sids \cup {0}, chunk \in Chunk : StreamEvent(sid, chunk) \in Event
BY ConnectionAssumption
   DEF Callers, Prefix, NoChunk, Chunk, NoCall, Call, ControlEvent, StreamEvent, Event, EventType

LEMMA StreamTypes ==
    /\ StreamCreate \in Stream
    /\ \A st \in Stream, dir \in BOOLEAN : MarkComplete(st, dir) \in Stream
    /\ \A st \in Stream : [st EXCEPT !.in = RESET] \in Stream /\ [st EXCEPT !.out = RESET] \in Stream
BY DEF StreamCreate, Stream, MarkComplete, StreamState, INACTIVE, READY, BLOCKED, RESET, COMPLETE

LEMMA NewSidType ==
    ASSUME NEW id \in 0 .. MaxNew, NEW bidi \in BOOLEAN
    PROVE  BuildStreamId(id, ~IsServer, bidi) \in Sids
BY DEF Sids, NewSids

\* Where a step leaves the thread that takes it.
LEMMA EnterType ==
    ASSUME TypeOK, NEW t \in Callers, NEW label \in PC, NEW args \in Call, Enter(t, label, args)
    PROVE  pc' \in [Callers -> PC] /\ call' \in [Callers -> Call]
BY DEF TypeOK, Enter

LEMMA GotoType ==
    ASSUME TypeOK, NEW t \in Callers, NEW label \in PC, Goto(t, label)
    PROVE  pc' \in [Callers -> PC] /\ call' \in [Callers -> Call]
BY DEF TypeOK, Goto

LEMMA ReturnType ==
    ASSUME TypeOK, NEW t \in Callers, Return(t)
    PROVE  pc' \in [Callers -> PC] /\ call' \in [Callers -> Call]
BY EnterType, ConstantTypes DEF Return, PC

LEMMA AfterCloseType ==
    ASSUME TypeOK, NEW t \in Callers, AfterClose(t)
    PROVE  pc' \in [Callers -> PC] /\ call' \in [Callers -> Call]
BY GotoType, ReturnType DEF AfterClose, PC

LEMMA EndStreamType ==
    ASSUME TypeOK, NEW sid \in Sids, NEW type \in EventType, NEW state,
           NEW ended, sid \in DOMAIN streams => ended \in Stream,
           EndStream(sid, type, state, ended)
    PROVE  /\ DOMAIN streams' = DOMAIN streams
           /\ streams' \in [DOMAIN streams' -> Stream]
           /\ queue' \in Seq(Event)
<1>1. Append(queue, ControlEvent(type, sid)) \in Seq(Event)
  BY ConstantTypes DEF TypeOK
<1>. QED  BY <1>1 DEF TypeOK, EndStream

LEMMA TypeInit == Init => TypeOK
<1> SUFFICES ASSUME Init PROVE TypeOK
  OBVIOUS
<1>1. pc \in [Callers -> PC] /\ call \in [Callers -> Call]
  BY ConstantTypes DEF Init, PC
<1>2. next \in [uni : Nat, bidi : Nat] /\ chunks \in 0 .. MaxChunks
  BY ConnectionAssumption DEF Init
<1>3. streams \in [DOMAIN streams -> Stream] /\ DOMAIN streams = {}
  BY DEF Init
<1>4. owner \in [DOMAIN streams -> Callers]
  BY <1>3 DEF Init
<1>5. wire \in [Sids -> Seq(Chunk)] /\ accepted \in [Sids -> Seq(Chunk)] /\ queue \in Seq(Event)
  BY DEF Init
<1>6. told \in Seq({"new", "gone", "failed"})
  BY DEF Init
<1>. QED  BY <1>1, <1>2, <1>3, <1>4, <1>5, <1>6 DEF Init, TypeOK

LEMMA TypeNext ==
    ASSUME TypeOK, [Next]_vars
    PROVE  TypeOK'
<1> USE ConnectionAssumption DEF connVars, closeVars, picoVars, histVars
<1>1. ASSUME NEW t \in Callers, NEW bidi \in BOOLEAN, NewStreamId(t, bidi) PROVE TypeOK'
  <2> DEFINE id == IF bidi THEN next.bidi ELSE next.uni
             sid == BuildStreamId(id, ~IsServer, bidi)
  <2>1. id \in 0 .. MaxNew
    BY <1>1 DEF NewStreamId, TypeOK
  <2>2. sid \in Sids
    BY <2>1, NewSidType
  <2> HIDE DEF id
  <2>3. /\ DOMAIN streams' = DOMAIN streams \cup {sid}
        /\ streams' \in [DOMAIN streams' -> Stream]
    <3>1. streams' = Put(streams, sid, StreamCreate)
      BY <1>1 DEF NewStreamId, id
    <3>. QED  BY <3>1, StreamTypes DEF TypeOK, Put
  <2>4. owner' \in [DOMAIN streams' -> Callers]
    <3>1. owner' = Put(owner, sid, t)
      BY <1>1 DEF NewStreamId, id
    <3>. QED  BY <2>3, <3>1 DEF TypeOK, Put
  <2>5. [NoCall EXCEPT !.sid = sid] \in Call
    BY <2>2, ConstantTypes DEF NoCall, Call
  <2>6. pc' \in [Callers -> PC] /\ call' \in [Callers -> Call]
    <3>1. CASE WebTransport
      BY <1>1, <2>5, <3>1, EnterType DEF NewStreamId, PC, id, Opening
    <3>2. CASE ~WebTransport
      BY <1>1, <3>2 DEF NewStreamId, TypeOK, Opening
    <3>. QED  BY <3>1, <3>2
  <2>7. next' \in [uni : Nat, bidi : Nat]
    BY <1>1 DEF NewStreamId, TypeOK, Advance
  <2>. QED  BY <1>1, <2>2, <2>3, <2>4, <2>6, <2>7 DEF NewStreamId, TypeOK
<1>2. ASSUME NEW t \in Callers, NEW sid \in Sids, NEW fin \in BOOLEAN, SendCheck(t, sid, fin) PROVE TypeOK'
  <2> DEFINE chunk == [data |-> chunks + 1, fin |-> fin]
  <2>1. chunk \in Chunk /\ chunks + 1 \in 0 .. MaxChunks
    BY <1>2 DEF SendCheck, TypeOK, Chunk
  <2> HIDE DEF chunk
  <2>2. [sid |-> sid, chunk |-> chunk, destroy |-> FALSE] \in Call
    BY <2>1 DEF Call
  <2>3. pc' \in [Callers -> PC] /\ call' \in [Callers -> Call]
    BY <1>2, <2>2, EnterType DEF SendCheck, PC, chunk
  <2>4. accepted' \in [Sids -> Seq(Chunk)]
    BY <1>2, <2>1 DEF SendCheck, TypeOK, chunk
  <2>. QED  BY <1>2, <2>1, <2>3, <2>4 DEF SendCheck, TypeOK
<1>3. ASSUME NEW t \in Callers, SendDatagram(t) PROVE TypeOK'
  BY <1>3, ConstantTypes DEF SendDatagram, TypeOK, EventType
<1>4. ASSUME NEW t \in Callers, NEW sid \in Sids, ResetStream(t, sid) PROVE TypeOK'
  <2> DEFINE ended == [streams[sid] EXCEPT !.out = RESET]
  <2>1. sid \in DOMAIN streams => ended \in Stream
    BY StreamTypes DEF TypeOK
  <2> HIDE DEF ended
  <2>2. /\ DOMAIN streams' = DOMAIN streams
        /\ streams' \in [DOMAIN streams' -> Stream]
        /\ queue' \in Seq(Event)
    BY <1>4, <2>1, EndStreamType DEF ResetStream, EventType, ended
  <2>. QED  BY <1>4, <2>2 DEF ResetStream, TypeOK
<1>5. ASSUME NEW t \in Callers, NEW sid \in Sids, StopSendingStream(t, sid) PROVE TypeOK'
  <2> DEFINE ended == [MarkComplete(streams[sid], FALSE) EXCEPT !.in = RESET]
  <2>1. sid \in DOMAIN streams => ended \in Stream
    BY StreamTypes DEF TypeOK
  <2> HIDE DEF ended
  <2>2. /\ DOMAIN streams' = DOMAIN streams
        /\ streams' \in [DOMAIN streams' -> Stream]
        /\ queue' \in Seq(Event)
    BY <1>5, <2>1, EndStreamType DEF StopSendingStream, EventType, ended
  <2>. QED  BY <1>5, <2>2 DEF StopSendingStream, TypeOK
<1>6. ASSUME NEW t \in Callers, CloseCall(t) PROVE TypeOK'
  BY <1>6, GotoType DEF CloseCall, TypeOK, PC
<1>7. ASSUME NEW t \in Callers, Shutdown(t) PROVE TypeOK'
  <2>1. [NoCall EXCEPT !.destroy = TRUE] \in Call
    BY ConstantTypes DEF NoCall, Call
  <2>2. pc' \in [Callers -> PC] /\ call' \in [Callers -> Call]
    <3>1. CASE Destroy(t)
      BY <2>1, <3>1, EnterType DEF Destroy, PC
    <3>2. CASE UNCHANGED <<pc, call>>
      BY <3>2 DEF TypeOK
    <3>. QED  BY <1>7, <3>1, <3>2 DEF Shutdown
  <2>. QED  BY <1>7, <2>2 DEF Shutdown, Destroy, TypeOK
<1>8. ASSUME NEW t \in Callers, PrefixCheck(t) PROVE TypeOK'
  <2>1. pc' \in [Callers -> PC] /\ call' \in [Callers -> Call]
    BY <1>8, GotoType, ReturnType DEF PrefixCheck, PC
  <2>3. accepted' \in [Sids -> Seq(Chunk)]
    <3>1. \A sid \in Sids : Append(accepted[sid], Prefix) \in Seq(Chunk)
      BY ConstantTypes DEF TypeOK
    <3>2. \/ accepted' = accepted
          \/ accepted' = [accepted EXCEPT ![call[t].sid] = Append(@, Prefix)]
      BY <1>8 DEF PrefixCheck
    <3>3. accepted \in [Sids -> Seq(Chunk)]
      BY DEF TypeOK
    <3> DEFINE sid == call[t].sid
    <3> HIDE DEF sid
    <3>4. \/ accepted' = accepted
          \/ accepted' = [accepted EXCEPT ![sid] = Append(@, Prefix)]
      BY <3>2 DEF sid
    <3>. QED  BY <3>1, <3>3, <3>4
  <2>. QED  BY <1>8, <2>1, <2>3 DEF PrefixCheck, TypeOK
<1>9. ASSUME NEW t \in Callers, SendPush(t) PROVE TypeOK'
  <2>1. pc' \in [Callers -> PC] /\ call' \in [Callers -> Call]
    BY <1>9, GotoType, ReturnType DEF SendPush, PC
  <2>2. call[t].sid \in Sids \cup {0} /\ call[t].chunk \in Chunk
    BY DEF TypeOK, Call
  <2>3. StreamEvent(call[t].sid, call[t].chunk) \in Event
    BY <2>2, ConstantTypes
  <2>4. queue' \in Seq(Event)
    BY <1>9, <2>3 DEF SendPush, TypeOK
  <2>. QED  BY <1>9, <2>1, <2>4 DEF SendPush, TypeOK
<1>10. ASSUME NEW t \in Callers, SendMark(t) PROVE TypeOK'
  BY <1>10, ReturnType, StreamTypes DEF SendMark, TypeOK
<1>11. ASSUME NEW t \in Callers, CloseClaim(t) PROVE TypeOK'
  BY <1>11, GotoType, AfterCloseType DEF CloseClaim, TypeOK, PC
<1>12. ASSUME NEW t \in Callers, ClosePush(t) PROVE TypeOK'
  BY <1>12, GotoType, ConstantTypes DEF ClosePush, TypeOK, PC, EventType
<1>13. ASSUME NEW t \in Callers, CloseWait(t) PROVE TypeOK'
  BY <1>13, AfterCloseType DEF CloseWait, TypeOK
<1>14. ASSUME NEW t \in Callers, NotifyClaim(t) PROVE TypeOK'
  BY <1>14, GotoType, ReturnType DEF NotifyClaim, TypeOK, PC
<1>15. ASSUME NEW t \in Callers, NotifyCall(t) PROVE TypeOK'
  BY <1>15, ReturnType DEF NotifyCall, TypeOK
<1>16. ASSUME LoopDispatch PROVE TypeOK'
  <2> DEFINE e == Head(queue)
  <2>1. e \in Event /\ Tail(queue) \in Seq(Event)
    BY <1>16 DEF LoopDispatch, TypeOK
  <2>2. e.chunk \in Chunk
    BY <2>1 DEF Event
  <2>3. wire' \in [Sids -> Seq(Chunk)]
    <3>1. \A sid \in Sids : Append(wire[sid], e.chunk) \in Seq(Chunk)
      BY <2>2 DEF TypeOK
    <3>. QED  BY <1>16, <3>1 DEF LoopDispatch, TypeOK
  <2>. QED  BY <1>16, <2>1, <2>3 DEF LoopDispatch, TypeOK
<1>17. ASSUME CallbackReady PROVE TypeOK'
  BY <1>17 DEF CallbackReady, TypeOK
<1>18. ASSUME NEW sid \in Sids, NEW fin \in BOOLEAN, CallbackStream(sid, fin) PROVE TypeOK'
  <2> DEFINE known == sid \in DOMAIN streams
             st    == IF known THEN streams[sid] ELSE StreamCreate
             new   == IF fin THEN MarkComplete(st, TRUE) ELSE st
  <2>1. new \in Stream
    BY StreamTypes DEF TypeOK
  <2> HIDE DEF new
  <2>2. /\ DOMAIN streams' = DOMAIN streams \cup {sid}
        /\ streams' \in [DOMAIN streams' -> Stream]
    <3>1. streams' = Put(streams, sid, new)
      BY <1>18 DEF CallbackStream, new
    <3>. QED  BY <2>1, <3>1 DEF TypeOK, Put
  <2>3. owner' \in [DOMAIN streams' -> Callers]
    <3>1. CASE known
      <4>1. DOMAIN streams' = DOMAIN streams /\ owner' = owner
        BY <1>18, <2>2, <3>1 DEF CallbackStream
      <4>. QED  BY <4>1 DEF TypeOK
    <3>2. CASE ~known
      BY <1>18, <2>2, <3>2, ConstantTypes DEF CallbackStream, TypeOK, Put
    <3>. QED  BY <3>1, <3>2
  <2>. QED  BY <1>18, <2>2, <2>3 DEF CallbackStream, TypeOK
<1>19. ASSUME NEW sid \in Sids, CallbackReset(sid) PROVE TypeOK'
  BY <1>19, StreamTypes DEF CallbackReset, TypeOK
<1>20. ASSUME NEW sid \in Sids, CallbackStop(sid) PROVE TypeOK'
  BY <1>20, StreamTypes DEF CallbackStop, TypeOK, Stopped
<1>21. ASSUME CallbackClose PROVE TypeOK'
  BY <1>21, GotoType, ConstantTypes DEF CallbackClose, TypeOK, PC
<1>22. CASE UNCHANGED vars
  BY <1>22 DEF vars, TypeOK
<1>23. ASSUME LoopFinalize PROVE TypeOK'
  <2>1. [NoCall EXCEPT !.destroy = TRUE] \in Call
    BY ConstantTypes DEF NoCall, Call
  <2>2. pc' \in [Callers -> PC] /\ call' \in [Callers -> Call]
    BY <1>23, <2>1, EnterType, ConstantTypes DEF LoopFinalize, Destroy, PC
  <2>. QED  BY <1>23, <2>2 DEF LoopFinalize, TypeOK
<1>. QED
  BY <1>1, <1>2, <1>3, <1>4, <1>5, <1>6, <1>7, <1>8, <1>9, <1>10, <1>11, <1>12, <1>13, <1>14, <1>15, <1>16, <1>17, <1>18, <1>19, <1>20, <1>21, <1>22, <1>23 DEF Next, Api, Continue, Peer

(***************************************************************************)
(* Every variable keeps its type, whatever the threads, roles and bounds.  *)
(***************************************************************************)
THEOREM TypeCorrect == Spec => []TypeOK
BY TypeInit, TypeNext, PTL DEF Spec

-----------------------------------------------------------------------------
(* Stream IDs and stream states                                            *)

(***************************************************************************)
(* A stream has an entry in the table before anything is sent on it: the   *)
(* peer cannot refer to a stream of ours that we do not know.              *)
(***************************************************************************)
SidsKnown ==
    /\ \A sid \in Sids : wire[sid] # <<>> => sid \in DOMAIN streams
    /\ \A i \in 1 .. Len(queue) :
          queue[i].type = "STREAM" => queue[i].sid \in DOMAIN streams
    /\ \A t \in Callers :
          pc[t] \in {"prefix", "push", "mark"} => call[t].sid \in DOMAIN streams

StreamInv == TypeOK /\ SidsKnown /\ LocalIdsIssued

\* The ID imquic_connection_new_stream_id builds is not in the table.
LEMMA NewSidFresh ==
    ASSUME TypeOK, LocalIdsIssued, NEW bidi \in BOOLEAN
    PROVE  LET id == IF bidi THEN next.bidi ELSE next.uni IN
           BuildStreamId(id, ~IsServer, bidi) \notin DOMAIN streams
<1> DEFINE id  == IF bidi THEN next.bidi ELSE next.uni
           sid == BuildStreamId(id, ~IsServer, bidi)
<1>1. id \in Nat /\ (~IsServer) \in BOOLEAN
  BY ConnectionAssumption DEF TypeOK
<1>2. ActualId(sid) = id /\ Local(sid) /\ (Bidirectional(sid) <=> bidi)
  BY <1>1, StreamIdRoundTrip DEF Local
<1> HIDE DEF sid
<1>3. ASSUME sid \in DOMAIN streams PROVE FALSE
  BY <1>1, <1>2, <1>3 DEF LocalIdsIssued
<1>. QED  BY <1>3 DEF sid

\* No step forgets a stream.
LEMMA StreamsGrow ==
    ASSUME TypeOK, [Next]_vars
    PROVE  DOMAIN streams \subseteq DOMAIN streams'
<1> USE DEF connVars, closeVars, picoVars, histVars
<1>1. ASSUME NEW t \in Callers, NEW bidi \in BOOLEAN, NewStreamId(t, bidi) PROVE DOMAIN streams \subseteq DOMAIN streams'
  BY <1>1 DEF NewStreamId, Put
<1>2. ASSUME NEW t \in Callers, NEW sid \in Sids, NEW fin \in BOOLEAN, SendCheck(t, sid, fin) PROVE DOMAIN streams \subseteq DOMAIN streams'
  BY <1>2 DEF SendCheck
<1>3. ASSUME NEW t \in Callers, SendDatagram(t) PROVE DOMAIN streams \subseteq DOMAIN streams'
  BY <1>3 DEF SendDatagram
<1>4. ASSUME NEW t \in Callers, NEW sid \in Sids, ResetStream(t, sid) PROVE DOMAIN streams \subseteq DOMAIN streams'
  BY <1>4 DEF ResetStream, EndStream
<1>5. ASSUME NEW t \in Callers, NEW sid \in Sids, StopSendingStream(t, sid) PROVE DOMAIN streams \subseteq DOMAIN streams'
  BY <1>5 DEF StopSendingStream, EndStream
<1>6. ASSUME NEW t \in Callers, CloseCall(t) PROVE DOMAIN streams \subseteq DOMAIN streams'
  BY <1>6 DEF CloseCall
<1>7. ASSUME NEW t \in Callers, Shutdown(t) PROVE DOMAIN streams \subseteq DOMAIN streams'
  BY <1>7 DEF Shutdown
<1>8. ASSUME NEW t \in Callers, PrefixCheck(t) PROVE DOMAIN streams \subseteq DOMAIN streams'
  BY <1>8 DEF PrefixCheck
<1>9. ASSUME NEW t \in Callers, SendPush(t) PROVE DOMAIN streams \subseteq DOMAIN streams'
  BY <1>9 DEF SendPush
<1>10. ASSUME NEW t \in Callers, SendMark(t) PROVE DOMAIN streams \subseteq DOMAIN streams'
  BY <1>10 DEF SendMark
<1>11. ASSUME NEW t \in Callers, CloseClaim(t) PROVE DOMAIN streams \subseteq DOMAIN streams'
  BY <1>11 DEF CloseClaim
<1>12. ASSUME NEW t \in Callers, ClosePush(t) PROVE DOMAIN streams \subseteq DOMAIN streams'
  BY <1>12 DEF ClosePush
<1>13. ASSUME NEW t \in Callers, CloseWait(t) PROVE DOMAIN streams \subseteq DOMAIN streams'
  BY <1>13 DEF CloseWait
<1>14. ASSUME NEW t \in Callers, NotifyClaim(t) PROVE DOMAIN streams \subseteq DOMAIN streams'
  BY <1>14 DEF NotifyClaim
<1>15. ASSUME NEW t \in Callers, NotifyCall(t) PROVE DOMAIN streams \subseteq DOMAIN streams'
  BY <1>15 DEF NotifyCall
<1>16. ASSUME LoopDispatch PROVE DOMAIN streams \subseteq DOMAIN streams'
  BY <1>16 DEF LoopDispatch
<1>17. ASSUME CallbackReady PROVE DOMAIN streams \subseteq DOMAIN streams'
  BY <1>17 DEF CallbackReady
<1>18. ASSUME NEW sid \in Sids, NEW fin \in BOOLEAN, CallbackStream(sid, fin) PROVE DOMAIN streams \subseteq DOMAIN streams'
  BY <1>18 DEF CallbackStream, Put
<1>19. ASSUME NEW sid \in Sids, CallbackReset(sid) PROVE DOMAIN streams \subseteq DOMAIN streams'
  BY <1>19 DEF CallbackReset
<1>20. ASSUME NEW sid \in Sids, CallbackStop(sid) PROVE DOMAIN streams \subseteq DOMAIN streams'
  BY <1>20 DEF CallbackStop
<1>21. ASSUME CallbackClose PROVE DOMAIN streams \subseteq DOMAIN streams'
  BY <1>21 DEF CallbackClose
<1>22. CASE UNCHANGED vars
  BY <1>22 DEF vars
<1>23. ASSUME LoopFinalize PROVE DOMAIN streams \subseteq DOMAIN streams'
  BY <1>23 DEF LoopFinalize
<1>. QED
  BY <1>1, <1>2, <1>3, <1>4, <1>5, <1>6, <1>7, <1>8, <1>9, <1>10, <1>11, <1>12, <1>13, <1>14, <1>15, <1>16, <1>17, <1>18, <1>19, <1>20, <1>21, <1>22, <1>23 DEF Next, Api, Continue, Peer

LEMMA SidsKnownInit == Init => SidsKnown
BY DEF Init, SidsKnown

LEMMA SidsKnownNext ==
    ASSUME TypeOK, SidsKnown, [Next]_vars
    PROVE  SidsKnown'
<1> USE DEF connVars, closeVars, picoVars, histVars, SidsKnown
<1>0. DOMAIN streams \subseteq DOMAIN streams'
  BY StreamsGrow
<1>1. ASSUME NEW t \in Callers, NEW bidi \in BOOLEAN, NewStreamId(t, bidi) PROVE SidsKnown'
  <2>1. UNCHANGED <<queue, wire>>
    BY <1>1 DEF NewStreamId
  <2>2. \/ UNCHANGED <<pc, call>>
        \/ call'[t].sid \in DOMAIN streams' /\ \A u \in Callers \ {t} : UNCHANGED <<pc[u], call[u]>>
    BY <1>1 DEF NewStreamId, TypeOK, Enter, Put, NoCall, Opening
  <2>. QED  BY <1>0, <2>1, <2>2
<1>2. ASSUME NEW t \in Callers, NEW sid \in Sids, NEW fin \in BOOLEAN, SendCheck(t, sid, fin) PROVE SidsKnown'
  BY <1>0, <1>2 DEF SendCheck, TypeOK, Ready, Enter, Sendable
<1>3. ASSUME NEW t \in Callers, SendDatagram(t) PROVE SidsKnown'
  BY <1>0, <1>3 DEF SendDatagram, TypeOK, ControlEvent
<1>4. ASSUME NEW t \in Callers, NEW sid \in Sids, ResetStream(t, sid) PROVE SidsKnown'
  <2>1. \/ queue' = queue
        \/ \E e : e.type # "STREAM" /\ queue' = Append(queue, e)
    BY <1>4 DEF ResetStream, EndStream, ControlEvent
  <2>2. queue \in Seq(Event) /\ UNCHANGED <<pc, call, wire>>
    BY <1>4 DEF ResetStream, TypeOK
  <2>3. \A i \in 1 .. Len(queue') :
           queue'[i].type = "STREAM" => queue'[i].sid \in DOMAIN streams
    BY <2>1, <2>2
  <2>. QED  BY <1>0, <2>2, <2>3
<1>5. ASSUME NEW t \in Callers, NEW sid \in Sids, StopSendingStream(t, sid) PROVE SidsKnown'
  <2>1. \/ queue' = queue
        \/ \E e : e.type # "STREAM" /\ queue' = Append(queue, e)
    BY <1>5 DEF StopSendingStream, EndStream, ControlEvent
  <2>2. queue \in Seq(Event) /\ UNCHANGED <<pc, call, wire>>
    BY <1>5 DEF StopSendingStream, TypeOK
  <2>3. \A i \in 1 .. Len(queue') :
           queue'[i].type = "STREAM" => queue'[i].sid \in DOMAIN streams
    BY <2>1, <2>2
  <2>. QED  BY <1>0, <2>2, <2>3
<1>6. ASSUME NEW t \in Callers, CloseCall(t) PROVE SidsKnown'
  BY <1>0, <1>6 DEF CloseCall, TypeOK, Goto
<1>7. ASSUME NEW t \in Callers, Shutdown(t) PROVE SidsKnown'
  BY <1>0, <1>7 DEF Shutdown, Destroy, TypeOK, Enter
<1>8. ASSUME NEW t \in Callers, PrefixCheck(t) PROVE SidsKnown'
  BY <1>0, <1>8 DEF PrefixCheck, TypeOK, Goto, Return, Enter
<1>9. ASSUME NEW t \in Callers, SendPush(t) PROVE SidsKnown'
  <2> DEFINE e == StreamEvent(call[t].sid, call[t].chunk)
  <2>1. e.type = "STREAM" /\ e.sid \in DOMAIN streams
    BY <1>9 DEF SendPush, StreamEvent
  <2> HIDE DEF e
  <2>2. queue' = Append(queue, e) /\ queue \in Seq(Event) /\ UNCHANGED <<streams, wire>>
    BY <1>9 DEF SendPush, TypeOK, e
  <2>3. \A i \in 1 .. Len(queue') :
           queue'[i].type = "STREAM" => queue'[i].sid \in DOMAIN streams
    BY <2>1, <2>2
  <2>4. \A u \in Callers : pc'[u] \in {"prefix", "push", "mark"} =>
           pc[u] \in {"prefix", "push", "mark"} /\ call'[u] = call[u]
    BY <1>9 DEF SendPush, TypeOK, Goto, Return, Enter
  <2>. QED  BY <2>2, <2>3, <2>4
<1>10. ASSUME NEW t \in Callers, SendMark(t) PROVE SidsKnown'
  BY <1>0, <1>10 DEF SendMark, TypeOK, Return, Enter
<1>11. ASSUME NEW t \in Callers, CloseClaim(t) PROVE SidsKnown'
  BY <1>0, <1>11 DEF CloseClaim, TypeOK, AfterClose, Goto, Return, Enter
<1>12. ASSUME NEW t \in Callers, ClosePush(t) PROVE SidsKnown'
  BY <1>0, <1>12 DEF ClosePush, TypeOK, Goto, ControlEvent
<1>13. ASSUME NEW t \in Callers, CloseWait(t) PROVE SidsKnown'
  BY <1>0, <1>13 DEF CloseWait, TypeOK, AfterClose, Goto, Return, Enter
<1>14. ASSUME NEW t \in Callers, NotifyClaim(t) PROVE SidsKnown'
  BY <1>0, <1>14 DEF NotifyClaim, TypeOK, Goto, Return, Enter
<1>15. ASSUME NEW t \in Callers, NotifyCall(t) PROVE SidsKnown'
  BY <1>0, <1>15 DEF NotifyCall, TypeOK, Return, Enter
<1>16. ASSUME LoopDispatch PROVE SidsKnown'
  <2> DEFINE e == Head(queue)
  <2>1. /\ queue # <<>> /\ queue \in Seq(Event) /\ queue' = Tail(queue)
        /\ e = queue[1] /\ e \in Event
    BY <1>16 DEF LoopDispatch, TypeOK
  <2>2. Len(queue') = Len(queue) - 1 /\ \A i \in 1 .. Len(queue') : queue'[i] = queue[i + 1]
    BY <2>1
  <2>3. \A i \in 1 .. Len(queue') :
           queue'[i].type = "STREAM" => queue'[i].sid \in DOMAIN streams
    BY <2>1, <2>2
  <2>4. e.type = "STREAM" => e.sid \in DOMAIN streams
    BY <2>1
  <2> HIDE DEF e
  <2>5. /\ \/ wire' = wire
           \/ e.type = "STREAM" /\ wire' = [wire EXCEPT ![e.sid] = Append(@, e.chunk)]
        /\ UNCHANGED <<streams, pc, call>>
    BY <1>16 DEF LoopDispatch, e
  <2>6. \A sid \in Sids : wire'[sid] # <<>> => sid \in DOMAIN streams
    BY <2>4, <2>5 DEF TypeOK
  <2>. QED  BY <2>3, <2>5, <2>6
<1>17. ASSUME CallbackReady PROVE SidsKnown'
  BY <1>0, <1>17 DEF CallbackReady
<1>18. ASSUME NEW sid \in Sids, NEW fin \in BOOLEAN, CallbackStream(sid, fin) PROVE SidsKnown'
  BY <1>0, <1>18 DEF CallbackStream
<1>19. ASSUME NEW sid \in Sids, CallbackReset(sid) PROVE SidsKnown'
  BY <1>0, <1>19 DEF CallbackReset
<1>20. ASSUME NEW sid \in Sids, CallbackStop(sid) PROVE SidsKnown'
  BY <1>0, <1>20 DEF CallbackStop
<1>21. ASSUME CallbackClose PROVE SidsKnown'
  BY <1>0, <1>21 DEF CallbackClose, TypeOK, Goto
<1>22. CASE UNCHANGED vars
  BY <1>0, <1>22 DEF vars
<1>23. ASSUME LoopFinalize PROVE SidsKnown'
  BY <1>0, <1>23 DEF LoopFinalize, Destroy, TypeOK, Enter
<1>. QED
  BY <1>1, <1>2, <1>3, <1>4, <1>5, <1>6, <1>7, <1>8, <1>9, <1>10, <1>11, <1>12, <1>13, <1>14, <1>15, <1>16, <1>17, <1>18, <1>19, <1>20, <1>21, <1>22, <1>23 DEF Next, Api, Continue, Peer

LEMMA SidsNat == Sids \subseteq Nat
<1>1. ASSUME NEW sid \in NewSids PROVE sid \in Nat
  <2>1. PICK id \in 0 .. MaxNew, bidi \in BOOLEAN : sid = BuildStreamId(id, ~IsServer, bidi)
    BY DEF NewSids
  <2>. QED  BY <2>1, ConnectionAssumption DEF BuildStreamId
<1>. QED  BY <1>1, ConnectionAssumption DEF Sids

LEMMA LocalIdsInit == Init => LocalIdsIssued
BY DEF Init, LocalIdsIssued

\* A step that leaves the counters and adds no stream of ours.
LEMMA LocalIdsKept ==
    ASSUME LocalIdsIssued, next' = next,
           \A sid \in DOMAIN streams' : Local(sid) => sid \in DOMAIN streams
    PROVE  LocalIdsIssued'
BY DEF LocalIdsIssued

LEMMA LocalIdsNext ==
    ASSUME StreamInv, [Next]_vars
    PROVE  LocalIdsIssued'
<1> USE DEF connVars, closeVars, picoVars, histVars, StreamInv
<1>0. ASSUME UNCHANGED streams, UNCHANGED next PROVE LocalIdsIssued'
  BY <1>0, LocalIdsKept
<1>1. ASSUME NEW t \in Callers, NEW bidi \in BOOLEAN, NewStreamId(t, bidi) PROVE LocalIdsIssued'
  <2> DEFINE id  == IF bidi THEN next.bidi ELSE next.uni
             sid == BuildStreamId(id, ~IsServer, bidi)
  <2>1. id \in Nat /\ (~IsServer) \in BOOLEAN
    BY ConnectionAssumption DEF TypeOK
  <2>2. ActualId(sid) = id /\ (Bidirectional(sid) <=> bidi)
    BY <2>1, StreamIdRoundTrip
  <2>3. DOMAIN streams' = DOMAIN streams \cup {sid}
    BY <1>1 DEF NewStreamId, Put
  <2>4. /\ next'.bidi = (IF bidi THEN next.bidi + 1 ELSE next.bidi)
        /\ next'.uni = (IF bidi THEN next.uni ELSE next.uni + 1)
    BY <1>1 DEF NewStreamId, TypeOK, Advance
  <2>5. next.bidi \in Nat /\ next.uni \in Nat
    BY DEF TypeOK
  <2>6. ActualId(sid) < (IF Bidirectional(sid) THEN next'.bidi ELSE next'.uni)
    BY <2>1, <2>2, <2>4, <2>5
  <2> HIDE DEF sid
  <2>7. ASSUME NEW s \in DOMAIN streams, Local(s)
        PROVE  ActualId(s) < (IF Bidirectional(s) THEN next'.bidi ELSE next'.uni)
    <3>1. ActualId(s) \in Nat /\ ActualId(s) < (IF Bidirectional(s) THEN next.bidi ELSE next.uni)
      BY <2>7, SidsNat DEF LocalIdsIssued, TypeOK, ActualId
    <3>. QED  BY <2>4, <2>5, <3>1
  <2>. QED  BY <2>3, <2>6, <2>7 DEF LocalIdsIssued
<1>2. ASSUME NEW t \in Callers, NEW sid \in Sids, NEW fin \in BOOLEAN, SendCheck(t, sid, fin) PROVE LocalIdsIssued'
  BY <1>0, <1>2 DEF SendCheck
<1>3. ASSUME NEW t \in Callers, SendDatagram(t) PROVE LocalIdsIssued'
  BY <1>0, <1>3 DEF SendDatagram
<1>4. ASSUME NEW t \in Callers, NEW sid \in Sids, ResetStream(t, sid) PROVE LocalIdsIssued'
  <2>1. DOMAIN streams' = DOMAIN streams /\ next' = next
    BY <1>4 DEF ResetStream, EndStream
  <2>. QED  BY <2>1, LocalIdsKept
<1>5. ASSUME NEW t \in Callers, NEW sid \in Sids, StopSendingStream(t, sid) PROVE LocalIdsIssued'
  <2>1. DOMAIN streams' = DOMAIN streams /\ next' = next
    BY <1>5 DEF StopSendingStream, EndStream
  <2>. QED  BY <2>1, LocalIdsKept
<1>6. ASSUME NEW t \in Callers, CloseCall(t) PROVE LocalIdsIssued'
  BY <1>0, <1>6 DEF CloseCall
<1>7. ASSUME NEW t \in Callers, Shutdown(t) PROVE LocalIdsIssued'
  BY <1>0, <1>7 DEF Shutdown
<1>8. ASSUME NEW t \in Callers, PrefixCheck(t) PROVE LocalIdsIssued'
  BY <1>0, <1>8 DEF PrefixCheck
<1>9. ASSUME NEW t \in Callers, SendPush(t) PROVE LocalIdsIssued'
  BY <1>0, <1>9 DEF SendPush
<1>10. ASSUME NEW t \in Callers, SendMark(t) PROVE LocalIdsIssued'
  <2>1. DOMAIN streams' = DOMAIN streams /\ next' = next
    BY <1>10 DEF SendMark
  <2>. QED  BY <2>1, LocalIdsKept
<1>11. ASSUME NEW t \in Callers, CloseClaim(t) PROVE LocalIdsIssued'
  BY <1>0, <1>11 DEF CloseClaim
<1>12. ASSUME NEW t \in Callers, ClosePush(t) PROVE LocalIdsIssued'
  BY <1>0, <1>12 DEF ClosePush
<1>13. ASSUME NEW t \in Callers, CloseWait(t) PROVE LocalIdsIssued'
  BY <1>0, <1>13 DEF CloseWait
<1>14. ASSUME NEW t \in Callers, NotifyClaim(t) PROVE LocalIdsIssued'
  BY <1>0, <1>14 DEF NotifyClaim
<1>15. ASSUME NEW t \in Callers, NotifyCall(t) PROVE LocalIdsIssued'
  BY <1>0, <1>15 DEF NotifyCall
<1>16. ASSUME LoopDispatch PROVE LocalIdsIssued'
  BY <1>0, <1>16 DEF LoopDispatch
<1>17. ASSUME CallbackReady PROVE LocalIdsIssued'
  BY <1>0, <1>17 DEF CallbackReady
<1>18. ASSUME NEW sid \in Sids, NEW fin \in BOOLEAN, CallbackStream(sid, fin) PROVE LocalIdsIssued'
  <2>1. Local(sid) => sid \in DOMAIN streams
    BY <1>18 DEF CallbackStream, PeerCanSend, SidsKnown
  <2>2. DOMAIN streams' = DOMAIN streams \cup {sid} /\ next' = next
    BY <1>18 DEF CallbackStream, Put
  <2>. QED  BY <2>1, <2>2, LocalIdsKept
<1>19. ASSUME NEW sid \in Sids, CallbackReset(sid) PROVE LocalIdsIssued'
  <2>1. DOMAIN streams' = DOMAIN streams /\ next' = next
    BY <1>19 DEF CallbackReset
  <2>. QED  BY <2>1, LocalIdsKept
<1>20. ASSUME NEW sid \in Sids, CallbackStop(sid) PROVE LocalIdsIssued'
  <2>1. DOMAIN streams' = DOMAIN streams /\ next' = next
    BY <1>20 DEF CallbackStop
  <2>. QED  BY <2>1, LocalIdsKept
<1>21. ASSUME CallbackClose PROVE LocalIdsIssued'
  BY <1>0, <1>21 DEF CallbackClose
<1>22. CASE UNCHANGED vars
  BY <1>0, <1>22 DEF vars
<1>23. ASSUME LoopFinalize PROVE LocalIdsIssued'
  BY <1>0, <1>23 DEF LoopFinalize
<1>. QED
  BY <1>1, <1>2, <1>3, <1>4, <1>5, <1>6, <1>7, <1>8, <1>9, <1>10, <1>11, <1>12, <1>13, <1>14, <1>15, <1>16, <1>17, <1>18, <1>19, <1>20, <1>21, <1>22, <1>23 DEF Next, Api, Continue, Peer

LEMMA StreamInvariant == Spec => []StreamInv
<1>1. Init => StreamInv
  BY TypeInit, SidsKnownInit, LocalIdsInit DEF StreamInv
<1>2. StreamInv /\ [Next]_vars => StreamInv'
  BY TypeNext, SidsKnownNext, LocalIdsNext DEF StreamInv
<1>. QED  BY <1>1, <1>2, PTL DEF Spec

\* The step of FreshIds.
FreshStep ==
    \/ /\ next' = next
       /\ \A sid \in DOMAIN streams' \ DOMAIN streams : ~Local(sid)
    \/ \E sid \in Sids :
          /\ Local(sid)
          /\ sid \notin DOMAIN streams
          /\ streams' = Put(streams, sid, StreamCreate)

LEMMA FreshNext ==
    ASSUME StreamInv, [Next]_vars
    PROVE  FreshStep
<1> USE DEF connVars, closeVars, picoVars, histVars, StreamInv
<1>0. ASSUME DOMAIN streams' = DOMAIN streams, next' = next PROVE FreshStep
  BY <1>0 DEF FreshStep
<1>1. ASSUME NEW t \in Callers, NEW bidi \in BOOLEAN, NewStreamId(t, bidi) PROVE FreshStep
  <2> DEFINE id  == IF bidi THEN next.bidi ELSE next.uni
             sid == BuildStreamId(id, ~IsServer, bidi)
  <2>1. sid \notin DOMAIN streams
    BY NewSidFresh
  <2>2. id \in 0 .. MaxNew /\ (~IsServer) \in BOOLEAN
    BY <1>1, ConnectionAssumption DEF NewStreamId, TypeOK
  <2>3. sid \in Sids
    BY <2>2, NewSidType
  <2>4. Local(sid)
    <3>1. id \in Nat
      BY <2>2, ConnectionAssumption
    <3>2. ClientInitiated(sid) <=> ~IsServer
      BY <2>2, <3>1, StreamIdRoundTrip
    <3>. QED  BY <3>2 DEF Local
  <2>5. streams' = Put(streams, sid, StreamCreate)
    BY <1>1 DEF NewStreamId
  <2> HIDE DEF sid
  <2>. QED  BY <2>1, <2>3, <2>4, <2>5 DEF FreshStep
<1>2. ASSUME NEW t \in Callers, NEW sid \in Sids, NEW fin \in BOOLEAN, SendCheck(t, sid, fin) PROVE FreshStep
  BY <1>0, <1>2 DEF SendCheck
<1>3. ASSUME NEW t \in Callers, SendDatagram(t) PROVE FreshStep
  BY <1>0, <1>3 DEF SendDatagram
<1>4. ASSUME NEW t \in Callers, NEW sid \in Sids, ResetStream(t, sid) PROVE FreshStep
  <2>1. DOMAIN streams' = DOMAIN streams /\ next' = next
    BY <1>4 DEF ResetStream, EndStream
  <2>. QED  BY <2>1, <1>0
<1>5. ASSUME NEW t \in Callers, NEW sid \in Sids, StopSendingStream(t, sid) PROVE FreshStep
  <2>1. DOMAIN streams' = DOMAIN streams /\ next' = next
    BY <1>5 DEF StopSendingStream, EndStream
  <2>. QED  BY <2>1, <1>0
<1>6. ASSUME NEW t \in Callers, CloseCall(t) PROVE FreshStep
  BY <1>0, <1>6 DEF CloseCall
<1>7. ASSUME NEW t \in Callers, Shutdown(t) PROVE FreshStep
  BY <1>0, <1>7 DEF Shutdown
<1>8. ASSUME NEW t \in Callers, PrefixCheck(t) PROVE FreshStep
  BY <1>0, <1>8 DEF PrefixCheck
<1>9. ASSUME NEW t \in Callers, SendPush(t) PROVE FreshStep
  BY <1>0, <1>9 DEF SendPush
<1>10. ASSUME NEW t \in Callers, SendMark(t) PROVE FreshStep
  <2>1. DOMAIN streams' = DOMAIN streams /\ next' = next
    BY <1>10 DEF SendMark
  <2>. QED  BY <2>1, <1>0
<1>11. ASSUME NEW t \in Callers, CloseClaim(t) PROVE FreshStep
  BY <1>0, <1>11 DEF CloseClaim
<1>12. ASSUME NEW t \in Callers, ClosePush(t) PROVE FreshStep
  BY <1>0, <1>12 DEF ClosePush
<1>13. ASSUME NEW t \in Callers, CloseWait(t) PROVE FreshStep
  BY <1>0, <1>13 DEF CloseWait
<1>14. ASSUME NEW t \in Callers, NotifyClaim(t) PROVE FreshStep
  BY <1>0, <1>14 DEF NotifyClaim
<1>15. ASSUME NEW t \in Callers, NotifyCall(t) PROVE FreshStep
  BY <1>0, <1>15 DEF NotifyCall
<1>16. ASSUME LoopDispatch PROVE FreshStep
  BY <1>0, <1>16 DEF LoopDispatch
<1>17. ASSUME CallbackReady PROVE FreshStep
  BY <1>0, <1>17 DEF CallbackReady
<1>18. ASSUME NEW sid \in Sids, NEW fin \in BOOLEAN, CallbackStream(sid, fin) PROVE FreshStep
  <2>1. Local(sid) => sid \in DOMAIN streams
    BY <1>18 DEF CallbackStream, PeerCanSend, SidsKnown
  <2>2. DOMAIN streams' = DOMAIN streams \cup {sid} /\ next' = next
    BY <1>18 DEF CallbackStream, Put
  <2>. QED  BY <2>1, <2>2 DEF FreshStep
<1>19. ASSUME NEW sid \in Sids, CallbackReset(sid) PROVE FreshStep
  <2>1. DOMAIN streams' = DOMAIN streams /\ next' = next
    BY <1>19 DEF CallbackReset
  <2>. QED  BY <2>1, <1>0
<1>20. ASSUME NEW sid \in Sids, CallbackStop(sid) PROVE FreshStep
  <2>1. DOMAIN streams' = DOMAIN streams /\ next' = next
    BY <1>20 DEF CallbackStop
  <2>. QED  BY <2>1, <1>0
<1>21. ASSUME CallbackClose PROVE FreshStep
  BY <1>0, <1>21 DEF CallbackClose
<1>22. CASE UNCHANGED vars
  BY <1>0, <1>22 DEF vars
<1>23. ASSUME LoopFinalize PROVE FreshStep
  BY <1>0, <1>23 DEF LoopFinalize
<1>. QED
  BY <1>1, <1>2, <1>3, <1>4, <1>5, <1>6, <1>7, <1>8, <1>9, <1>10, <1>11, <1>12, <1>13, <1>14, <1>15, <1>16, <1>17, <1>18, <1>19, <1>20, <1>21, <1>22, <1>23 DEF Next, Api, Continue, Peer

(***************************************************************************)
(* Whichever threads open streams, an ID that                              *)
(* imquic_connection_new_stream_id returns is one of this end's and no     *)
(* stream in the table has it: no call returns it twice, and it is never   *)
(* one the peer has used or could.                                         *)
(***************************************************************************)
THEOREM NewIdsFresh == Spec => FreshIds
<1>1. StreamInv /\ [Next]_vars => [FreshStep]_<<streams, next>>
  BY FreshNext
<1>2. Spec => [][FreshStep]_<<streams, next>>
  BY <1>1, StreamInvariant, PTL DEF Spec
<1>. QED  BY <1>2 DEF FreshIds, FreshStep

\* The step of EndedStaysEnded.
EndedKept ==
    \A sid \in DOMAIN streams :
        /\ streams[sid].out >= RESET => streams'[sid].out >= RESET
        /\ streams[sid].in >= RESET => streams'[sid].in >= RESET

LEMMA EndedNext ==
    ASSUME StreamInv, [Next]_vars
    PROVE  EndedKept
<1> USE DEF connVars, closeVars, picoVars, histVars, StreamInv
<1>0. ASSUME UNCHANGED streams PROVE EndedKept
  BY <1>0 DEF EndedKept
<1>1. ASSUME NEW t \in Callers, NEW bidi \in BOOLEAN, NewStreamId(t, bidi) PROVE EndedKept
  <2> DEFINE id  == IF bidi THEN next.bidi ELSE next.uni
             sid == BuildStreamId(id, ~IsServer, bidi)
  <2>1. sid \notin DOMAIN streams
    BY NewSidFresh
  <2>2. \A s \in DOMAIN streams : streams'[s] = streams[s]
    BY <1>1, <2>1 DEF NewStreamId, Put
  <2>. QED  BY <2>2 DEF EndedKept
<1>2. ASSUME NEW t \in Callers, NEW sid \in Sids, NEW fin \in BOOLEAN, SendCheck(t, sid, fin) PROVE EndedKept
  BY <1>0, <1>2 DEF SendCheck
<1>3. ASSUME NEW t \in Callers, SendDatagram(t) PROVE EndedKept
  BY <1>0, <1>3 DEF SendDatagram
<1>4. ASSUME NEW t \in Callers, NEW sid \in Sids, ResetStream(t, sid) PROVE EndedKept
  <2> DEFINE st  == streams[sid]
             new == [st EXCEPT !.out = RESET]
  <2>1. CASE streams' = streams
    BY <1>0, <2>1
  <2>2. CASE sid \in DOMAIN streams /\ streams' = [streams EXCEPT ![sid] = new]
    <3>1. st \in Stream
      BY <2>2 DEF TypeOK
    <3>2. new.out >= RESET /\ (st.in >= RESET => new.in >= RESET)
      BY <3>1 DEF MarkComplete, Stream, StreamState, INACTIVE, READY, BLOCKED, RESET, COMPLETE
    <3> HIDE DEF new
    <3>. QED  BY <2>2, <3>2 DEF EndedKept
  <2>3. EndStream(sid, "RESET_STREAM", streams[sid].out, new)
    BY <1>4 DEF ResetStream
  <2> HIDE DEF new
  <2>4. streams' = streams \/ (sid \in DOMAIN streams /\ streams' = [streams EXCEPT ![sid] = new])
    BY <2>3 DEF EndStream
  <2>. QED  BY <2>1, <2>2, <2>4
<1>5. ASSUME NEW t \in Callers, NEW sid \in Sids, StopSendingStream(t, sid) PROVE EndedKept
  <2> DEFINE st  == streams[sid]
             new == [MarkComplete(st, FALSE) EXCEPT !.in = RESET]
  <2>1. CASE streams' = streams
    BY <1>0, <2>1
  <2>2. CASE sid \in DOMAIN streams /\ streams' = [streams EXCEPT ![sid] = new]
    <3>1. st \in Stream
      BY <2>2 DEF TypeOK
    <3>2. new.out >= RESET /\ (st.in >= RESET => new.in >= RESET)
      BY <3>1 DEF MarkComplete, Stream, StreamState, INACTIVE, READY, BLOCKED, RESET, COMPLETE
    <3> HIDE DEF new
    <3>. QED  BY <2>2, <3>2 DEF EndedKept
  <2>3. EndStream(sid, "STOP_SENDING", streams[sid].in, new)
    BY <1>5 DEF StopSendingStream
  <2> HIDE DEF new
  <2>4. streams' = streams \/ (sid \in DOMAIN streams /\ streams' = [streams EXCEPT ![sid] = new])
    BY <2>3 DEF EndStream
  <2>. QED  BY <2>1, <2>2, <2>4
<1>6. ASSUME NEW t \in Callers, CloseCall(t) PROVE EndedKept
  BY <1>0, <1>6 DEF CloseCall
<1>7. ASSUME NEW t \in Callers, Shutdown(t) PROVE EndedKept
  BY <1>0, <1>7 DEF Shutdown
<1>8. ASSUME NEW t \in Callers, PrefixCheck(t) PROVE EndedKept
  BY <1>0, <1>8 DEF PrefixCheck
<1>9. ASSUME NEW t \in Callers, SendPush(t) PROVE EndedKept
  BY <1>0, <1>9 DEF SendPush
<1>10. ASSUME NEW t \in Callers, SendMark(t) PROVE EndedKept
  BY <1>10 DEF EndedKept, SendMark, MarkComplete, TypeOK, Stream, StreamState, INACTIVE, READY, BLOCKED, RESET, COMPLETE
<1>11. ASSUME NEW t \in Callers, CloseClaim(t) PROVE EndedKept
  BY <1>0, <1>11 DEF CloseClaim
<1>12. ASSUME NEW t \in Callers, ClosePush(t) PROVE EndedKept
  BY <1>0, <1>12 DEF ClosePush
<1>13. ASSUME NEW t \in Callers, CloseWait(t) PROVE EndedKept
  BY <1>0, <1>13 DEF CloseWait
<1>14. ASSUME NEW t \in Callers, NotifyClaim(t) PROVE EndedKept
  BY <1>0, <1>14 DEF NotifyClaim
<1>15. ASSUME NEW t \in Callers, NotifyCall(t) PROVE EndedKept
  BY <1>0, <1>15 DEF NotifyCall
<1>16. ASSUME LoopDispatch PROVE EndedKept
  BY <1>0, <1>16 DEF LoopDispatch
<1>17. ASSUME CallbackReady PROVE EndedKept
  BY <1>0, <1>17 DEF CallbackReady
<1>18. ASSUME NEW sid \in Sids, NEW fin \in BOOLEAN, CallbackStream(sid, fin) PROVE EndedKept
  BY <1>18 DEF EndedKept, CallbackStream, MarkComplete, Put, TypeOK, Stream, StreamState, INACTIVE, READY, BLOCKED, RESET, COMPLETE
<1>19. ASSUME NEW sid \in Sids, CallbackReset(sid) PROVE EndedKept
  BY <1>19 DEF EndedKept, CallbackReset, TypeOK, Stream, StreamState, INACTIVE, READY, BLOCKED, RESET, COMPLETE
<1>20. ASSUME NEW sid \in Sids, CallbackStop(sid) PROVE EndedKept
  BY <1>20 DEF EndedKept, CallbackStop, TypeOK, Stream, StreamState, INACTIVE, READY, BLOCKED, RESET, COMPLETE, Stopped
<1>21. ASSUME CallbackClose PROVE EndedKept
  BY <1>0, <1>21 DEF CallbackClose
<1>22. CASE UNCHANGED vars
  BY <1>0, <1>22 DEF vars
<1>23. ASSUME LoopFinalize PROVE EndedKept
  BY <1>0, <1>23 DEF LoopFinalize
<1>. QED
  BY <1>1, <1>2, <1>3, <1>4, <1>5, <1>6, <1>7, <1>8, <1>9, <1>10, <1>11, <1>12, <1>13, <1>14, <1>15, <1>16, <1>17, <1>18, <1>19, <1>20, <1>21, <1>22, <1>23 DEF Next, Api, Continue, Peer

(***************************************************************************)
(* No step of any thread opens again a direction of a stream that ended.   *)
(***************************************************************************)
THEOREM Ended == Spec => EndedStaysEnded
<1>1. StreamInv /\ [Next]_vars => [EndedKept]_streams
  BY EndedNext
<1>2. Spec => [][EndedKept]_streams
  BY <1>1, StreamInvariant, PTL DEF Spec
<1>. QED  BY <1>2 DEF EndedStaysEnded, EndedKept

-----------------------------------------------------------------------------
(* The end of a connection                                                 *)

(***************************************************************************)
(* Why the application is told once.  The thread between its claim of      *)
(* "notified_close" and its callback is the only one, the claim precedes   *)
(* every final callback, and a thread on its way to claim because it       *)
(* destroys the endpoint has already detached the network source, so no    *)
(* connection is announced behind its back.                                *)
(***************************************************************************)
Notifiers == {t \in Callers : pc[t] = "notify"}

NotifyInv ==
    /\ ToldOnce
    /\ established <=> told \in {<<"new">>, <<"new", "gone">>}
    /\ \A t, u \in Notifiers : t = u
    /\ Notifiers # {} => notified_close /\ told \in {<<>>, <<"new">>}
    /\ told \in {<<"failed">>, <<"new", "gone">>} => notified_close
    /\ notified_close => ~source \/ pico = "closed"
    /\ deferred => ~source
    /\ \A t \in Callers : call[t].destroy \/ pc[t] = "gonecas" => ~source

LEMMA ToldBoth == Append(<<"new">>, "gone") = <<"new", "gone">>
<1> DEFINE s == Append(<<"new">>, "gone")
           T == {"new", "gone"}
<1>1. s \in Seq(T) /\ Len(s) = 2 /\ s[1] = "new" /\ s[2] = "gone"
  OBVIOUS
<1>2. <<"new", "gone">> \in Seq(T) /\ Len(<<"new", "gone">>) = 2
  OBVIOUS
<1> HIDE DEF s
<1>3. \A i \in 1 .. Len(s) : s[i] = <<"new", "gone">>[i]
  BY <1>1
<1>. QED  BY <1>1, <1>2, <1>3, SeqEqual DEF s

LEMMA NotifyInit == Init => NotifyInv
BY DEF Init, NotifyInv, ToldOnce, Notifiers, NoCall

\* A step that neither notifies nor moves a thread towards notifying.
LEMMA NotifyKept ==
    ASSUME NotifyInv, UNCHANGED <<told, established, notified_close, source, deferred>>,
           pico' = pico \/ pico # "closed",
           \A t \in Callers : pc'[t] = "notify" => pc[t] = "notify",
           \A t \in Callers : call'[t].destroy \/ pc'[t] = "gonecas"
                                 => call[t].destroy \/ pc[t] = "gonecas"
    PROVE  NotifyInv'
<1>1. Notifiers' \subseteq Notifiers
  BY DEF Notifiers
<1>. QED  BY <1>1 DEF NotifyInv, ToldOnce

LEMMA NotifyNext ==
    ASSUME TypeOK, NotifyInv, [Next]_vars
    PROVE  NotifyInv'
<1> USE DEF connVars, closeVars, picoVars, histVars
<1>1. ASSUME NEW t \in Callers, NEW bidi \in BOOLEAN, NewStreamId(t, bidi) PROVE NotifyInv'
  <2> DEFINE id   == IF bidi THEN next.bidi ELSE next.uni
             args == [NoCall EXCEPT !.sid = BuildStreamId(id, ~IsServer, bidi)]
  <2>2. ~args.destroy
    BY DEF NoCall
  <2> HIDE DEF args
  <2>3. UNCHANGED <<pc, call>> \/ Enter(t, "prefix", args)
    BY <1>1 DEF NewStreamId, args, Opening
  <2>4. \A u \in Callers : /\ pc'[u] \in {"notify", "gonecas"} => pc'[u] = pc[u]
                           /\ call'[u].destroy => call[u].destroy
    BY <2>2, <2>3 DEF Enter, TypeOK
  <2>5. UNCHANGED <<told, established, notified_close, source, deferred, pico>>
    BY <1>1 DEF NewStreamId
  <2>. QED  BY <2>4, <2>5, NotifyKept
<1>2. ASSUME NEW t \in Callers, NEW sid \in Sids, NEW fin \in BOOLEAN, SendCheck(t, sid, fin) PROVE NotifyInv'
  BY <1>2, NotifyKept DEF SendCheck, TypeOK, Enter
<1>3. ASSUME NEW t \in Callers, SendDatagram(t) PROVE NotifyInv'
  BY <1>3, NotifyKept DEF SendDatagram, TypeOK
<1>4. ASSUME NEW t \in Callers, NEW sid \in Sids, ResetStream(t, sid) PROVE NotifyInv'
  BY <1>4, NotifyKept DEF ResetStream, TypeOK
<1>5. ASSUME NEW t \in Callers, NEW sid \in Sids, StopSendingStream(t, sid) PROVE NotifyInv'
  BY <1>5, NotifyKept DEF StopSendingStream, TypeOK
<1>6. ASSUME NEW t \in Callers, CloseCall(t) PROVE NotifyInv'
  BY <1>6, NotifyKept DEF CloseCall, TypeOK, Goto
<1>7. ASSUME NEW t \in Callers, Shutdown(t) PROVE NotifyInv'
  <2>1. ~source' /\ UNCHANGED <<told, established, notified_close, pico>>
    BY <1>7 DEF Shutdown
  <2>2. \A u \in Callers : pc'[u] = "notify" => pc[u] = "notify"
    BY <1>7 DEF Shutdown, Destroy, Enter, TypeOK
  <2>3. Notifiers' \subseteq Notifiers
    BY <2>2 DEF Notifiers
  <2>. QED  BY <2>1, <2>3 DEF NotifyInv, ToldOnce
<1>8. ASSUME NEW t \in Callers, PrefixCheck(t) PROVE NotifyInv'
  BY <1>8, NotifyKept DEF PrefixCheck, TypeOK, Goto, Return, Enter, NoCall
<1>9. ASSUME NEW t \in Callers, SendPush(t) PROVE NotifyInv'
  BY <1>9, NotifyKept DEF SendPush, TypeOK, Goto, Return, Enter, NoCall
<1>10. ASSUME NEW t \in Callers, SendMark(t) PROVE NotifyInv'
  BY <1>10, NotifyKept DEF SendMark, TypeOK, Return, Enter, NoCall
<1>11. ASSUME NEW t \in Callers, CloseClaim(t) PROVE NotifyInv'
  BY <1>11, NotifyKept DEF CloseClaim, TypeOK, AfterClose, Goto, Return, Enter, NoCall
<1>12. ASSUME NEW t \in Callers, ClosePush(t) PROVE NotifyInv'
  BY <1>12, NotifyKept DEF ClosePush, TypeOK, Goto
<1>13. ASSUME NEW t \in Callers, CloseWait(t) PROVE NotifyInv'
  BY <1>13, NotifyKept DEF CloseWait, TypeOK, AfterClose, Goto, Return, Enter, NoCall
<1>14. ASSUME NEW t \in Callers, NotifyClaim(t) PROVE NotifyInv'
  <2>1. ~source /\ UNCHANGED <<told, established, source, deferred, pico>> /\ notified_close'
    BY <1>14 DEF NotifyClaim, NotifyInv
  <2>2. CASE notified_close
    BY <1>14, <2>1, <2>2, NotifyKept DEF NotifyClaim, TypeOK, Return, Enter, NoCall
  <2>3. CASE ~notified_close
    <3>1. Notifiers' = {t} /\ told \in {<<>>, <<"new">>}
      BY <1>14, <2>3 DEF NotifyClaim, NotifyInv, ToldOnce, Notifiers, TypeOK, Goto
    <3>. QED  BY <2>1, <3>1 DEF NotifyInv, ToldOnce
  <2>. QED  BY <2>2, <2>3
<1>15. ASSUME NEW t \in Callers, NotifyCall(t) PROVE NotifyInv'
  <2>1. /\ t \in Notifiers /\ notified_close /\ told \in {<<>>, <<"new">>}
        /\ UNCHANGED <<established, notified_close, source, deferred, pico>>
    BY <1>15 DEF NotifyCall, NotifyInv, Notifiers
  <2>2. Notifiers' = {} /\ ~call'[t].destroy /\ pc'[t] = "idle"
    BY <1>15, <2>1 DEF NotifyCall, NotifyInv, Notifiers, TypeOK, Return, Enter, NoCall
  <2>3. told' \in {<<>>, <<"failed">>, <<"new", "gone">>} /\ (established <=> told' = <<"new", "gone">>)
    <3>1. Append(<<>>, "failed") = <<"failed">>
      OBVIOUS
    <3>2. CASE established
      BY <1>15, <2>1, <3>2, ToldBoth DEF NotifyCall, NotifyInv
    <3>3. CASE ~established
      <4>1. told = <<>>
        BY <2>1, <3>3 DEF NotifyInv
      <4>2. told' \in {<<>>, <<"failed">>}
        BY <1>15, <3>1, <3>3, <4>1 DEF NotifyCall
      <4>. QED  BY <3>3, <4>2
    <3>. QED  BY <3>2, <3>3
  <2>4. \A u \in Callers \ {t} : call'[u] = call[u] /\ pc'[u] = pc[u]
    BY <1>15 DEF NotifyCall, TypeOK, Return, Enter
  <2>5. \A u \in Callers : call'[u].destroy \/ pc'[u] = "gonecas" => ~source'
    BY <2>1, <2>2, <2>4 DEF NotifyInv
  <2>. QED  BY <2>1, <2>2, <2>3, <2>5 DEF NotifyInv, ToldOnce
<1>16. ASSUME LoopDispatch PROVE NotifyInv'
  BY <1>16, NotifyKept DEF LoopDispatch, TypeOK
<1>17. ASSUME CallbackReady PROVE NotifyInv'
  <2>1. told = <<>> /\ ~notified_close /\ Notifiers = {}
    BY <1>17 DEF CallbackReady, Callback, NotifyInv, ToldOnce
  <2>2. told' = <<"new">> /\ established' /\ UNCHANGED <<pc, call, notified_close, source, deferred, pico>>
    BY <1>17, <2>1 DEF CallbackReady
  <2>. QED  BY <2>1, <2>2 DEF NotifyInv, ToldOnce, Notifiers
<1>18. ASSUME NEW sid \in Sids, NEW fin \in BOOLEAN, CallbackStream(sid, fin) PROVE NotifyInv'
  BY <1>18, NotifyKept DEF CallbackStream, TypeOK
<1>19. ASSUME NEW sid \in Sids, CallbackReset(sid) PROVE NotifyInv'
  BY <1>19, NotifyKept DEF CallbackReset, TypeOK
<1>20. ASSUME NEW sid \in Sids, CallbackStop(sid) PROVE NotifyInv'
  BY <1>20, NotifyKept DEF CallbackStop, TypeOK
<1>21. ASSUME CallbackClose PROVE NotifyInv'
  BY <1>21 DEF CallbackClose, TypeOK, NotifyInv, ToldOnce, Notifiers, Goto, Return, Enter, NoCall, Callback, LoopIdle
<1>22. CASE UNCHANGED vars
  BY <1>22, NotifyKept DEF vars, TypeOK
<1>23. ASSUME LoopFinalize PROVE NotifyInv'
  BY <1>23 DEF LoopFinalize, Destroy, TypeOK, NotifyInv, ToldOnce, Notifiers, Enter
<1>. QED
  BY <1>1, <1>2, <1>3, <1>4, <1>5, <1>6, <1>7, <1>8, <1>9, <1>10, <1>11, <1>12, <1>13, <1>14, <1>15, <1>16, <1>17, <1>18, <1>19, <1>20, <1>21, <1>22, <1>23 DEF Next, Api, Continue, Peer

(***************************************************************************)
(* The application is told of the end of a connection at most once, by the *)
(* callback that fits its start, whichever threads race to tell it.        *)
(***************************************************************************)
THEOREM TellsOnce == Spec => []ToldOnce
<1>1. Init => TypeOK /\ NotifyInv
  BY TypeInit, NotifyInit
<1>2. (TypeOK /\ NotifyInv) /\ [Next]_vars => (TypeOK /\ NotifyInv)'
  BY TypeNext, NotifyNext
<1>3. NotifyInv => ToldOnce
  BY DEF NotifyInv
<1>. QED  BY <1>1, <1>2, <1>3, PTL DEF Spec

\* A step that queues no CLOSE_CONN and leaves the claim alone.
LEMMA CloseKept ==
    ASSUME CloseOnce, UNCHANGED <<closing, pico>>,
           CloseEvents' \subseteq CloseEvents, ClosePushers' \subseteq ClosePushers
    PROVE  CloseOnce'
BY DEF CloseOnce

\* Pushing an event of another type adds no CLOSE_CONN.
LEMMA CloseEventsPush ==
    ASSUME TypeOK, NEW e, e.type # "CLOSE_CONN",
           queue' = Append(queue, e) \/ queue' = queue
    PROVE  CloseEvents' = CloseEvents
<1>1. queue \in Seq(Event)
  BY DEF TypeOK
<1>. QED  BY <1>1 DEF CloseEvents

LEMMA CloseNext ==
    ASSUME TypeOK, CloseOnce, [Next]_vars
    PROVE  CloseOnce'
<1> USE DEF connVars, closeVars, picoVars, histVars
<1>1. ASSUME NEW t \in Callers, NEW bidi \in BOOLEAN, NewStreamId(t, bidi) PROVE CloseOnce'
  BY <1>1, CloseKept DEF NewStreamId, TypeOK, CloseEvents, ClosePushers, Enter, Opening
<1>2. ASSUME NEW t \in Callers, NEW sid \in Sids, NEW fin \in BOOLEAN, SendCheck(t, sid, fin) PROVE CloseOnce'
  BY <1>2, CloseKept DEF SendCheck, TypeOK, CloseEvents, ClosePushers, Enter
<1>3. ASSUME NEW t \in Callers, SendDatagram(t) PROVE CloseOnce'
  <2>1. (ControlEvent("DATAGRAM", 0)).type # "CLOSE_CONN"
    BY DEF ControlEvent
  <2>2. CloseEvents' = CloseEvents
    BY <1>3, <2>1, CloseEventsPush DEF SendDatagram
  <2>3. ClosePushers' \subseteq ClosePushers /\ UNCHANGED <<closing, pico>>
    BY <1>3 DEF SendDatagram, ClosePushers, TypeOK
  <2>. QED  BY <2>2, <2>3, CloseKept
<1>4. ASSUME NEW t \in Callers, NEW sid \in Sids, ResetStream(t, sid) PROVE CloseOnce'
  <2>1. (ControlEvent("RESET_STREAM", sid)).type # "CLOSE_CONN"
    BY DEF ControlEvent
  <2>2. CloseEvents' = CloseEvents
    BY <1>4, <2>1, CloseEventsPush DEF ResetStream, EndStream
  <2>3. ClosePushers' \subseteq ClosePushers /\ UNCHANGED <<closing, pico>>
    BY <1>4 DEF ResetStream, ClosePushers, TypeOK
  <2>. QED  BY <2>2, <2>3, CloseKept
<1>5. ASSUME NEW t \in Callers, NEW sid \in Sids, StopSendingStream(t, sid) PROVE CloseOnce'
  <2>1. (ControlEvent("STOP_SENDING", sid)).type # "CLOSE_CONN"
    BY DEF ControlEvent
  <2>2. CloseEvents' = CloseEvents
    BY <1>5, <2>1, CloseEventsPush DEF StopSendingStream, EndStream
  <2>3. ClosePushers' \subseteq ClosePushers /\ UNCHANGED <<closing, pico>>
    BY <1>5 DEF StopSendingStream, ClosePushers, TypeOK
  <2>. QED  BY <2>2, <2>3, CloseKept
<1>6. ASSUME NEW t \in Callers, CloseCall(t) PROVE CloseOnce'
  BY <1>6, CloseKept DEF CloseCall, TypeOK, CloseEvents, ClosePushers, Goto
<1>7. ASSUME NEW t \in Callers, Shutdown(t) PROVE CloseOnce'
  BY <1>7, CloseKept DEF Shutdown, Destroy, TypeOK, CloseEvents, ClosePushers, Enter
<1>8. ASSUME NEW t \in Callers, PrefixCheck(t) PROVE CloseOnce'
  BY <1>8, CloseKept DEF PrefixCheck, TypeOK, CloseEvents, ClosePushers, Goto, Return, Enter
<1>9. ASSUME NEW t \in Callers, SendPush(t) PROVE CloseOnce'
  <2>1. (StreamEvent(call[t].sid, call[t].chunk)).type # "CLOSE_CONN"
    BY DEF StreamEvent
  <2>2. CloseEvents' = CloseEvents
    BY <1>9, <2>1, CloseEventsPush DEF SendPush
  <2>3. ClosePushers' \subseteq ClosePushers /\ UNCHANGED <<closing, pico>>
    BY <1>9 DEF SendPush, ClosePushers, TypeOK, Goto, Return, Enter
  <2>. QED  BY <2>2, <2>3, CloseKept
<1>10. ASSUME NEW t \in Callers, SendMark(t) PROVE CloseOnce'
  BY <1>10, CloseKept DEF SendMark, TypeOK, CloseEvents, ClosePushers, Return, Enter
<1>11. ASSUME NEW t \in Callers, CloseClaim(t) PROVE CloseOnce'
  <2>1. CloseEvents' = CloseEvents /\ closing' /\ pico' = pico
    BY <1>11 DEF CloseClaim, CloseEvents
  <2>2. CASE closing
    <3>1. ClosePushers' \subseteq ClosePushers
      BY <1>11, <2>2 DEF CloseClaim, ClosePushers, TypeOK, AfterClose, Goto, Return, Enter
    <3>. QED  BY <2>1, <2>2, <3>1 DEF CloseOnce
  <2>3. CASE ~closing
    <3>1. ClosePushers' = {t} /\ CloseEvents = {} /\ pico # "closing"
      BY <1>11, <2>3 DEF CloseClaim, ClosePushers, TypeOK, Goto, CloseOnce
    <3>. QED  BY <2>1, <3>1 DEF CloseOnce
  <2>. QED  BY <2>2, <2>3
<1>12. ASSUME NEW t \in Callers, ClosePush(t) PROVE CloseOnce'
  <2>1. queue \in Seq(Event) /\ queue' = Append(queue, ControlEvent("CLOSE_CONN", 0))
    BY <1>12 DEF ClosePush, TypeOK
  <2>2. CloseEvents = {} /\ ClosePushers = {t} /\ closing /\ pico # "closing"
    BY <1>12 DEF ClosePush, ClosePushers, CloseOnce
  <2>3. CloseEvents' = {Len(queue) + 1}
    BY <2>1, <2>2 DEF CloseEvents, ControlEvent
  <2>4. ClosePushers' = {} /\ UNCHANGED <<closing, pico>>
    BY <1>12, <2>2 DEF ClosePush, ClosePushers, TypeOK, Goto
  <2>. QED  BY <2>2, <2>3, <2>4 DEF CloseOnce
<1>13. ASSUME NEW t \in Callers, CloseWait(t) PROVE CloseOnce'
  BY <1>13, CloseKept DEF CloseWait, TypeOK, CloseEvents, ClosePushers, AfterClose, Goto, Return, Enter
<1>14. ASSUME NEW t \in Callers, NotifyClaim(t) PROVE CloseOnce'
  BY <1>14, CloseKept DEF NotifyClaim, TypeOK, CloseEvents, ClosePushers, Goto, Return, Enter
<1>15. ASSUME NEW t \in Callers, NotifyCall(t) PROVE CloseOnce'
  BY <1>15, CloseKept DEF NotifyCall, TypeOK, CloseEvents, ClosePushers, Return, Enter
<1>16. ASSUME LoopDispatch PROVE CloseOnce'
  <2>1. queue # <<>> /\ queue \in Seq(Event) /\ queue' = Tail(queue)
    BY <1>16 DEF LoopDispatch, TypeOK
  <2>2. /\ CloseEvents' = {i \in 1 .. Len(queue) - 1 : queue[i + 1].type = "CLOSE_CONN"}
        /\ \A i \in CloseEvents' : i + 1 \in CloseEvents
    BY <2>1 DEF CloseEvents
  <2>3. ClosePushers' = ClosePushers /\ closing' = closing
    BY <1>16 DEF LoopDispatch, ClosePushers
  <2>4. \A i, j \in CloseEvents' : i = j
    BY <2>2 DEF CloseOnce, CloseEvents
  <2>5. CASE queue[1].type = "CLOSE_CONN" /\ pico = "open"
    <3>1. 1 \in CloseEvents
      BY <2>1, <2>5 DEF CloseEvents
    <3>2. CloseEvents' = {} /\ ClosePushers = {} /\ closing
      BY <2>2, <3>1 DEF CloseOnce, CloseEvents
    <3>. QED  BY <2>3, <3>2 DEF CloseOnce
  <2>6. CASE ~(queue[1].type = "CLOSE_CONN" /\ pico = "open")
    <3>1. pico' = pico
      BY <1>16, <2>1, <2>6 DEF LoopDispatch
    <3>. QED  BY <2>2, <2>3, <2>4, <3>1 DEF CloseOnce
  <2>. QED  BY <2>5, <2>6
<1>17. ASSUME CallbackReady PROVE CloseOnce'
  BY <1>17, CloseKept DEF CallbackReady, TypeOK, CloseEvents, ClosePushers
<1>18. ASSUME NEW sid \in Sids, NEW fin \in BOOLEAN, CallbackStream(sid, fin) PROVE CloseOnce'
  BY <1>18, CloseKept DEF CallbackStream, TypeOK, CloseEvents, ClosePushers
<1>19. ASSUME NEW sid \in Sids, CallbackReset(sid) PROVE CloseOnce'
  BY <1>19, CloseKept DEF CallbackReset, TypeOK, CloseEvents, ClosePushers
<1>20. ASSUME NEW sid \in Sids, CallbackStop(sid) PROVE CloseOnce'
  BY <1>20, CloseKept DEF CallbackStop, TypeOK, CloseEvents, ClosePushers
<1>21. ASSUME CallbackClose PROVE CloseOnce'
  <2>1. CloseEvents' = CloseEvents /\ closing' = closing /\ pico' = "closed"
    BY <1>21 DEF CallbackClose, CloseEvents
  <2>2. ClosePushers' \subseteq ClosePushers
    BY <1>21 DEF CallbackClose, ClosePushers, TypeOK, Goto
  <2>. QED  BY <2>1, <2>2 DEF CloseOnce
<1>22. CASE UNCHANGED vars
  BY <1>22, CloseKept DEF vars, TypeOK, CloseEvents, ClosePushers
<1>23. ASSUME LoopFinalize PROVE CloseOnce'
  BY <1>23, CloseKept DEF LoopFinalize, Destroy, TypeOK, CloseEvents, ClosePushers, Enter
<1>. QED
  BY <1>1, <1>2, <1>3, <1>4, <1>5, <1>6, <1>7, <1>8, <1>9, <1>10, <1>11, <1>12, <1>13, <1>14, <1>15, <1>16, <1>17, <1>18, <1>19, <1>20, <1>21, <1>22, <1>23 DEF Next, Api, Continue, Peer

(***************************************************************************)
(* Whatever threads call imquic_connection_close, picoquic is asked to     *)
(* close the connection once.                                              *)
(***************************************************************************)
THEOREM ClosesOnce == Spec => []CloseOnce
<1>1. Init => TypeOK /\ CloseOnce
  BY TypeInit DEF Init, CloseOnce, CloseEvents, ClosePushers
<1>2. (TypeOK /\ CloseOnce) /\ [Next]_vars => (TypeOK /\ CloseOnce)'
  BY TypeNext, CloseNext
<1>. QED  BY <1>1, <1>2, PTL DEF Spec

=============================================================================
