-------------------------- MODULE ImquicSendProofs --------------------------
(***************************************************************************)
(* The way of a chunk from the thread that sends it to picoquic: the       *)
(* prefix of a WebTransport stream comes first (PrefixFirst), and when     *)
(* each stream has one writing thread, the event queue implements          *)
(* OrderedSend (SendsInOrder), for every set of threads, role and bound.   *)
(***************************************************************************)
EXTENDS ImquicConnectionProofs

-----------------------------------------------------------------------------
(* Invariants                                                              *)

\* Thread t is sending something on sid.
Sending(t, sid) == pc[t] \in {"prefix", "push", "mark"} /\ call[t].sid = sid

\* ... it is opening sid, and has not queued the prefix yet.
Opens(t, sid) == pc[t] \in {"prefix", "push"} /\ call[t].sid = sid /\ call[t].chunk = Prefix

(***************************************************************************)
(* A stream belongs to the thread that opens it until its prefix is        *)
(* queued: nobody else sends on it, and before the check of the prefix     *)
(* nothing of it exists that could make the check refuse.                  *)
(***************************************************************************)
NothingUnknown == \A sid \in Sids \ DOMAIN streams : accepted[sid] = <<>>

OneOpener ==
    \A t, u \in Callers, sid \in Sids : Opens(t, sid) /\ Sending(u, sid) => t = u

NothingSent ==
    \A t \in Callers :
        pc[t] = "prefix" =>
            LET sid == call[t].sid IN
            /\ sid \in NewSids
            /\ call[t].chunk = Prefix
            /\ streams[sid].out = INACTIVE
            /\ accepted[sid] = <<>>
            /\ wire[sid] = <<>>
            /\ \A i \in 1 .. Len(queue) : ~Carries(queue[i], sid)

OpeningInv == NothingUnknown /\ OneOpener /\ NothingSent

(***************************************************************************)
(* Once the call that opened a stream of ours has returned, its prefix is  *)
(* on the way.                                                             *)
(***************************************************************************)
Opened(sid) ==
    \/ pico # "open"
    \/ wire[sid] # <<>>
    \/ \E i \in 1 .. Len(queue) : Carries(queue[i], sid)

PrefixInv ==
    WebTransport =>
        /\ PrefixFirst
        /\ \A sid \in NewSids \cap DOMAIN streams :
              (\E t \in Callers : Opens(t, sid)) \/ Opened(sid)

(***************************************************************************)
(* With one writing thread per stream: the chunks accepted but not handed  *)
(* to picoquic are the ones in the queue, in order, and then the one its   *)
(* owner is about to push.  n[i] numbers the chunks of a stream up to      *)
(* event i of the queue q, when those of sent were handed over and those   *)
(* of acc accepted.                                                        *)
(***************************************************************************)
Numbering(sid, q, sent, acc, n) ==
    /\ n[0] = Len(sent)
    /\ \A i \in 1 .. Len(q) :
          IF Carries(q[i], sid)
          THEN n[i] = n[i - 1] + 1 /\ q[i].chunk = acc[n[i]]
          ELSE n[i] = n[i - 1]

\* The chunks are numbered, the last of them that is carried with the number last.
Numbered(sid, q, sent, acc, last) ==
    \E n \in [0 .. Len(q) -> 0 .. Len(acc)] : Numbering(sid, q, sent, acc, n) /\ n[Len(q)] = last

Pushing(t, sid) == pc[t] = "push" /\ call[t].sid = sid

InFlight(sid) ==
    \E n \in [0 .. Len(queue) -> 0 .. Len(accepted[sid])] :
        /\ Numbering(sid, queue, wire[sid], accepted[sid], n)
        /\ n[Len(queue)] + (IF \E t \in Callers : Pushing(t, sid) THEN 1 ELSE 0) = Len(accepted[sid])

OwnersSend == \A t \in Callers, sid \in Sids : Sending(t, sid) => owner[sid] = t

LastIsPushed ==
    \A t \in Callers, sid \in Sids :
        Pushing(t, sid) => accepted[sid] # <<>> /\ accepted[sid][Len(accepted[sid])] = call[t].chunk

\* After a FIN the stream is complete, or its owner is about to make it so.
FinishEnds ==
    \A sid \in Sids :
        Sends!Finished(sid) =>
            \/ streams[sid].out >= RESET
            \/ \E t \in Callers : pc[t] \in {"push", "mark"} /\ call[t].sid = sid /\ call[t].chunk.fin

OrderInv ==
    /\ OwnersSend
    /\ LastIsPushed
    /\ FinishEnds
    /\ pico = "open" => \A sid \in Sids : InFlight(sid)

-----------------------------------------------------------------------------
(* Steps that send nothing                                                 *)

SendPC == {"prefix", "push", "mark"}

(***************************************************************************)
(* What every step outside the six of opening and sending leaves alone: no *)
(* data moves, no thread starts or ends a send, owners stay, and the       *)
(* sending side of a stream that is being opened stays as created.         *)
(***************************************************************************)
Quiet ==
    /\ UNCHANGED <<wire, accepted>>
    /\ pico' = pico \/ pico' # "open"
    /\ \/ queue' = queue
       \/ \E e \in Event : e.type # "STREAM" /\ queue' = Append(queue, e)
    /\ \A t \in Callers : pc[t] \in SendPC \/ pc'[t] \in SendPC => pc'[t] = pc[t] /\ call'[t] = call[t]
    /\ \A sid \in DOMAIN streams : sid \in DOMAIN streams' /\ owner'[sid] = owner[sid]
    /\ \A sid \in DOMAIN streams' \ DOMAIN streams : ~Local(sid)
    /\ \A sid \in DOMAIN streams :
          (\E t \in Callers : Opens(t, sid)) /\ Local(sid) /\ wire[sid] = <<>> =>
              streams'[sid].out = streams[sid].out

LEMMA QuietSteps ==
    ASSUME TypeOK, SidsKnown, [Next]_vars
    PROVE  \/ Quiet
           \/ \E t \in Callers, bidi \in BOOLEAN : NewStreamId(t, bidi)
           \/ \E t \in Callers, sid \in Sids, fin \in BOOLEAN : SendCheck(t, sid, fin)
           \/ \E t \in Callers : PrefixCheck(t)
           \/ \E t \in Callers : SendPush(t)
           \/ \E t \in Callers : SendMark(t)
           \/ LoopDispatch
<1> USE DEF connVars, closeVars, picoVars, histVars
<1>0. ASSUME UNCHANGED <<streams, owner, wire, accepted, pico, queue>>,
             \A t \in Callers : pc[t] \in SendPC \/ pc'[t] \in SendPC => pc'[t] = pc[t] /\ call'[t] = call[t]
      PROVE  Quiet
  BY <1>0 DEF Quiet, TypeOK
<1>1. ASSUME NEW t \in Callers, SendDatagram(t) PROVE Quiet
  <2>1. ControlEvent("DATAGRAM", 0) \in Event /\ (ControlEvent("DATAGRAM", 0)).type # "STREAM"
    BY ConstantTypes DEF ControlEvent, EventType
  <2>. QED  BY <1>1, <2>1 DEF SendDatagram, Quiet, TypeOK
<1>2. ASSUME NEW t \in Callers, NEW sid \in Sids, NEW type \in EventType \ {"STREAM"}, NEW state, NEW ended,
             Returned(sid), EndStream(sid, type, state, ended),
             UNCHANGED <<owner, wire, accepted, pico, pc, call>>
      PROVE  Quiet
  <2>1. ControlEvent(type, sid) \in Event /\ (ControlEvent(type, sid)).type # "STREAM"
    BY ConstantTypes DEF ControlEvent
  <2>2. queue' = queue \/ \E e \in Event : e.type # "STREAM" /\ queue' = Append(queue, e)
    BY <1>2, <2>1 DEF EndStream
  <2>3. ~\E u \in Callers : Opens(u, sid)
    BY <1>2 DEF Returned, Opens
  <2>4. DOMAIN streams' = DOMAIN streams /\ \A s \in DOMAIN streams \ {sid} : streams'[s] = streams[s]
    BY <1>2 DEF EndStream, TypeOK
  <2>. QED  BY <1>2, <2>2, <2>3, <2>4 DEF Quiet, TypeOK
<1>3. ASSUME NEW t \in Callers, NEW sid \in Sids, ResetStream(t, sid) PROVE Quiet
  BY <1>2, <1>3 DEF ResetStream, MayUse, EventType
<1>4. ASSUME NEW t \in Callers, NEW sid \in Sids, StopSendingStream(t, sid) PROVE Quiet
  BY <1>2, <1>4 DEF StopSendingStream, MayUse, EventType
<1>5. ASSUME NEW t \in Callers, CloseCall(t) PROVE Quiet
  BY <1>0, <1>5 DEF CloseCall, Ready, Goto, SendPC, TypeOK
<1>6. ASSUME NEW t \in Callers, Shutdown(t) PROVE Quiet
  BY <1>0, <1>6 DEF Shutdown, Destroy, Enter, SendPC, TypeOK
<1>7. ASSUME NEW t \in Callers, CloseClaim(t) PROVE Quiet
  BY <1>0, <1>7 DEF CloseClaim, AfterClose, Return, Enter, Goto, SendPC, TypeOK
<1>8. ASSUME NEW t \in Callers, ClosePush(t) PROVE Quiet
  <2>1. ControlEvent("CLOSE_CONN", 0) \in Event /\ (ControlEvent("CLOSE_CONN", 0)).type # "STREAM"
    BY ConstantTypes DEF ControlEvent, EventType
  <2>2. \A u \in Callers : pc[u] \in SendPC \/ pc'[u] \in SendPC => pc'[u] = pc[u] /\ call'[u] = call[u]
    BY <1>8 DEF ClosePush, Goto, SendPC, TypeOK
  <2>. QED  BY <1>8, <2>1, <2>2 DEF ClosePush, Quiet, TypeOK
<1>9. ASSUME NEW t \in Callers, CloseWait(t) PROVE Quiet
  BY <1>0, <1>9 DEF CloseWait, AfterClose, Return, Enter, Goto, SendPC, TypeOK
<1>10. ASSUME NEW t \in Callers, NotifyClaim(t) PROVE Quiet
  BY <1>0, <1>10 DEF NotifyClaim, Return, Enter, Goto, SendPC, TypeOK
<1>11. ASSUME NEW t \in Callers, NotifyCall(t) PROVE Quiet
  BY <1>0, <1>11 DEF NotifyCall, Return, Enter, SendPC, TypeOK
<1>12. ASSUME CallbackReady PROVE Quiet
  BY <1>0, <1>12 DEF CallbackReady
<1>13. ASSUME NEW sid \in Sids, NEW fin \in BOOLEAN, CallbackStream(sid, fin) PROVE Quiet
  <2>1. Local(sid) => sid \in DOMAIN streams
    BY <1>13 DEF CallbackStream, PeerCanSend, SidsKnown
  <2>2. /\ DOMAIN streams' = DOMAIN streams \cup {sid}
        /\ \A s \in DOMAIN streams : streams'[s].out = streams[s].out
        /\ \A s \in DOMAIN streams : owner'[s] = owner[s]
    BY <1>13 DEF CallbackStream, Put, MarkComplete, TypeOK, Stream
  <2>3. UNCHANGED <<wire, accepted, pico, queue, pc, call>>
    BY <1>13 DEF CallbackStream
  <2>. QED  BY <2>1, <2>2, <2>3 DEF Quiet
<1>14. ASSUME NEW sid \in Sids, CallbackReset(sid) PROVE Quiet
  <2>1. /\ DOMAIN streams' = DOMAIN streams
        /\ \A s \in DOMAIN streams : streams'[s].out = streams[s].out
    BY <1>14 DEF CallbackReset, TypeOK, Stream
  <2>. QED  BY <1>14, <2>1 DEF CallbackReset, Quiet
<1>15. ASSUME NEW sid \in Sids, CallbackStop(sid) PROVE Quiet
  <2>1. /\ DOMAIN streams' = DOMAIN streams
        /\ \A s \in DOMAIN streams \ {sid} : streams'[s] = streams[s]
        /\ Local(sid) => wire[sid] # <<>>
    BY <1>15 DEF CallbackStop, PeerCanStop
  <2>. QED  BY <1>15, <2>1 DEF CallbackStop, Quiet
<1>16. ASSUME CallbackClose PROVE Quiet
  <2>1. \A u \in Callers : pc[u] \in SendPC \/ pc'[u] \in SendPC => pc'[u] = pc[u] /\ call'[u] = call[u]
    BY <1>16 DEF CallbackClose, LoopIdle, Goto, SendPC, TypeOK
  <2>. QED  BY <1>16, <2>1 DEF CallbackClose, Quiet
<1>17. ASSUME LoopFinalize PROVE Quiet
  BY <1>0, <1>17 DEF LoopFinalize, LoopIdle, Destroy, Enter, SendPC, TypeOK
<1>18. CASE UNCHANGED vars
  BY <1>0, <1>18 DEF vars
<1>. QED
  BY <1>1, <1>3, <1>4, <1>5, <1>6, <1>7, <1>8, <1>9, <1>10, <1>11, <1>12, <1>13, <1>14, <1>15, <1>16, <1>17, <1>18 DEF Next, Api, Continue, Peer

-----------------------------------------------------------------------------
(* A stream belongs to the thread that opens it                            *)

LEMMA NewSidsLocal == \A sid \in NewSids : sid \in Sids /\ Local(sid)
<1> SUFFICES ASSUME NEW sid \in NewSids PROVE sid \in Sids /\ Local(sid)
  OBVIOUS
<1>1. PICK id \in 0 .. MaxNew, bidi \in BOOLEAN : sid = BuildStreamId(id, ~IsServer, bidi)
  BY DEF NewSids
<1>2. id \in Nat /\ (~IsServer) \in BOOLEAN
  BY <1>1, ConnectionAssumption
<1>3. ClientInitiated(BuildStreamId(id, ~IsServer, bidi)) <=> ~IsServer
  BY <1>2, StreamIdRoundTrip
<1>. QED  BY <1>1, <1>3 DEF Sids, Local

\* NothingSent for one thread and the stream it opens.
Unsent(t, sid) ==
    /\ sid \in NewSids
    /\ call[t].chunk = Prefix
    /\ streams[sid].out = INACTIVE
    /\ accepted[sid] = <<>>
    /\ wire[sid] = <<>>
    /\ \A i \in 1 .. Len(queue) : ~Carries(queue[i], sid)

LEMMA NothingSentKept ==
    ASSUME NothingSent,
           \A t \in Callers : pc'[t] = "prefix" =>
              /\ pc[t] = "prefix" /\ call'[t] = call[t]
              /\ \A sid : sid = call[t].sid /\ Unsent(t, sid) =>
                    /\ streams'[sid].out = streams[sid].out
                    /\ accepted'[sid] = accepted[sid]
                    /\ wire'[sid] = wire[sid]
                    /\ \A i \in 1 .. Len(queue') : ~Carries(queue'[i], sid)
    PROVE  NothingSent'
<1> SUFFICES ASSUME NEW t \in Callers, pc'[t] = "prefix",
                    NEW sid, sid = call'[t].sid
             PROVE  Unsent(t, sid)'
  BY DEF NothingSent, Unsent
<1>1. Unsent(t, sid) /\ call'[t] = call[t]
  BY DEF NothingSent, Unsent
<1>. QED  BY <1>1 DEF Unsent

\* What imquic_connection_new_stream_id does to the stream it opens and to no other.
LEMMA OpenStep ==
    ASSUME StreamInv, NEW t \in Callers, NEW bidi \in BOOLEAN, NewStreamId(t, bidi)
    PROVE  \E sid \in NewSids :
              /\ sid \notin DOMAIN streams
              /\ streams' = Put(streams, sid, StreamCreate)
              /\ owner' = Put(owner, sid, t)
              /\ pc[t] = "idle"
              /\ IF WebTransport
                 THEN Enter(t, "prefix", [NoCall EXCEPT !.sid = sid])
                 ELSE UNCHANGED <<pc, call>>
              /\ UNCHANGED <<queue, wire, accepted, pico>>
<1> DEFINE id  == IF bidi THEN next.bidi ELSE next.uni
           sid == BuildStreamId(id, ~IsServer, bidi)
<1>1. id \in 0 .. MaxNew
  BY ConnectionAssumption DEF NewStreamId, StreamInv, TypeOK
<1>2. sid \in NewSids
  BY <1>1 DEF NewSids
<1>3. sid \notin DOMAIN streams
  BY NewSidFresh DEF StreamInv
<1>4. /\ streams' = Put(streams, sid, StreamCreate)
      /\ owner' = Put(owner, sid, t)
      /\ pc[t] = "idle"
      /\ Opening(t, sid)
      /\ UNCHANGED <<queue, wire, accepted, pico>>
  BY DEF NewStreamId, Ready, picoVars
<1> HIDE DEF sid
<1>. QED  BY <1>2, <1>3, <1>4 DEF Opening

LEMMA OpeningInit == Init => OpeningInv
BY DEF Init, OpeningInv, NothingUnknown, OneOpener, NothingSent, Opens

LEMMA OpeningQuiet ==
    ASSUME StreamInv, OpeningInv, Quiet
    PROVE  OpeningInv'
<1> USE DEF StreamInv, OpeningInv
<1>1. NothingUnknown'
  BY DEF Quiet, NothingUnknown
<1>2. OneOpener'
  BY DEF Quiet, OneOpener, Opens, Sending, SendPC
<1>3. NothingSent'
  <2> SUFFICES ASSUME NEW t \in Callers, pc'[t] = "prefix"
               PROVE  LET sid == call'[t].sid IN
                      /\ sid \in NewSids
                      /\ call'[t].chunk = Prefix
                      /\ streams'[sid].out = INACTIVE
                      /\ accepted'[sid] = <<>>
                      /\ wire'[sid] = <<>>
                      /\ \A i \in 1 .. Len(queue') : ~Carries(queue'[i], sid)
    BY DEF NothingSent
  <2> DEFINE sid == call[t].sid
  <2>1. pc[t] = "prefix" /\ call'[t] = call[t]
    BY DEF Quiet, SendPC
  <2> HIDE DEF sid
  <2>2. /\ sid \in NewSids /\ sid \in DOMAIN streams /\ Local(sid) /\ call[t].chunk = Prefix
        /\ streams[sid].out = INACTIVE /\ accepted[sid] = <<>> /\ wire[sid] = <<>>
        /\ \A i \in 1 .. Len(queue) : ~Carries(queue[i], sid)
    BY <2>1, NewSidsLocal DEF NothingSent, SidsKnown, sid
  <2>3. Opens(t, sid)
    BY <2>1, <2>2 DEF Opens, sid
  <2>4. streams'[sid].out = INACTIVE /\ accepted'[sid] = <<>> /\ wire'[sid] = <<>>
    BY <2>2, <2>3 DEF Quiet
  <2>5. \A i \in 1 .. Len(queue') : ~Carries(queue'[i], sid)
    <3>1. queue \in Seq(Event) /\ Len(queue) \in Nat
      BY LenProperties DEF TypeOK
    <3>2. CASE queue' = queue
      BY ONLY <2>2, <3>2
    <3>3. CASE \E e \in Event : e.type # "STREAM" /\ queue' = Append(queue, e)
      <4>1. PICK e \in Event : e.type # "STREAM" /\ queue' = Append(queue, e)
        BY <3>3
      <4>2. /\ Len(queue') = Len(queue) + 1 /\ queue'[Len(queue) + 1] = e
            /\ \A i \in 1 .. Len(queue) : queue'[i] = queue[i]
        BY ONLY <3>1, <4>1, AppendProperties
      <4>3. ~Carries(e, sid)
        BY <4>1 DEF Carries
      <4>4. ASSUME NEW i \in 1 .. Len(queue') PROVE ~Carries(queue'[i], sid)
        <5>1. i \in 1 .. Len(queue) \/ i = Len(queue) + 1
          BY ONLY <3>1, <4>2
        <5>. QED  BY ONLY <2>2, <4>2, <4>3, <5>1
      <4>. QED  BY ONLY <4>4
    <3>4. queue' = queue \/ \E e \in Event : e.type # "STREAM" /\ queue' = Append(queue, e)
      BY DEF Quiet
    <3>. QED  BY ONLY <3>2, <3>3, <3>4
  <2>. QED  BY <2>1, <2>2, <2>4, <2>5 DEF sid
<1>. QED  BY <1>1, <1>2, <1>3

LEMMA OpeningNext ==
    ASSUME StreamInv, StreamInv', OpeningInv, [Next]_vars
    PROVE  OpeningInv'
<1> USE DEF StreamInv, OpeningInv
<1>1. ASSUME NEW t \in Callers, NEW bidi \in BOOLEAN, NewStreamId(t, bidi) PROVE OpeningInv'
  <2>1. PICK sid \in NewSids :
              /\ sid \notin DOMAIN streams
              /\ streams' = Put(streams, sid, StreamCreate)
              /\ owner' = Put(owner, sid, t)
              /\ pc[t] = "idle"
              /\ IF WebTransport
                 THEN Enter(t, "prefix", [NoCall EXCEPT !.sid = sid])
                 ELSE UNCHANGED <<pc, call>>
              /\ UNCHANGED <<queue, wire, accepted, pico>>
    BY <1>1, OpenStep
  <2>2. /\ DOMAIN streams' = DOMAIN streams \cup {sid}
        /\ \A s \in DOMAIN streams : streams'[s] = streams[s]
        /\ streams'[sid].out = INACTIVE
    BY <2>1 DEF Put, StreamCreate
  <2>3. NothingUnknown'
    BY <2>1, <2>2 DEF NothingUnknown
  <2>4. sid \in Sids /\ accepted[sid] = <<>> /\ wire[sid] = <<>>
    BY <2>1, NewSidsLocal DEF NothingUnknown, SidsKnown
  <2>5. \A i \in 1 .. Len(queue) : ~Carries(queue[i], sid)
    BY <2>1 DEF SidsKnown, Carries
  <2>6. \A u \in Callers : ~Sending(u, sid)
    BY <2>1 DEF SidsKnown, Sending
  <2>7. CASE WebTransport
    <3>1. /\ pc' = [pc EXCEPT ![t] = "prefix"]
          /\ call'[t].sid = sid /\ call'[t].chunk = Prefix
          /\ \A u \in Callers \ {t} : pc'[u] = pc[u] /\ call'[u] = call[u]
      BY <2>1, <2>7 DEF Enter, NoCall, NoChunk, TypeOK
    <3>2. \A u \in Callers, s \in Sids : Sending(u, s)' => (u = t /\ s = sid) \/ (u # t /\ s # sid /\ Sending(u, s))
      BY <2>1, <2>6, <3>1 DEF Sending, TypeOK
    <3>3. \A u \in Callers, s \in Sids : Opens(u, s)' => (u = t /\ s = sid) \/ (u # t /\ s # sid /\ Opens(u, s))
      BY <2>1, <2>6, <3>1 DEF Opens, Sending, TypeOK
    <3>4. OneOpener'
      BY <3>2, <3>3 DEF OneOpener
    <3>5. NothingSent'
      <4>1. \A u \in Callers \ {t} : pc[u] = "prefix" => call[u].sid \in DOMAIN streams
        BY DEF SidsKnown
      <4>. QED  BY <2>1, <2>2, <2>4, <2>5, <3>1, <4>1 DEF NothingSent
    <3>. QED  BY <2>3, <3>4, <3>5
  <2>8. CASE ~WebTransport
    <3>1. OneOpener'
      BY <2>1, <2>8 DEF OneOpener, Opens, Sending
    <3>2. NothingSent'
      <4>1. \A u \in Callers : pc[u] = "prefix" => call[u].sid \in DOMAIN streams
        BY DEF SidsKnown
      <4>. QED  BY <2>1, <2>2, <2>8, <4>1 DEF NothingSent
    <3>. QED  BY <2>3, <3>1, <3>2
  <2>. QED  BY <2>7, <2>8
<1>2. ASSUME NEW t \in Callers, NEW sid \in Sids, NEW fin \in BOOLEAN, SendCheck(t, sid, fin) PROVE OpeningInv'
  <2>1. /\ pc' = [pc EXCEPT ![t] = "push"]
        /\ call'[t].sid = sid /\ call'[t].chunk # Prefix
        /\ \A u \in Callers \ {t} : pc'[u] = pc[u] /\ call'[u] = call[u]
    BY <1>2 DEF SendCheck, Enter, TypeOK, Prefix
  <2>2. \A u \in Callers : ~Opens(u, sid)
    BY <1>2 DEF SendCheck, MayUse, Returned, Opens
  <2>3. /\ sid \in DOMAIN streams /\ UNCHANGED <<streams, queue, wire, pico>>
        /\ \A s \in Sids \ {sid} : accepted'[s] = accepted[s]
    BY <1>2 DEF SendCheck, Sendable, TypeOK, connVars, picoVars
  <2>4. NothingUnknown'
    BY <2>3 DEF NothingUnknown
  <2>5. \A u \in Callers, s \in Sids : Opens(u, s)' => u # t /\ s # sid /\ Opens(u, s)
    BY <2>1, <2>2 DEF Opens, TypeOK
  <2>6. \A u \in Callers, s \in Sids : Sending(u, s)' => (u = t /\ s = sid) \/ (u # t /\ Sending(u, s))
    BY <2>1 DEF Sending, TypeOK
  <2>7. OneOpener'
    BY <2>5, <2>6 DEF OneOpener
  <2>8. NothingSent'
    <3>1. \A u \in Callers : pc'[u] = "prefix" => pc[u] = "prefix" /\ call'[u] = call[u]
      BY <2>1 DEF TypeOK
    <3>2. \A u \in Callers : pc[u] = "prefix" => call[u].sid # sid /\ call[u].sid \in Sids
      BY <2>2, NewSidsLocal DEF NothingSent, Opens
    <3>. QED  BY <2>3, <3>1, <3>2 DEF NothingSent
  <2>. QED  BY <2>4, <2>7, <2>8
<1>3. ASSUME NEW t \in Callers, PrefixCheck(t) PROVE OpeningInv'
  <2> DEFINE sid == call[t].sid
  <2>1. /\ pc[t] = "prefix" /\ sid \in DOMAIN streams /\ sid \in Sids
        /\ call[t].chunk = Prefix /\ streams[sid].out = INACTIVE
    BY <1>3, NewSidsLocal DEF PrefixCheck, NothingSent, SidsKnown
  <2>2. Sendable(sid)
    BY <2>1 DEF Sendable, INACTIVE, BLOCKED, RESET, COMPLETE
  <2> HIDE DEF sid
  <2>3. accepted' = [accepted EXCEPT ![sid] = Append(@, Prefix)] /\ Goto(t, "push")
    BY <1>3, <2>2 DEF PrefixCheck, sid
  <2>4. UNCHANGED <<streams, queue, wire, pico, call>> /\ pc' = [pc EXCEPT ![t] = "push"]
    BY <1>3, <2>3 DEF PrefixCheck, connVars, picoVars, Goto
  <2>5. Opens(t, sid) /\ Sending(t, sid)
    BY <2>1 DEF Opens, Sending, sid
  <2>6. NothingUnknown'
    BY <2>1, <2>3, <2>4 DEF NothingUnknown, TypeOK
  <2>7. OneOpener'
    <3>1. \A u \in Callers, s \in Sids : Opens(u, s)' => Opens(u, s)
      BY <2>1, <2>4 DEF Opens, TypeOK
    <3>2. \A u \in Callers, s \in Sids : Sending(u, s)' => Sending(u, s)
      BY <2>1, <2>4 DEF Sending, TypeOK
    <3>. QED  BY <3>1, <3>2 DEF OneOpener
  <2>8. NothingSent'
    <3>1. \A u \in Callers : pc'[u] = "prefix" => u # t /\ pc[u] = "prefix"
      BY <2>4 DEF TypeOK
    <3>2. \A u \in Callers \ {t} : pc[u] = "prefix" => call[u].sid # sid /\ call[u].sid \in Sids
      BY <2>5, NewSidsLocal DEF NothingSent, OneOpener, Opens
    <3>3. \A s \in Sids \ {sid} : accepted'[s] = accepted[s]
      BY <2>3 DEF TypeOK
    <3>. QED  BY <2>4, <3>1, <3>2, <3>3 DEF NothingSent
  <2>. QED  BY <2>6, <2>7, <2>8
<1>4. ASSUME NEW t \in Callers, SendPush(t) PROVE OpeningInv'
  <2> DEFINE sid == call[t].sid
             e == StreamEvent(sid, call[t].chunk)
  <2>1. /\ pc[t] = "push" /\ sid \in Sids /\ Sending(t, sid)
        /\ queue' = Append(queue, e) /\ queue \in Seq(Event)
        /\ UNCHANGED <<streams, wire, pico, accepted>>
    BY <1>4 DEF SendPush, Sending, SidsKnown, TypeOK, picoVars, histVars
  <2>2. /\ pc'[t] \in {"idle", "mark"}
        /\ pc'[t] = "mark" => call'[t] = call[t]
        /\ \A u \in Callers \ {t} : pc'[u] = pc[u] /\ call'[u] = call[u]
    BY <1>4 DEF SendPush, Goto, Return, Enter, TypeOK
  <2>3. \A s : Carries(e, s) => s = sid
    BY DEF Carries, StreamEvent
  <2> HIDE DEF sid, e
  <2>4. NothingUnknown'
    BY <2>1 DEF NothingUnknown
  <2>5. OneOpener'
    <3>1. \A u \in Callers, s \in Sids : Opens(u, s)' => Opens(u, s)
      BY <2>2 DEF Opens
    <3>2. \A u \in Callers, s \in Sids : Sending(u, s)' => Sending(u, s)
      BY <2>1, <2>2 DEF Sending
    <3>. QED  BY <3>1, <3>2 DEF OneOpener
  <2>6. NothingSent'
    <3>1. \A u \in Callers : pc'[u] = "prefix" => u # t /\ pc[u] = "prefix" /\ call'[u] = call[u]
      BY <2>2
    <3>2. \A u \in Callers \ {t} : pc[u] = "prefix" => call[u].sid # sid
      BY <2>1 DEF NothingSent, OneOpener, Opens
    <3>3. \A s : s # sid /\ (\A i \in 1 .. Len(queue) : ~Carries(queue[i], s))
             => \A i \in 1 .. Len(queue') : ~Carries(queue'[i], s)
      BY <2>1, <2>3
    <3>. QED  BY <2>1, <3>1, <3>2, <3>3, NothingSentKept DEF Unsent
  <2>. QED  BY <2>4, <2>5, <2>6
<1>5. ASSUME NEW t \in Callers, SendMark(t) PROVE OpeningInv'
  <2> DEFINE sid == call[t].sid
  <2>1. /\ pc[t] = "mark" /\ sid \in Sids /\ Sending(t, sid)
        /\ streams' = [streams EXCEPT ![sid] = MarkComplete(@, FALSE)]
        /\ UNCHANGED <<queue, wire, pico, accepted>>
    BY <1>5 DEF SendMark, Sending, SidsKnown, TypeOK, picoVars, histVars
  <2>2. pc'[t] = "idle" /\ \A u \in Callers \ {t} : pc'[u] = pc[u] /\ call'[u] = call[u]
    BY <1>5 DEF SendMark, Return, Enter, TypeOK
  <2> HIDE DEF sid
  <2>3. DOMAIN streams' = DOMAIN streams /\ \A s \in DOMAIN streams \ {sid} : streams'[s] = streams[s]
    BY <2>1
  <2>4. NothingUnknown'
    BY <2>1, <2>3 DEF NothingUnknown
  <2>5. OneOpener'
    <3>1. \A u \in Callers, s \in Sids : Opens(u, s)' => Opens(u, s)
      BY <2>2 DEF Opens
    <3>2. \A u \in Callers, s \in Sids : Sending(u, s)' => Sending(u, s)
      BY <2>1, <2>2 DEF Sending
    <3>. QED  BY <3>1, <3>2 DEF OneOpener
  <2>6. NothingSent'
    <3>1. \A u \in Callers : pc'[u] = "prefix" => u # t /\ pc[u] = "prefix" /\ call'[u] = call[u]
      BY <2>2
    <3>2. \A u \in Callers \ {t} : pc[u] = "prefix" => call[u].sid # sid /\ call[u].sid \in DOMAIN streams
      BY <2>1 DEF NothingSent, OneOpener, Opens, SidsKnown
    <3>. QED  BY <2>1, <2>3, <3>1, <3>2, NothingSentKept DEF Unsent
  <2>. QED  BY <2>4, <2>5, <2>6
<1>6. ASSUME LoopDispatch PROVE OpeningInv'
  <2> DEFINE e == Head(queue)
  <2>1. /\ queue # <<>> /\ queue \in Seq(Event) /\ queue' = Tail(queue) /\ e = queue[1]
        /\ UNCHANGED <<streams, pc, call, accepted>>
    BY <1>6 DEF LoopDispatch, TypeOK, histVars
  <2>2. Len(queue') = Len(queue) - 1 /\ \A i \in 1 .. Len(queue') : queue'[i] = queue[i + 1]
    BY <2>1
  <2>3. wire' = wire \/ (e.type = "STREAM" /\ wire' = [wire EXCEPT ![e.sid] = Append(@, e.chunk)])
    BY <1>6 DEF LoopDispatch
  <2> HIDE DEF e
  <2>4. NothingUnknown'
    BY <2>1 DEF NothingUnknown
  <2>5. OneOpener'
    BY <2>1 DEF OneOpener, Opens, Sending
  <2>6. ASSUME NEW s \in Sids, \A i \in 1 .. Len(queue) : ~Carries(queue[i], s)
        PROVE  wire'[s] = wire[s] /\ \A i \in 1 .. Len(queue') : ~Carries(queue'[i], s)
    <3>1. ~Carries(e, s)
      BY <2>1, <2>6
    <3>2. wire'[s] = wire[s]
      BY <2>3, <3>1 DEF Carries, TypeOK
    <3>3. \A i \in 1 .. Len(queue') : ~Carries(queue'[i], s)
      BY <2>1, <2>2, <2>6
    <3>. QED  BY <3>2, <3>3
  <2>7. NothingSent'
    BY <2>1, <2>6, NewSidsLocal DEF NothingSent
  <2>. QED  BY <2>4, <2>5, <2>7
<1>. QED  BY <1>1, <1>2, <1>3, <1>4, <1>5, <1>6, QuietSteps, OpeningQuiet

-----------------------------------------------------------------------------
(* The prefix comes first                                                  *)

\* PrefixFirst for one stream.
PrefixAhead(sid) ==
    /\ wire[sid] # <<>> => Head(wire[sid]) = Prefix
    /\ wire[sid] = <<>> /\ pico = "open" =>
          \A i \in 1 .. Len(queue) : Carries(queue[i], sid) =>
              \E j \in 1 .. i : Carries(queue[j], sid) /\ queue[j].chunk = Prefix

LEMMA PrefixInit == Init => PrefixInv
<1> SUFFICES ASSUME Init, WebTransport PROVE PrefixInv
  BY DEF PrefixInv
<1>1. \A sid \in NewSids : wire[sid] = <<>>
  BY NewSidsLocal DEF Init
<1>. QED  BY <1>1 DEF Init, PrefixInv, PrefixFirst

\* A step after which nothing new of a stream of ours is queued or sent.
LEMMA PrefixKept ==
    ASSUME TypeOK, PrefixInv, UNCHANGED wire, pico' = pico \/ pico' # "open",
           \/ queue' = queue
           \/ \E e \in Event : e.type # "STREAM" /\ queue' = Append(queue, e),
           \A sid \in NewSids \cap DOMAIN streams' :
              (\E t \in Callers : Opens(t, sid)') \/ (~(\E t \in Callers : Opens(t, sid)) /\ sid \in DOMAIN streams)
    PROVE  PrefixInv'
<1> SUFFICES ASSUME WebTransport PROVE PrefixInv'
  BY DEF PrefixInv
<1>1. queue \in Seq(Event)
  BY DEF TypeOK
<1>2. /\ Len(queue) <= Len(queue')
      /\ \A i \in 1 .. Len(queue) : queue'[i] = queue[i]
      /\ \A i \in 1 .. Len(queue') : queue'[i].type = "STREAM" => i \in 1 .. Len(queue)
  BY <1>1
<1>3. \A sid \in NewSids : PrefixAhead(sid)'
  <2>1. \A sid \in NewSids : PrefixAhead(sid)
    BY DEF PrefixInv, PrefixFirst, PrefixAhead
  <2>. QED  BY <1>1, <1>2, <2>1 DEF PrefixAhead, Carries
<1>4. \A sid \in NewSids : Opened(sid) => Opened(sid)'
  BY <1>1, <1>2 DEF Opened
<1>. QED  BY <1>3, <1>4 DEF PrefixInv, PrefixFirst, PrefixAhead

LEMMA PrefixNext ==
    ASSUME StreamInv, OpeningInv, PrefixInv, [Next]_vars
    PROVE  PrefixInv'
<1> SUFFICES ASSUME WebTransport PROVE PrefixInv'
  BY DEF PrefixInv
<1> USE DEF StreamInv, OpeningInv
<1>0. CASE Quiet
  <2>1. \A t \in Callers, sid \in Sids : Opens(t, sid)' <=> Opens(t, sid)
    BY <1>0 DEF Quiet, Opens, SendPC
  <2>2. \A sid \in NewSids \cap DOMAIN streams' : sid \in DOMAIN streams
    BY <1>0, NewSidsLocal DEF Quiet
  <2>. QED  BY <1>0, <2>1, <2>2, PrefixKept, NewSidsLocal DEF Quiet
<1>1. ASSUME NEW t \in Callers, NEW bidi \in BOOLEAN, NewStreamId(t, bidi) PROVE PrefixInv'
  <2>1. PICK sid \in NewSids :
              /\ sid \notin DOMAIN streams
              /\ streams' = Put(streams, sid, StreamCreate)
              /\ pc[t] = "idle"
              /\ Enter(t, "prefix", [NoCall EXCEPT !.sid = sid])
              /\ UNCHANGED <<queue, wire, accepted, pico>>
    BY <1>1, OpenStep
  <2>2. DOMAIN streams' = DOMAIN streams \cup {sid}
    BY <2>1 DEF Put
  <2>3. /\ pc'[t] = "prefix" /\ call'[t].sid = sid /\ call'[t].chunk = Prefix
        /\ \A u \in Callers \ {t} : pc'[u] = pc[u] /\ call'[u] = call[u]
    BY <2>1 DEF Enter, NoCall, NoChunk, TypeOK
  <2>4. Opens(t, sid)'
    BY <2>3 DEF Opens
  <2>5. \A u \in Callers, s \in Sids \ {sid} : Opens(u, s)' <=> Opens(u, s)
    BY <2>1, <2>3 DEF Opens
  <2>6. ASSUME NEW s \in NewSids \cap DOMAIN streams'
        PROVE  (\E u \in Callers : Opens(u, s)') \/ (~(\E u \in Callers : Opens(u, s)) /\ s \in DOMAIN streams)
    <3>1. CASE s = sid
      <4>1. Opens(t, s)'
        BY <2>3, <3>1 DEF Opens
      <4>. QED  BY <4>1
    <3>2. CASE s # sid
      BY <2>2, <2>5, <3>2, NewSidsLocal
    <3>. QED  BY <3>1, <3>2
  <2>. QED  BY <2>1, <2>6, PrefixKept
<1>2. ASSUME NEW t \in Callers, NEW sid \in Sids, NEW fin \in BOOLEAN, SendCheck(t, sid, fin) PROVE PrefixInv'
  <2>1. \A u \in Callers, s \in Sids : Opens(u, s)' <=> Opens(u, s)
    BY <1>2 DEF SendCheck, Ready, Enter, Opens, TypeOK, Prefix
  <2>2. UNCHANGED <<streams, wire, pico, queue>>
    BY <1>2 DEF SendCheck, connVars, picoVars
  <2>. QED  BY <2>1, <2>2, PrefixKept, NewSidsLocal
<1>3. ASSUME NEW t \in Callers, PrefixCheck(t) PROVE PrefixInv'
  <2>1. /\ pc[t] = "prefix" /\ call[t].sid \in DOMAIN streams
        /\ call[t].chunk = Prefix /\ streams[call[t].sid].out = INACTIVE
    BY <1>3 DEF PrefixCheck, NothingSent, SidsKnown
  <2>2. Sendable(call[t].sid)
    BY <2>1 DEF Sendable, INACTIVE, BLOCKED, RESET, COMPLETE
  <2>3. pc' = [pc EXCEPT ![t] = "push"] /\ UNCHANGED <<streams, wire, pico, queue, call>>
    BY <1>3, <2>2 DEF PrefixCheck, Goto, connVars, picoVars
  <2>4. \A u \in Callers, s \in Sids : Opens(u, s)' <=> Opens(u, s)
    BY <2>1, <2>3 DEF Opens, TypeOK
  <2>. QED  BY <2>3, <2>4, PrefixKept, NewSidsLocal
<1>4. ASSUME NEW t \in Callers, SendPush(t) PROVE PrefixInv'
  <2>0. PICK sid, e : sid = call[t].sid /\ e = StreamEvent(sid, call[t].chunk)
    OBVIOUS
  <2>1. /\ pc[t] = "push" /\ sid \in Sids /\ sid \in DOMAIN streams /\ Sending(t, sid)
        /\ queue' = Append(queue, e) /\ queue \in Seq(Event)
        /\ UNCHANGED <<streams, wire, pico, accepted>>
    BY <1>4, <2>0 DEF SendPush, Sending, SidsKnown, TypeOK, picoVars, histVars
  <2>2. /\ pc'[t] \in {"idle", "mark"}
        /\ \A u \in Callers \ {t} : pc'[u] = pc[u] /\ call'[u] = call[u]
    BY <1>4 DEF SendPush, Goto, Return, Enter, TypeOK
  <2>3. Carries(e, sid) /\ (\A s : Carries(e, s) => s = sid) /\ e.chunk = call[t].chunk
    BY <2>0 DEF Carries, StreamEvent
  <2>4. Opens(t, sid) <=> e.chunk = Prefix
    BY <2>0, <2>1, <2>3 DEF Opens
  <2>5. \A s : s # sid => ~Opens(t, s)
    BY <2>0 DEF Opens
  <2>6. /\ Len(queue') = Len(queue) + 1 /\ queue'[Len(queue')] = e /\ Len(queue') \in 1 .. Len(queue')
        /\ \A i \in 1 .. Len(queue) : queue'[i] = queue[i]
    BY <2>1
  <2>7. \A s \in NewSids : Opened(s) => Opened(s)'
    BY <2>1, <2>6 DEF Opened
  <2>8. Opened(sid)'
    BY <2>1, <2>3, <2>6 DEF Opened
  <2>9. \A s \in NewSids \cap DOMAIN streams' : (\E u \in Callers : Opens(u, s)') \/ Opened(s)'
    <3>1. \A u \in Callers, s \in Sids \ {sid} : Opens(u, s) => Opens(u, s)'
      BY <2>2, <2>5 DEF Opens
    <3> SUFFICES ASSUME NEW s \in NewSids, s \in DOMAIN streams, ~Opened(s)'
                 PROVE  \E u \in Callers : Opens(u, s)'
      BY <2>1
    <3>2. s # sid /\ s \in Sids /\ ~Opened(s)
      BY <2>7, <2>8, NewSidsLocal
    <3>3. PICK u \in Callers : Opens(u, s)
      BY <3>2 DEF PrefixInv
    <3>. QED  BY <3>1, <3>2, <3>3
  <2>10. ASSUME NEW s \in NewSids PROVE PrefixAhead(s)'
    <3>1. PrefixAhead(s)
      BY DEF PrefixInv, PrefixFirst, PrefixAhead
    <3>2. wire[s] # <<>> => Head(wire'[s]) = Prefix
      BY <2>1, <3>1 DEF PrefixAhead
    <3>3. ASSUME wire[s] = <<>>, pico = "open", NEW i \in 1 .. Len(queue'), Carries(queue'[i], s)
          PROVE  \E j \in 1 .. i : Carries(queue'[j], s) /\ queue'[j].chunk = Prefix
      <4>1. CASE i \in 1 .. Len(queue)
        <5>1. PICK j \in 1 .. i : Carries(queue[j], s) /\ queue[j].chunk = Prefix
          BY <2>6, <3>1, <3>3, <4>1 DEF PrefixAhead
        <5>2. j \in 1 .. Len(queue)
          BY <4>1
        <5>. QED  BY <2>6, <5>1, <5>2
      <4>2. CASE i = Len(queue') /\ e.chunk = Prefix
        BY <2>6, <3>3, <4>2
      <4>3. CASE i = Len(queue') /\ e.chunk # Prefix
        <5>1. s = sid
          BY <2>3, <2>6, <3>3, <4>3
        <5>2. ~\E u \in Callers : Opens(u, sid)
          BY <2>1, <2>4, <4>3 DEF OneOpener
        <5>3. PICK k \in 1 .. Len(queue) : Carries(queue[k], s)
          BY <2>1, <3>3, <5>1, <5>2 DEF PrefixInv, Opened
        <5>4. PICK j \in 1 .. k : Carries(queue[j], s) /\ queue[j].chunk = Prefix
          BY <3>1, <3>3, <5>3 DEF PrefixAhead
        <5>5. j \in 1 .. Len(queue) /\ j \in 1 .. i
          BY <2>1, <2>6, <4>3
        <5>. QED  BY <2>6, <5>4, <5>5
      <4>. QED  BY <2>1, <2>6, <4>1, <4>2, <4>3
    <3>. QED  BY <2>1, <3>2, <3>3 DEF PrefixAhead
  <2>. QED  BY <2>9, <2>10 DEF PrefixInv, PrefixFirst, PrefixAhead
<1>5. ASSUME NEW t \in Callers, SendMark(t) PROVE PrefixInv'
  <2>1. \A u \in Callers, s \in Sids : Opens(u, s)' <=> Opens(u, s)
    <3>1. pc[t] = "mark" /\ pc'[t] = "idle" /\ \A u \in Callers \ {t} : pc'[u] = pc[u] /\ call'[u] = call[u]
      BY <1>5 DEF SendMark, Return, Enter, TypeOK
    <3>. QED  BY <3>1 DEF Opens
  <2>2. DOMAIN streams' = DOMAIN streams /\ UNCHANGED <<wire, pico, queue>>
    BY <1>5 DEF SendMark, picoVars
  <2>. QED  BY <2>1, <2>2, PrefixKept, NewSidsLocal
<1>6. ASSUME LoopDispatch PROVE PrefixInv'
  <2> DEFINE e == Head(queue)
  <2>1. /\ queue # <<>> /\ queue \in Seq(Event) /\ queue' = Tail(queue) /\ e = queue[1]
        /\ UNCHANGED <<streams, pc, call>>
    BY <1>6 DEF LoopDispatch, TypeOK
  <2>2. /\ Len(queue) \in Nat \ {0} /\ Len(queue') = Len(queue) - 1
        /\ \A i \in 1 .. Len(queue') : queue'[i] = queue[i + 1]
    BY <2>1
  <2>3. /\ pico' = "open" => pico = "open"
        /\ wire' = IF e.type = "STREAM" /\ pico = "open"
                   THEN [wire EXCEPT ![e.sid] = Append(@, e.chunk)] ELSE wire
    BY <1>6 DEF LoopDispatch
  <2> HIDE DEF e
  <2>4. ASSUME NEW s \in NewSids
        PROVE  /\ Carries(e, s) /\ pico = "open" => wire'[s] = Append(wire[s], e.chunk)
               /\ ~(Carries(e, s) /\ pico = "open") => wire'[s] = wire[s]
    BY <2>3, NewSidsLocal DEF Carries, TypeOK
  <2>5. ASSUME NEW s \in NewSids PROVE PrefixAhead(s)'
    <3>1. PrefixAhead(s) /\ wire[s] \in Seq(Chunk)
      BY NewSidsLocal DEF PrefixInv, PrefixFirst, PrefixAhead, TypeOK
    <3>2. CASE Carries(e, s) /\ pico = "open"
      <4>1. wire[s] = <<>> => e.chunk = Prefix
        BY <2>1, <2>2, <3>1, <3>2 DEF PrefixAhead
      <4>2. /\ Append(wire[s], e.chunk) # <<>>
            /\ wire[s] # <<>> => Head(Append(wire[s], e.chunk)) = Head(wire[s])
            /\ wire[s] = <<>> => Head(Append(wire[s], e.chunk)) = e.chunk
        <5>1. \A x : \A q \in Seq(Chunk) :
                 /\ Append(q, x) # <<>>
                 /\ q # <<>> => Head(Append(q, x)) = Head(q)
                 /\ q = <<>> => Head(Append(q, x)) = x
          OBVIOUS
        <5>. QED  BY <3>1, <5>1
      <4>3. Head(Append(wire[s], e.chunk)) = Prefix
        BY <3>1, <4>1, <4>2 DEF PrefixAhead
      <4>. QED  BY <2>4, <3>2, <4>2, <4>3 DEF PrefixAhead
    <3>3. CASE ~(Carries(e, s) /\ pico = "open")
      <4>1. wire'[s] = wire[s]
        BY <2>4, <3>3
      <4>2. ASSUME wire[s] = <<>>, pico' = "open", NEW i \in 1 .. Len(queue'), Carries(queue'[i], s)
            PROVE  \E j \in 1 .. i : Carries(queue'[j], s) /\ queue'[j].chunk = Prefix
        <5>1. PICK j \in 1 .. i + 1 : Carries(queue[j], s) /\ queue[j].chunk = Prefix
          BY <2>2, <2>3, <3>1, <4>2 DEF PrefixAhead
        <5>2. j # 1
          BY <2>1, <2>3, <3>3, <4>2, <5>1
        <5>3. j - 1 \in 1 .. i /\ j - 1 \in 1 .. Len(queue') /\ queue'[j - 1] = queue[j]
          <6> DEFINE m == j - 1
          <6>1. m \in 1 .. i /\ m + 1 = j
            BY <5>1, <5>2
          <6>2. m \in 1 .. Len(queue')
            BY <2>2, <4>2, <6>1
          <6> HIDE DEF m
          <6>3. queue'[m] = queue[j]
            BY <2>2, <6>1, <6>2
          <6>. QED  BY <6>1, <6>2, <6>3 DEF m
        <5>. QED  BY <5>1, <5>3
      <4>. QED  BY <3>1, <4>1, <4>2 DEF PrefixAhead
    <3>. QED  BY <3>2, <3>3
  <2>6. ASSUME NEW s \in NewSids, Opened(s) PROVE Opened(s)'
    <3>1. wire[s] \in Seq(Chunk) /\ pico \in {"open", "closing", "closed"}
      BY NewSidsLocal DEF TypeOK
    <3>2. CASE Carries(e, s) /\ pico = "open"
      BY <2>4, <3>1, <3>2 DEF Opened
    <3>3. CASE ~Carries(e, s) \/ pico # "open"
      <4>1. wire'[s] = wire[s]
        BY <2>4, <3>3
      <4>2. \A i \in 1 .. Len(queue) : pico = "open" /\ Carries(queue[i], s) =>
               i - 1 \in 1 .. Len(queue') /\ queue'[i - 1] = queue[i]
        BY <2>1, <2>2, <3>3
      <4>. QED  BY <2>3, <2>6, <4>1, <4>2 DEF Opened
    <3>. QED  BY <3>2, <3>3
  <2>7. \A s \in NewSids \cap DOMAIN streams' : (\E u \in Callers : Opens(u, s)') \/ Opened(s)'
    BY <2>1, <2>6 DEF PrefixInv, Opens
  <2>. QED  BY <2>5, <2>7 DEF PrefixInv, PrefixFirst, PrefixAhead
<1>. QED  BY <1>0, <1>1, <1>2, <1>3, <1>4, <1>5, <1>6, QuietSteps

(***************************************************************************)
(* Over WebTransport, whatever threads use a stream we opened, its prefix  *)
(* is the first thing handed to picoquic.                                  *)
(***************************************************************************)
THEOREM PrefixComesFirst == Spec => []PrefixFirst
<1>1. Init => StreamInv /\ OpeningInv /\ PrefixInv
  BY TypeInit, SidsKnownInit, LocalIdsInit, OpeningInit, PrefixInit DEF StreamInv
<1>2. (StreamInv /\ OpeningInv /\ PrefixInv) /\ [Next]_vars => (StreamInv /\ OpeningInv /\ PrefixInv)'
  BY TypeNext, SidsKnownNext, LocalIdsNext, OpeningNext, PrefixNext DEF StreamInv
<1>3. PrefixInv => PrefixFirst
  BY DEF PrefixInv, PrefixFirst
<1>. QED  BY <1>1, <1>2, <1>3, PTL DEF Spec

-----------------------------------------------------------------------------
(* The numbering of the chunks in the queue                                *)

\* Pushing an event of something else.
LEMMA NumberingOther ==
    ASSUME NEW sid, NEW q \in Seq(Event), NEW sent, NEW acc \in Seq(Chunk),
           NEW n \in [0 .. Len(q) -> 0 .. Len(acc)], Numbering(sid, q, sent, acc, n),
           NEW e \in Event, ~Carries(e, sid)
    PROVE  \E m \in [0 .. Len(Append(q, e)) -> 0 .. Len(acc)] :
              /\ Numbering(sid, Append(q, e), sent, acc, m)
              /\ m[Len(Append(q, e))] = n[Len(q)]
<1> DEFINE r == Append(q, e)
           m == [i \in 0 .. Len(r) |-> IF i <= Len(q) THEN n[i] ELSE n[Len(q)]]
<1>1. /\ Len(r) = Len(q) + 1 /\ r[Len(r)] = e /\ Len(q) \in Nat
      /\ \A i \in 1 .. Len(q) : r[i] = q[i]
  OBVIOUS
<1> HIDE DEF r
<1>2. m \in [0 .. Len(r) -> 0 .. Len(acc)]
  BY <1>1
<1>3. m[0] = Len(sent) /\ m[Len(r)] = n[Len(q)]
  BY <1>1 DEF Numbering
<1>4. ASSUME NEW i \in 1 .. Len(r)
      PROVE  IF Carries(r[i], sid)
             THEN m[i] = m[i - 1] + 1 /\ r[i].chunk = acc[m[i]]
             ELSE m[i] = m[i - 1]
  <2>1. CASE i \in 1 .. Len(q)
    <3>1. m[i] = n[i] /\ m[i - 1] = n[i - 1] /\ r[i] = q[i]
      BY <1>1, <2>1
    <3>. QED  BY <2>1, <3>1 DEF Numbering
  <2>2. CASE i = Len(r)
    <3>1. m[i] = n[Len(q)] /\ m[i - 1] = n[Len(q)] /\ r[i] = e
      BY <1>1, <2>2
    <3>. QED  BY <3>1
  <2>. QED  BY <1>1, <2>1, <2>2
<1> HIDE DEF m
<1>5. Numbering(sid, r, sent, acc, m)
  BY <1>3, <1>4 DEF Numbering
<1>. QED  BY <1>2, <1>3, <1>5 DEF r

\* Pushing the next accepted chunk.
LEMMA NumberingPush ==
    ASSUME NEW sid, NEW q, NEW sent, NEW acc, NEW e, NEW last,
           Numbered(sid, q, sent, acc, last), Carries(e, sid), q \in Seq(Event), acc \in Seq(Chunk),
           e \in Event, last + 1 = Len(acc), e.chunk = acc[Len(acc)]
    PROVE  Numbered(sid, Append(q, e), sent, acc, Len(acc))
<1>0. PICK n \in [0 .. Len(q) -> 0 .. Len(acc)] : Numbering(sid, q, sent, acc, n) /\ n[Len(q)] = last
  BY DEF Numbered
<1> DEFINE r == Append(q, e)
           m == [i \in 0 .. Len(r) |-> IF i <= Len(q) THEN n[i] ELSE Len(acc)]
<1>1. /\ Len(r) = Len(q) + 1 /\ r[Len(r)] = e /\ Len(q) \in Nat /\ Len(acc) \in Nat
      /\ \A i \in 1 .. Len(q) : r[i] = q[i]
  OBVIOUS
<1> HIDE DEF r
<1>2. m \in [0 .. Len(r) -> 0 .. Len(acc)]
  BY <1>1
<1>3. m[0] = Len(sent) /\ m[Len(r)] = Len(acc)
  BY <1>0, <1>1 DEF Numbering
<1>4. ASSUME NEW i \in 1 .. Len(r)
      PROVE  IF Carries(r[i], sid)
             THEN m[i] = m[i - 1] + 1 /\ r[i].chunk = acc[m[i]]
             ELSE m[i] = m[i - 1]
  <2>1. CASE i \in 1 .. Len(q)
    <3>1. m[i] = n[i] /\ m[i - 1] = n[i - 1] /\ r[i] = q[i]
      BY <1>1, <2>1
    <3>. QED  BY <1>0, <2>1, <3>1 DEF Numbering
  <2>2. CASE i = Len(r)
    <3>1. m[i] = Len(acc) /\ m[i - 1] = n[Len(q)] /\ r[i] = e
      BY <1>1, <2>2
    <3>. QED  BY <1>0, <3>1
  <2>. QED  BY <1>1, <2>1, <2>2
<1> HIDE DEF m
<1>5. Numbering(sid, r, sent, acc, m)
  BY <1>3, <1>4 DEF Numbering
<1>. QED  BY <1>2, <1>3, <1>5 DEF r, Numbered

\* Accepting one more chunk.
LEMMA NumberingAccept ==
    ASSUME NEW sid, NEW q \in Seq(Event), NEW sent, NEW acc \in Seq(Chunk), NEW c \in Chunk,
           NEW n \in [0 .. Len(q) -> 0 .. Len(acc)], Numbering(sid, q, sent, acc, n),
           Len(sent) \in Nat
    PROVE  /\ n \in [0 .. Len(q) -> 0 .. Len(Append(acc, c))]
           /\ Numbering(sid, q, sent, Append(acc, c), n)
<1>1. Len(Append(acc, c)) = Len(acc) + 1 /\ \A i \in 1 .. Len(acc) : Append(acc, c)[i] = acc[i]
  OBVIOUS
<1>2. Len(q) \in Nat /\ \A i \in 1 .. Len(q) : n[i] \in 0 .. Len(acc) /\ n[i - 1] \in 0 .. Len(acc)
  OBVIOUS
<1>3. \A i \in 1 .. Len(q) : Carries(q[i], sid) => n[i] \in 1 .. Len(acc)
  BY <1>2 DEF Numbering
<1>. QED  BY <1>1, <1>2, <1>3 DEF Numbering

\* The head, when it is of the stream, is the first chunk not yet handed to
\* picoquic; when it is not, the numbering stays where it started.
LEMMA NumberingHead ==
    ASSUME NEW sid, NEW q \in Seq(Event), q # <<>>, NEW sent \in Seq(Chunk), NEW acc \in Seq(Chunk),
           NEW n \in [0 .. Len(q) -> 0 .. Len(acc)], Numbering(sid, q, sent, acc, n)
    PROVE  /\ Carries(Head(q), sid) =>
                 n[1] = Len(sent) + 1 /\ Len(sent) < Len(acc) /\ Head(q).chunk = acc[Len(sent) + 1]
           /\ ~Carries(Head(q), sid) => n[1] = Len(sent)
<1>1. Len(q) \in Nat \ {0} /\ Head(q) = q[1] /\ Len(acc) \in Nat /\ Len(sent) \in Nat
  OBVIOUS
<1>2. 1 \in 0 .. Len(q) /\ 1 \in 1 .. Len(q) /\ 1 - 1 = 0
  BY <1>1
<1>3. n[1] \in 0 .. Len(acc)
  BY <1>2
<1>. QED  BY <1>1, <1>2, <1>3 DEF Numbering

\* Taking the head off the queue.
LEMMA NumberingTail ==
    ASSUME NEW sid, NEW q, NEW sent, NEW acc, NEW n, NEW now,
           Numbering(sid, q, sent, acc, n), n \in [0 .. Len(q) -> 0 .. Len(acc)],
           q \in Seq(Event), q # <<>>, acc \in Seq(Chunk), n[1] = Len(now)
    PROVE  Numbered(sid, Tail(q), now, acc, n[Len(q)])
<1> DEFINE r == Tail(q)
           m == [i \in 0 .. Len(r) |-> n[i + 1]]
<1>1. /\ Len(q) \in Nat \ {0} /\ Len(r) = Len(q) - 1 /\ Len(acc) \in Nat
      /\ \A i \in 1 .. Len(r) : r[i] = q[i + 1]
  OBVIOUS
<1> HIDE DEF r
<1>2. m \in [0 .. Len(r) -> 0 .. Len(acc)]
  BY <1>1
<1>3. m[0] = Len(now) /\ m[Len(r)] = n[Len(q)]
  BY <1>1
<1>4. ASSUME NEW i \in 1 .. Len(r)
      PROVE  IF Carries(r[i], sid)
             THEN m[i] = m[i - 1] + 1 /\ r[i].chunk = acc[m[i]]
             ELSE m[i] = m[i - 1]
  <2>1. m[i] = n[i + 1] /\ m[i - 1] = n[i] /\ r[i] = q[i + 1] /\ i + 1 \in 1 .. Len(q)
    BY <1>1
  <2>2. IF Carries(q[i + 1], sid)
        THEN n[i + 1] = n[i] + 1 /\ q[i + 1].chunk = acc[n[i + 1]]
        ELSE n[i + 1] = n[i]
    <3> DEFINE j == i + 1
    <3>1. j \in 1 .. Len(q) /\ j - 1 = i
      BY <2>1
    <3> HIDE DEF j
    <3>2. IF Carries(q[j], sid) THEN n[j] = n[j - 1] + 1 /\ q[j].chunk = acc[n[j]] ELSE n[j] = n[j - 1]
      BY <3>1 DEF Numbering
    <3>. QED  BY <3>1, <3>2 DEF j
  <2>. QED  BY <2>1, <2>2
<1> HIDE DEF m
<1>5. Numbering(sid, r, now, acc, m)
  BY <1>3, <1>4 DEF Numbering
<1>. QED  BY <1>2, <1>3, <1>5 DEF r, Numbered

-----------------------------------------------------------------------------
(* The queue implements OrderedSend                                        *)

LEMMA OrderInit == Init => OrderInv
<1> SUFFICES ASSUME Init PROVE OrderInv
  OBVIOUS
<1>1. OwnersSend /\ LastIsPushed
  BY DEF Init, OwnersSend, LastIsPushed, Sending, Pushing
<1>2. FinishEnds
  BY DEF Init, FinishEnds, Sends!Finished
<1>3. ASSUME NEW sid \in Sids PROVE InFlight(sid)
  <2> DEFINE n == [i \in 0 .. 0 |-> 0]
  <2>1. Len(queue) = 0 /\ Len(wire[sid]) = 0 /\ Len(accepted[sid]) = 0
    BY DEF Init
  <2>2. n \in [0 .. 0 -> 0 .. 0] /\ n[0] = 0
    OBVIOUS
  <2>3. ~\E t \in Callers : Pushing(t, sid)
    BY DEF Init, Pushing
  <2> HIDE DEF n
  <2>4. Numbering(sid, queue, wire[sid], accepted[sid], n)
    BY <2>1, <2>2 DEF Numbering
  <2>. QED  BY <2>1, <2>2, <2>3, <2>4 DEF InFlight
<1>. QED  BY <1>1, <1>2, <1>3 DEF OrderInv

\* What the parts of OrderInv rest on when no chunk of sid moves.
LEMMA InFlightKept ==
    ASSUME NEW sid \in Sids, InFlight(sid), queue \in Seq(Event), accepted[sid] \in Seq(Chunk),
           wire'[sid] = wire[sid], accepted'[sid] = accepted[sid],
           queue' = queue \/ \E e \in Event : ~Carries(e, sid) /\ queue' = Append(queue, e),
           (\E t \in Callers : Pushing(t, sid)) <=> (\E t \in Callers : Pushing(t, sid)')
    PROVE  InFlight(sid)'
<1> DEFINE acc == accepted[sid]
           pending == IF \E t \in Callers : Pushing(t, sid) THEN 1 ELSE 0
<1>0. acc \in Seq(Chunk) /\ queue \in Seq(Event)
  OBVIOUS
<1>1. PICK n \in [0 .. Len(queue) -> 0 .. Len(acc)] :
          Numbering(sid, queue, wire[sid], acc, n) /\ n[Len(queue)] + pending = Len(acc)
  BY DEF InFlight
<1>2. \E m \in [0 .. Len(queue') -> 0 .. Len(acc)] :
          Numbering(sid, queue', wire[sid], acc, m) /\ m[Len(queue')] = n[Len(queue)]
  <2>1. CASE queue' = queue
    BY <1>1, <2>1
  <2>2. ASSUME NEW e \in Event, ~Carries(e, sid), queue' = Append(queue, e)
        PROVE  \E m \in [0 .. Len(queue') -> 0 .. Len(acc)] :
                  Numbering(sid, queue', wire[sid], acc, m) /\ m[Len(queue')] = n[Len(queue)]
    <3>1. \E m \in [0 .. Len(Append(queue, e)) -> 0 .. Len(acc)] :
             /\ Numbering(sid, Append(queue, e), wire[sid], acc, m)
             /\ m[Len(Append(queue, e))] = n[Len(queue)]
      <4>1. Numbering(sid, queue, wire[sid], acc, n)
        BY <1>1
      <4> HIDE DEF acc
      <4>2. queue \in Seq(Event) /\ acc \in Seq(Chunk) /\ e \in Event /\ ~Carries(e, sid)
        BY <1>0, <2>2
      <4>. QED  BY ONLY <4>1, <4>2, NumberingOther, n \in [0 .. Len(queue) -> 0 .. Len(acc)]
    <3>. QED  BY <2>2, <3>1
  <2>. QED  BY <2>1, <2>2
<1>3. pending = (IF \E t \in Callers : Pushing(t, sid)' THEN 1 ELSE 0)
  OBVIOUS
<1>. QED  BY <1>1, <1>2, <1>3 DEF InFlight

LEMMA FinishKept ==
    ASSUME StreamInv, [Next]_vars, FinishEnds,
           \A sid \in Sids : Sends!Finished(sid)' => Sends!Finished(sid) /\ sid \in DOMAIN streams,
           \A t \in Callers : pc[t] \in {"push", "mark"} /\ call[t].chunk.fin =>
               \/ pc'[t] \in {"push", "mark"} /\ call'[t] = call[t]
               \/ streams'[call[t].sid].out >= RESET
    PROVE  FinishEnds'
<1>1. EndedKept
  BY EndedNext
<1>2. \A sid \in DOMAIN streams : streams[sid].out >= RESET => streams'[sid].out >= RESET
  BY <1>1 DEF EndedKept
<1>. QED  BY <1>2 DEF FinishEnds

\* A step that moves no chunk and no thread to or from a push.
LEMMA OrderKept ==
    ASSUME StreamInv, OrderInv, OwnersSend', FinishEnds', UNCHANGED <<wire, accepted>>,
           pico' = pico \/ pico' # "open",
           \/ queue' = queue
           \/ \E e \in Event : e.type # "STREAM" /\ queue' = Append(queue, e),
           \A t \in Callers, sid \in Sids : Pushing(t, sid)' <=> Pushing(t, sid),
           \A t \in Callers : pc[t] = "push" => call'[t] = call[t]
    PROVE  OrderInv'
<1> USE DEF StreamInv, OrderInv
<1>1. LastIsPushed'
  BY DEF LastIsPushed, Pushing
<1>2. ASSUME NEW sid \in Sids, InFlight(sid) PROVE InFlight(sid)'
  <2>1. queue \in Seq(Event) /\ accepted[sid] \in Seq(Chunk)
    BY DEF TypeOK
  <2>2. queue' = queue \/ \E e \in Event : ~Carries(e, sid) /\ queue' = Append(queue, e)
    BY DEF Carries
  <2>3. (\E t \in Callers : Pushing(t, sid)) <=> (\E t \in Callers : Pushing(t, sid)')
    OBVIOUS
  <2>. QED  BY <1>2, <2>1, <2>2, <2>3, InFlightKept
<1>. QED  BY <1>1, <1>2

LEMMA OwnersKept ==
    ASSUME SidsKnown, OwnersSend,
           \A t \in Callers, sid \in Sids : Sending(t, sid)' => Sending(t, sid),
           \A sid \in DOMAIN streams : owner'[sid] = owner[sid]
    PROVE  OwnersSend'
<1>1. \A t \in Callers, sid \in Sids : Sending(t, sid) => sid \in DOMAIN streams
  BY DEF Sending, SidsKnown
<1>. QED  BY <1>1 DEF OwnersSend

\* One writing thread: nobody else is sending on a stream a thread may use.
LEMMA SoleWriter ==
    ASSUME SingleOwner, OwnersSend, NEW t \in Callers, NEW sid \in Sids,
           owner[sid] = t, pc[t] = "idle"
    PROVE  \A u \in Callers : ~Sending(u, sid)
BY DEF OwnersSend, Sending

\* Accepting a chunk of a stream nobody is sending on.
LEMMA AcceptInFlight ==
    ASSUME TypeOK, NEW t \in Callers, NEW sid \in Sids, NEW chunk \in Chunk, InFlight(sid),
           \A u \in Callers : ~Pushing(u, sid), Pushing(t, sid)',
           accepted' = [accepted EXCEPT ![sid] = Append(@, chunk)], UNCHANGED <<queue, wire>>
    PROVE  InFlight(sid)'
<1>0. queue \in Seq(Event) /\ accepted[sid] \in Seq(Chunk) /\ wire[sid] \in Seq(Chunk)
  BY DEF TypeOK
<1>1. PICK n \in [0 .. Len(queue) -> 0 .. Len(accepted[sid])] :
          Numbering(sid, queue, wire[sid], accepted[sid], n) /\ n[Len(queue)] = Len(accepted[sid])
  <2>1. Len(queue) \in Nat /\ Len(accepted[sid]) \in Nat
    BY <1>0
  <2>. QED  BY <2>1 DEF InFlight
<1>2. accepted'[sid] = Append(accepted[sid], chunk)
  BY DEF TypeOK
<1>3. /\ n \in [0 .. Len(queue) -> 0 .. Len(Append(accepted[sid], chunk))]
      /\ Numbering(sid, queue, wire[sid], Append(accepted[sid], chunk), n)
  <2> DEFINE acc == accepted[sid]
  <2>1. acc \in Seq(Chunk) /\ Len(wire[sid]) \in Nat /\ queue \in Seq(Event)
        /\ n \in [0 .. Len(queue) -> 0 .. Len(acc)] /\ Numbering(sid, queue, wire[sid], acc, n)
    BY <1>0, <1>1
  <2> HIDE DEF acc
  <2>2. /\ n \in [0 .. Len(queue) -> 0 .. Len(Append(acc, chunk))]
        /\ Numbering(sid, queue, wire[sid], Append(acc, chunk), n)
    BY ONLY <2>1, NumberingAccept, chunk \in Chunk
  <2>. QED  BY <2>2 DEF acc
<1>4. n[Len(queue)] + 1 = Len(Append(accepted[sid], chunk))
  BY <1>0, <1>1
<1>. QED  BY <1>2, <1>3, <1>4 DEF InFlight

\* Thread t accepts a chunk and is about to push it; nobody else writes the stream.
LEMMA AcceptKept ==
    ASSUME StreamInv, OrderInv, NEW t \in Callers, NEW sid \in DOMAIN streams, NEW chunk \in Chunk,
           owner[sid] = t, \A u \in Callers \ {t} : ~Sending(u, sid), pc[t] \notin {"push", "mark"},
           ~Sends!Finished(sid),
           accepted' = [accepted EXCEPT ![sid] = Append(@, chunk)],
           pc' = [pc EXCEPT ![t] = "push"],
           call'[t].sid = sid, call'[t].chunk = chunk,
           \A u \in Callers \ {t} : call'[u] = call[u],
           UNCHANGED <<streams, owner, queue, wire, pico>>
    PROVE  OrderInv'
<1> USE DEF StreamInv, OrderInv
<1>0. /\ sid \in Sids /\ accepted[sid] \in Seq(Chunk)
      /\ accepted'[sid] = Append(accepted[sid], chunk)
      /\ \A s \in Sids \ {sid} : accepted'[s] = accepted[s]
  BY DEF TypeOK
<1>1. pc'[t] = "push" /\ \A u \in Callers \ {t} : pc'[u] = pc[u]
  BY DEF TypeOK
<1>2. OwnersSend'
  <2>1. \A u \in Callers, s \in Sids : Sending(u, s)' => (u = t /\ s = sid) \/ Sending(u, s)
    BY <1>1 DEF Sending
  <2>. QED  BY <2>1 DEF OwnersSend
<1>3. LastIsPushed'
  <2>1. accepted'[sid] # <<>> /\ accepted'[sid][Len(accepted'[sid])] = chunk
    BY <1>0
  <2>2. \A u \in Callers \ {t}, s \in Sids : Pushing(u, s)' => s # sid /\ Pushing(u, s)
    BY <1>1 DEF Pushing, Sending
  <2>3. \A s \in Sids : Pushing(t, s)' => s = sid
    BY DEF Pushing
  <2>. QED  BY <1>0, <2>1, <2>2, <2>3 DEF LastIsPushed
<1>4. FinishEnds'
  <2>1. Sends!Finished(sid)' => chunk.fin
    <3>1. \A i \in 1 .. Len(accepted[sid]) : ~accepted[sid][i].fin
      BY DEF Sends!Finished
    <3>2. ~chunk.fin => \A i \in 1 .. Len(accepted'[sid]) : ~accepted'[sid][i].fin
      BY <1>0, <3>1
    <3>. QED  BY <3>2 DEF Sends!Finished
  <2>2. \A s \in Sids \ {sid} : Sends!Finished(s)' => Sends!Finished(s)
    BY <1>0 DEF Sends!Finished
  <2>. QED  BY <1>1, <2>1, <2>2 DEF FinishEnds
<1>5. ASSUME NEW s \in Sids, InFlight(s) PROVE InFlight(s)'
  <2>1. CASE s = sid
    <3>1. \A u \in Callers : ~Pushing(u, s)
      BY <2>1 DEF Pushing, Sending
    <3>2. Pushing(t, s)'
      BY <1>1, <2>1 DEF Pushing
    <3>3. accepted' = [accepted EXCEPT ![s] = Append(@, chunk)]
      BY <2>1
    <3>. QED  BY <1>5, <3>1, <3>2, <3>3, AcceptInFlight
  <2>2. CASE s # sid
    <3>1. queue \in Seq(Event) /\ accepted[s] \in Seq(Chunk) /\ accepted'[s] = accepted[s]
      BY <1>0, <2>2 DEF TypeOK
    <3>2. (\E u \in Callers : Pushing(u, s)) <=> (\E u \in Callers : Pushing(u, s)')
      BY <1>1, <2>2 DEF Pushing
    <3>. QED  BY <1>5, <3>1, <3>2, InFlightKept
  <2>. QED  BY <2>1, <2>2
<1>. QED  BY <1>2, <1>3, <1>4, <1>5

\* What a send and a prefix find when their check passes.
LEMMA SendCheckFacts ==
    ASSUME SingleOwner, StreamInv, OrderInv, NEW t \in Callers, NEW sid \in Sids, NEW fin \in BOOLEAN,
           SendCheck(t, sid, fin)
    PROVE  /\ sid \in DOMAIN streams /\ owner[sid] = t /\ pc[t] = "idle"
           /\ \A u \in Callers : ~Sending(u, sid)
           /\ ~Sends!Finished(sid)
           /\ \E chunk \in Chunk :
                 /\ accepted' = [accepted EXCEPT ![sid] = Append(@, chunk)]
                 /\ pc' = [pc EXCEPT ![t] = "push"]
                 /\ call'[t].sid = sid /\ call'[t].chunk = chunk
           /\ \A u \in Callers \ {t} : call'[u] = call[u]
           /\ UNCHANGED <<streams, owner, queue, wire, pico>>
<1> USE DEF StreamInv, OrderInv
<1>1. sid \in DOMAIN streams /\ owner[sid] = t /\ pc[t] = "idle" /\ Sendable(sid)
  BY DEF SendCheck, MayUse, Sendable, Ready
<1>2. \A u \in Callers : ~Sending(u, sid)
  BY <1>1, SoleWriter
<1>3. ~Sends!Finished(sid)
  <2>1. streams[sid].out \in StreamState /\ streams[sid].out \notin {BLOCKED, RESET, COMPLETE}
    BY <1>1 DEF Sendable, TypeOK, Stream
  <2>2. ~(streams[sid].out >= RESET)
    BY <2>1 DEF StreamState, INACTIVE, BLOCKED, RESET, COMPLETE
  <2>. QED  BY <1>2, <2>2 DEF FinishEnds, Sending
<1>4. \E chunk \in Chunk :
         /\ accepted' = [accepted EXCEPT ![sid] = Append(@, chunk)]
         /\ pc' = [pc EXCEPT ![t] = "push"]
         /\ call'[t].sid = sid /\ call'[t].chunk = chunk
  <2> DEFINE chunk == [data |-> chunks + 1, fin |-> fin]
  <2>1. chunk \in Chunk
    BY ConnectionAssumption DEF SendCheck, TypeOK, Chunk
  <2>2. /\ accepted' = [accepted EXCEPT ![sid] = Append(@, chunk)]
        /\ pc' = [pc EXCEPT ![t] = "push"]
        /\ call'[t].sid = sid /\ call'[t].chunk = chunk
    BY DEF SendCheck, Enter, TypeOK
  <2> HIDE DEF chunk
  <2>. QED  BY <2>1, <2>2
<1>5. (\A u \in Callers \ {t} : call'[u] = call[u]) /\ UNCHANGED <<streams, owner, queue, wire, pico>>
  BY DEF SendCheck, Enter, TypeOK, connVars, picoVars
<1>. QED  BY <1>1, <1>2, <1>3, <1>4, <1>5

LEMMA PrefixCheckFacts ==
    ASSUME StreamInv, OpeningInv, OrderInv, NEW t \in Callers, PrefixCheck(t),
           NEW sid, sid = call[t].sid
    PROVE  /\ sid \in DOMAIN streams /\ sid \in Sids /\ owner[sid] = t /\ pc[t] = "prefix"
           /\ call[t].chunk = Prefix
           /\ \A u \in Callers \ {t} : ~Sending(u, sid)
           /\ ~Sends!Finished(sid)
           /\ accepted' = [accepted EXCEPT ![sid] = Append(@, Prefix)]
           /\ pc' = [pc EXCEPT ![t] = "push"]
           /\ UNCHANGED <<streams, owner, queue, wire, pico, call>>
<1> USE DEF StreamInv, OpeningInv, OrderInv
<1>1. /\ pc[t] = "prefix" /\ sid \in DOMAIN streams /\ sid \in Sids /\ call[t].chunk = Prefix
      /\ streams[sid].out = INACTIVE /\ accepted[sid] = <<>>
  BY NewSidsLocal DEF PrefixCheck, NothingSent, SidsKnown
<1>2. Sendable(call[t].sid)
  BY <1>1 DEF Sendable, INACTIVE, BLOCKED, RESET, COMPLETE
<1>3. Opens(t, sid) /\ Sending(t, sid)
  BY <1>1 DEF Opens, Sending
<1>4. owner[sid] = t /\ \A u \in Callers \ {t} : ~Sending(u, sid)
  BY <1>1, <1>3 DEF OneOpener, OwnersSend
<1>5. ~Sends!Finished(sid)
  BY <1>1 DEF Sends!Finished
<1>6. accepted' = [accepted EXCEPT ![sid] = Append(@, Prefix)] /\ Goto(t, "push")
  BY <1>2 DEF PrefixCheck
<1>7. UNCHANGED <<streams, owner, queue, wire, pico>>
  BY DEF PrefixCheck, connVars, picoVars
<1>. QED  BY <1>1, <1>4, <1>5, <1>6, <1>7 DEF Goto

\* What the loop thread takes off the queue, for one stream.
LEMMA DispatchFacts ==
    ASSUME StreamInv, OrderInv, LoopDispatch, pico = "open", NEW sid \in Sids
    PROVE  /\ Carries(Head(queue), sid) =>
                 /\ Len(wire[sid]) < Len(accepted[sid])
                 /\ Head(queue).chunk = accepted[sid][Len(wire[sid]) + 1]
           /\ InFlight(sid)'
<1> USE DEF StreamInv, OrderInv
<1> DEFINE acc == accepted[sid]
           sent == wire[sid]
<1>1. /\ queue \in Seq(Event) /\ queue # <<>> /\ queue' = Tail(queue)
      /\ acc \in Seq(Chunk) /\ sent \in Seq(Chunk)
      /\ UNCHANGED <<pc, call, accepted>>
  BY DEF LoopDispatch, TypeOK, histVars
<1>2. PICK n \in [0 .. Len(queue) -> 0 .. Len(acc)] :
          /\ Numbering(sid, queue, sent, acc, n)
          /\ n[Len(queue)] + (IF \E t \in Callers : Pushing(t, sid) THEN 1 ELSE 0) = Len(acc)
  BY DEF InFlight
<1>3. (\E t \in Callers : Pushing(t, sid)) <=> (\E t \in Callers : Pushing(t, sid)')
  BY <1>1 DEF Pushing
<1>4. Head(queue) \in Event
  BY <1>1
<1>5. Numbering(sid, queue, sent, acc, n) /\ queue \in Seq(Event) /\ queue # <<>>
      /\ acc \in Seq(Chunk) /\ sent \in Seq(Chunk)
  BY <1>1, <1>2
<1> DEFINE now == wire'[sid]
<1>6. now = IF Carries(Head(queue), sid) THEN Append(sent, Head(queue).chunk) ELSE sent
  BY <1>4 DEF LoopDispatch, Carries, TypeOK
<1>7. /\ Carries(Head(queue), sid) =>
            n[1] = Len(sent) + 1 /\ Len(sent) < Len(acc) /\ Head(queue).chunk = acc[Len(sent) + 1]
      /\ ~Carries(Head(queue), sid) => n[1] = Len(sent)
  <2> HIDE DEF acc, sent
  <2>. QED  BY ONLY <1>5, NumberingHead, n \in [0 .. Len(queue) -> 0 .. Len(acc)]
<1>8. n[1] = Len(now)
  BY <1>1, <1>6, <1>7
<1>9. Numbered(sid, Tail(queue), now, acc, n[Len(queue)])
  <2> HIDE DEF acc, sent, now
  <2>. QED  BY ONLY <1>5, <1>8, NumberingTail, n \in [0 .. Len(queue) -> 0 .. Len(acc)]
<1>10. InFlight(sid)'
  BY <1>1, <1>2, <1>3, <1>9 DEF InFlight, Numbered
<1>. QED  BY <1>7, <1>10

LEMMA OrderNext ==
    ASSUME SingleOwner, StreamInv, OpeningInv, OrderInv, [Next]_vars
    PROVE  OrderInv'
<1> USE DEF StreamInv, OrderInv
<1>0. CASE Quiet
  <2>1. \A t \in Callers, sid \in Sids : Sending(t, sid)' <=> Sending(t, sid)
    BY <1>0 DEF Quiet, Sending, SendPC
  <2>2. \A t \in Callers, sid \in Sids : Pushing(t, sid)' <=> Pushing(t, sid)
    BY <1>0 DEF Quiet, Pushing, SendPC
  <2>3. OwnersSend'
    BY <1>0, <2>1, OwnersKept DEF Quiet
  <2>4. FinishEnds'
    <3>1. \A sid \in Sids : Sends!Finished(sid)' => Sends!Finished(sid) /\ sid \in DOMAIN streams
      BY <1>0 DEF Quiet, Sends!Finished, OpeningInv, NothingUnknown
    <3>2. \A t \in Callers : pc[t] \in {"push", "mark"} => pc'[t] \in {"push", "mark"} /\ call'[t] = call[t]
      BY <1>0 DEF Quiet, SendPC
    <3>. QED  BY <3>1, <3>2, FinishKept
  <2>5. \A t \in Callers : pc[t] = "push" => call'[t] = call[t]
    BY <1>0 DEF Quiet, SendPC
  <2>. QED  BY <1>0, <2>2, <2>3, <2>4, <2>5, OrderKept DEF Quiet
<1>1. ASSUME NEW t \in Callers, NEW bidi \in BOOLEAN, NewStreamId(t, bidi) PROVE OrderInv'
  <2>1. PICK sid \in NewSids :
              /\ sid \notin DOMAIN streams
              /\ streams' = Put(streams, sid, StreamCreate)
              /\ owner' = Put(owner, sid, t)
              /\ pc[t] = "idle"
              /\ IF WebTransport
                 THEN Enter(t, "prefix", [NoCall EXCEPT !.sid = sid])
                 ELSE UNCHANGED <<pc, call>>
              /\ UNCHANGED <<queue, wire, accepted, pico>>
    BY <1>1, OpenStep
  <2>2. /\ pc'[t] \in {"idle", "prefix"}
        /\ pc'[t] = "prefix" => call'[t].sid = sid
        /\ \A u \in Callers \ {t} : pc'[u] = pc[u] /\ call'[u] = call[u]
    <3>1. CASE WebTransport
      BY <2>1, <3>1 DEF Enter, NoCall, TypeOK
    <3>2. CASE ~WebTransport
      BY <2>1, <3>2
    <3>. QED  BY <3>1, <3>2
  <2>3. OwnersSend'
    <3>1. owner'[sid] = t /\ \A s \in DOMAIN streams : owner'[s] = owner[s]
      BY <2>1 DEF Put, TypeOK
    <3>2. \A u \in Callers, s \in Sids : Sending(u, s)' => (u = t /\ s = sid) \/ (Sending(u, s) /\ s \in DOMAIN streams)
      BY <2>1, <2>2 DEF Sending, SidsKnown
    <3>. QED  BY <3>1, <3>2 DEF OwnersSend
  <2>4. FinishEnds'
    <3>1. \A s \in Sids : Sends!Finished(s)' => Sends!Finished(s) /\ s \in DOMAIN streams
      BY <2>1 DEF Sends!Finished, OpeningInv, NothingUnknown
    <3>2. \A u \in Callers : pc[u] \in {"push", "mark"} => pc'[u] \in {"push", "mark"} /\ call'[u] = call[u]
      BY <2>1, <2>2
    <3>. QED  BY <3>1, <3>2, FinishKept
  <2>5. \A u \in Callers, s \in Sids : Pushing(u, s)' <=> Pushing(u, s)
    BY <2>1, <2>2 DEF Pushing
  <2>6. \A u \in Callers : pc[u] = "push" => call'[u] = call[u]
    BY <2>1, <2>2
  <2>. QED  BY <2>1, <2>3, <2>4, <2>5, <2>6, OrderKept
<1>2. ASSUME NEW t \in Callers, NEW sid \in Sids, NEW fin \in BOOLEAN, SendCheck(t, sid, fin) PROVE OrderInv'
  BY <1>2, SendCheckFacts, AcceptKept
<1>3. ASSUME NEW t \in Callers, PrefixCheck(t) PROVE OrderInv'
  <2>1. PICK sid : sid = call[t].sid
    OBVIOUS
  <2>. QED  BY <1>3, <2>1, PrefixCheckFacts, AcceptKept, ConstantTypes
<1>4. ASSUME NEW t \in Callers, SendPush(t) PROVE OrderInv'
  <2>0. PICK sid, e : sid = call[t].sid /\ e = StreamEvent(sid, call[t].chunk)
    OBVIOUS
  <2>1. /\ pc[t] = "push" /\ sid \in Sids /\ sid \in DOMAIN streams /\ Sending(t, sid) /\ Pushing(t, sid)
        /\ queue' = Append(queue, e) /\ queue \in Seq(Event)
        /\ UNCHANGED <<streams, owner, wire, pico, accepted>>
    BY <1>4, <2>0 DEF SendPush, Sending, Pushing, SidsKnown, TypeOK, picoVars, histVars
  <2>2. /\ pc'[t] \in {"idle", "mark"}
        /\ pc'[t] = "mark" => call'[t] = call[t]
        /\ call[t].chunk.fin => pc'[t] = "mark"
        /\ \A u \in Callers \ {t} : pc'[u] = pc[u] /\ call'[u] = call[u]
    BY <1>4 DEF SendPush, Goto, Return, Enter, TypeOK
  <2>3. /\ Carries(e, sid) /\ (\A s : Carries(e, s) => s = sid)
        /\ e.chunk = call[t].chunk /\ e \in Event
    BY <2>0, <2>1, ConstantTypes DEF Carries, StreamEvent, TypeOK, Call
  <2>4. OwnersSend'
    <3>1. \A u \in Callers, s \in Sids : Sending(u, s)' => Sending(u, s)
      BY <2>1, <2>2 DEF Sending
    <3>. QED  BY <2>1, <3>1, OwnersKept
  <2>5. LastIsPushed'
    <3>1. \A u \in Callers, s \in Sids : Pushing(u, s)' => Pushing(u, s) /\ u # t
      BY <2>1, <2>2 DEF Pushing
    <3>. QED  BY <2>1, <2>2, <3>1 DEF LastIsPushed
  <2>6. FinishEnds'
    <3>1. \A s \in Sids : Sends!Finished(s)' => Sends!Finished(s) /\ s \in DOMAIN streams
      BY <2>1 DEF Sends!Finished, OpeningInv, NothingUnknown
    <3>2. \A u \in Callers : pc[u] \in {"push", "mark"} /\ call[u].chunk.fin =>
             pc'[u] \in {"push", "mark"} /\ call'[u] = call[u]
      BY <2>2
    <3>. QED  BY <3>1, <3>2, FinishKept
  <2>7. ASSUME NEW s \in Sids, InFlight(s) PROVE InFlight(s)'
    <3>1. accepted[s] \in Seq(Chunk)
      BY DEF TypeOK
    <3>2. CASE s = sid
      <4> DEFINE acc == accepted[s]
      <4>1. PICK n \in [0 .. Len(queue) -> 0 .. Len(acc)] :
                Numbering(s, queue, wire[s], acc, n) /\ n[Len(queue)] + 1 = Len(acc)
        BY <2>1, <2>7, <3>2 DEF InFlight
      <4>2. acc # <<>> /\ e.chunk = acc[Len(acc)]
        BY <2>1, <2>3, <3>2 DEF LastIsPushed
      <4>3. Carries(e, s) /\ e \in Event /\ acc \in Seq(Chunk)
        BY <2>3, <3>1, <3>2
      <4>4. ~\E u \in Callers : Pushing(u, s)'
        BY <2>1, <2>2, <3>2 DEF Pushing, Sending, OwnersSend
      <4> HIDE DEF acc
      <4>5. Numbered(s, Append(queue, e), wire[s], acc, Len(acc))
        <5> DEFINE last == n[Len(queue)]
        <5>1. queue \in Seq(Event) /\ Numbered(s, queue, wire[s], acc, last) /\ last + 1 = Len(acc)
          BY <2>1, <4>1 DEF Numbered
        <5>2. Carries(e, s) /\ e \in Event /\ acc \in Seq(Chunk) /\ e.chunk = acc[Len(acc)]
          BY <4>2, <4>3
        <5> HIDE DEF last
        <5>. QED  BY ONLY <5>1, <5>2, NumberingPush
      <4>6. PICK m \in [0 .. Len(queue') -> 0 .. Len(acc)] :
               Numbering(s, queue', wire[s], acc, m) /\ m[Len(queue')] = Len(acc)
        BY <2>1, <4>5 DEF Numbered
      <4>7. Len(acc) \in Nat
        BY <4>3
      <4>. QED  BY <2>1, <4>4, <4>6, <4>7 DEF InFlight, acc
    <3>3. CASE s # sid
      <4>1. ~Carries(e, s)
        BY <2>3, <3>3
      <4>2. (\E u \in Callers : Pushing(u, s)) <=> (\E u \in Callers : Pushing(u, s)')
        <5>1. \A u \in Callers : Pushing(u, s)' <=> Pushing(u, s)
          BY <2>0, <2>1, <2>2, <3>3 DEF Pushing
        <5>. QED  BY <5>1
      <4>. QED  BY <2>1, <2>3, <2>7, <3>1, <4>1, <4>2, InFlightKept
    <3>. QED  BY <3>2, <3>3
  <2>. QED  BY <2>1, <2>4, <2>5, <2>6, <2>7
<1>5. ASSUME NEW t \in Callers, SendMark(t) PROVE OrderInv'
  <2>1. /\ pc[t] = "mark" /\ pc'[t] = "idle" /\ call[t].sid \in DOMAIN streams
        /\ \A u \in Callers \ {t} : pc'[u] = pc[u] /\ call'[u] = call[u]
        /\ UNCHANGED <<owner, wire, pico, accepted, queue>>
    BY <1>5 DEF SendMark, Return, Enter, TypeOK, SidsKnown, picoVars, histVars
  <2>2. streams'[call[t].sid].out >= RESET
    <3>1. streams[call[t].sid] \in Stream
      BY <2>1 DEF TypeOK
    <3>. QED  BY <1>5, <2>1, <3>1 DEF SendMark, MarkComplete, Stream, RESET, COMPLETE
  <2>3. OwnersSend'
    <3>1. \A u \in Callers, s \in Sids : Sending(u, s)' => Sending(u, s)
      BY <2>1 DEF Sending
    <3>. QED  BY <2>1, <3>1, OwnersKept
  <2>4. FinishEnds'
    <3>1. \A s \in Sids : Sends!Finished(s)' => Sends!Finished(s) /\ s \in DOMAIN streams
      BY <2>1 DEF Sends!Finished, OpeningInv, NothingUnknown
    <3>2. \A u \in Callers : pc[u] \in {"push", "mark"} /\ call[u].chunk.fin =>
             \/ pc'[u] \in {"push", "mark"} /\ call'[u] = call[u]
             \/ streams'[call[u].sid].out >= RESET
      BY <2>1, <2>2
    <3>. QED  BY <3>1, <3>2, FinishKept
  <2>5. \A u \in Callers, s \in Sids : Pushing(u, s)' <=> Pushing(u, s)
    BY <2>1 DEF Pushing
  <2>6. \A u \in Callers : pc[u] = "push" => call'[u] = call[u]
    BY <2>1
  <2>. QED  BY <2>1, <2>3, <2>4, <2>5, <2>6, OrderKept
<1>6. ASSUME LoopDispatch PROVE OrderInv'
  <2>1. UNCHANGED <<streams, owner, pc, call, accepted>> /\ pico' = "open" => pico = "open"
    BY <1>6 DEF LoopDispatch, histVars
  <2>2. OwnersSend' /\ LastIsPushed' /\ FinishEnds'
    BY <1>6 DEF LoopDispatch, histVars, OwnersSend, LastIsPushed, FinishEnds, Sends!Finished, Sending, Pushing
  <2>3. ASSUME pico' = "open", NEW sid \in Sids PROVE InFlight(sid)'
    <3>1. pico = "open"
      BY <1>6, <2>3 DEF LoopDispatch
    <3>. QED  BY <1>6, <3>1, DispatchFacts
  <2>. QED  BY <2>2, <2>3
<1>. QED  BY <1>0, <1>1, <1>2, <1>3, <1>4, <1>5, <1>6, QuietSteps

(***************************************************************************)
(* A send that is accepted, and the hand-over of an event to picoquic, are *)
(* steps of OrderedSend; every other step leaves its variables alone.      *)
(***************************************************************************)
LEMMA SendsStep ==
    ASSUME SingleOwner, StreamInv, OpeningInv, OrderInv, [Next]_vars
    PROVE  [Sends!Next]_<<accepted, wire>>
<1> USE DEF StreamInv, OrderInv
<1>0. CASE Quiet
  BY <1>0 DEF Quiet
<1>1. ASSUME NEW t \in Callers, NEW bidi \in BOOLEAN, NewStreamId(t, bidi)
      PROVE  UNCHANGED <<accepted, wire>>
  BY <1>1 DEF NewStreamId, picoVars
<1>2. ASSUME NEW t \in Callers, NEW sid \in Sids, NEW fin \in BOOLEAN, SendCheck(t, sid, fin)
      PROVE  Sends!Next
  <2>1. PICK chunk \in Chunk : accepted' = [accepted EXCEPT ![sid] = Append(@, chunk)]
    BY <1>2, SendCheckFacts
  <2>2. ~Sends!Finished(sid) /\ UNCHANGED wire
    BY <1>2, SendCheckFacts
  <2>3. Sends!Accept(sid, chunk)
    BY <2>1, <2>2 DEF Sends!Accept
  <2>. QED  BY <2>3 DEF Sends!Next
<1>3. ASSUME NEW t \in Callers, PrefixCheck(t) PROVE Sends!Next
  <2>1. PICK sid : sid = call[t].sid
    OBVIOUS
  <2>2. /\ sid \in Sids /\ ~Sends!Finished(sid) /\ UNCHANGED wire
        /\ accepted' = [accepted EXCEPT ![sid] = Append(@, Prefix)]
    BY <1>3, <2>1, PrefixCheckFacts
  <2>3. Sends!Accept(sid, Prefix)
    BY <2>2 DEF Sends!Accept
  <2>. QED  BY <2>2, <2>3, ConstantTypes DEF Sends!Next
<1>4. ASSUME NEW t \in Callers, SendPush(t) PROVE UNCHANGED <<accepted, wire>>
  BY <1>4 DEF SendPush, picoVars, histVars
<1>5. ASSUME NEW t \in Callers, SendMark(t) PROVE UNCHANGED <<accepted, wire>>
  BY <1>5 DEF SendMark, picoVars, histVars
<1>6. ASSUME LoopDispatch PROVE [Sends!Next]_<<accepted, wire>>
  <2>1. PICK e : e = Head(queue)
    OBVIOUS
  <2>2. e \in Event
    BY <1>6, <2>1 DEF LoopDispatch, TypeOK
  <2>3. CASE e.type = "STREAM" /\ pico = "open"
    <3>1. PICK sid : sid = e.sid
      OBVIOUS
    <3>2. sid \in Sids
      <4>1. queue[1] = e /\ 1 \in 1 .. Len(queue)
        BY <1>6, <2>1 DEF LoopDispatch, TypeOK
      <4>. QED  BY <2>3, <3>1, <4>1 DEF SidsKnown, TypeOK
    <3>3. Carries(e, sid)
      BY <2>3, <3>1 DEF Carries
    <3>4. Len(wire[sid]) < Len(accepted[sid]) /\ e.chunk = accepted[sid][Len(wire[sid]) + 1]
      BY <1>6, <2>1, <2>3, <3>2, <3>3, DispatchFacts
    <3>5. wire' = [wire EXCEPT ![sid] = Append(@, e.chunk)] /\ UNCHANGED accepted
      BY <1>6, <2>1, <2>3, <3>1 DEF LoopDispatch, histVars
    <3>6. Sends!Deliver(sid)
      BY <3>2, <3>4, <3>5 DEF Sends!Deliver, TypeOK
    <3>. QED  BY <3>2, <3>6 DEF Sends!Next
  <2>4. CASE ~(e.type = "STREAM" /\ pico = "open")
    BY <1>6, <2>1, <2>4 DEF LoopDispatch, histVars
  <2>. QED  BY <2>3, <2>4
<1>. QED  BY <1>0, <1>1, <1>2, <1>3, <1>4, <1>5, <1>6, QuietSteps

(***************************************************************************)
(* When each stream has one writing thread, the connection implements      *)
(* OrderedSend: whatever the threads, the loop, the peer and a close do    *)
(* meanwhile, picoquic gets what the sends accepted, in order and without  *)
(* a gap, and nothing is accepted after a FIN.                             *)
(***************************************************************************)
THEOREM SendsImplemented ==
    ASSUME SingleOwner
    PROVE  Spec => SendsInOrder
<1> DEFINE IInv == StreamInv /\ OpeningInv /\ OrderInv
<1>1. Init => IInv
  BY TypeInit, SidsKnownInit, LocalIdsInit, OpeningInit, OrderInit DEF StreamInv
<1>2. IInv /\ [Next]_vars => IInv'
  BY TypeNext, SidsKnownNext, LocalIdsNext, OpeningNext, OrderNext DEF StreamInv
<1>3. Init => Sends!Init
  BY DEF Init, Sends!Init
<1>4. IInv /\ [Next]_vars => [Sends!Next]_<<accepted, wire>>
  BY SendsStep
<1> HIDE DEF IInv
<1>5. Spec => Sends!Spec
  BY <1>1, <1>2, <1>3, <1>4, PTL DEF Spec, Sends!Spec
<1>. QED  BY <1>5 DEF SendsInOrder

=============================================================================
