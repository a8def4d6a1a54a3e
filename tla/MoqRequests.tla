----------------------------- MODULE MoqRequests -----------------------------
(***************************************************************************)
(* Requests of MoQ versions 17 and 18 between two imquic endpoints, from   *)
(* the call that sends one to the callback that reports its answer.        *)
(*                                                                         *)
(* One endpoint asks ("out"), the other answers ("in").  A request has a   *)
(* bidirectional QUIC stream of its own, so r names both the request and   *)
(* its stream.  Each endpoint has a loop thread, which parses what arrives *)
(* and runs the callbacks, and application threads, which call the API.    *)
(* An API call looks the request up and changes its state under            *)
(* moq->mutex, and sends after unlocking: two steps, and a third when it   *)
(* then removes the stream.                                                *)
(***************************************************************************)
EXTENDS Integers, Sequences, FiniteSets

CONSTANTS
  Callers,              \* application threads of the endpoint that asks
  Answerers,            \* application threads of the endpoint that answers
  Requests,             \* request IDs, given by the caller, each used once
  Updates,              \* request IDs of updates
  None,                 \* no type, no update, no job
  Version,              \* 17 or 18
  Types,                \* the request types in use
  Handled,              \* the types the responder has a callback for
  HandlesUpdates,       \* whether it has the request_updated callback
  Size,                 \* [Kinds -> Nat]: length of the body of a message
  MaxNotes              \* bound on NAMESPACE and similar messages per request

AllTypes == {"PUBLISH", "SUBSCRIBE", "PUBLISH_NAMESPACE",
             "SUBSCRIBE_NAMESPACE", "SUBSCRIBE_TRACKS", "FETCH", "TRACK_STATUS"}
Notes == {"NAMESPACE", "NAMESPACE_DONE", "PUBLISH_BLOCKED"}
TypedOks == {"PUBLISH_OK", "SUBSCRIBE_OK", "FETCH_OK"}
Kinds == AllTypes \cup Notes \cup TypedOks
           \cup {"REQUEST_OK", "REQUEST_ERROR", "REQUEST_UPDATE",
                 "PUBLISH_DONE", "GOAWAY"}
States == {"NEW", "SENT", "OK", "ERROR", "UPDATE_SENT", "DONE"}
Sides == {"out", "in"}
Tables == {"streams", "byReqid"}
Threads == Callers \cup Answerers
Ids == Requests \cup Updates

ASSUME RequestsAssumption ==
  /\ Callers \cap Answerers = {}
  /\ Requests \cap Updates = {}
  /\ None \notin Ids \cup AllTypes
  /\ Version \in {17, 18}
  /\ Types \subseteq AllTypes
  /\ Version = 17 => "SUBSCRIBE_TRACKS" \notin Types
  /\ Handled \subseteq Types
  /\ HandlesUpdates \in BOOLEAN
  /\ Size \in [Kinds -> Nat \ {0}]
  /\ MaxNotes \in Nat

VARIABLES
  type,                 \* [Requests -> Types or None]: request_type
  state,                \* [Sides -> [Requests -> States]]: request_state
  streams,              \* [Sides -> SUBSET Requests]: moq->streams
  byReqid,              \* [Sides -> SUBSET Requests]: moq->streams_by_reqid
  updateId,             \* [Requests -> Updates or None]: update_request_id
  requests,             \* moq->requests of the requester
  updateRequests,       \* moq->update_requests of the responder, as pairs
  wire,                 \* [Sides -> [Requests -> Seq(message)]]: on the way TO a side
  fin,                  \* [Sides -> [Requests -> {"no", "sent", "read"}]]
  buffer,               \* [Sides -> [Requests -> Seq(message)]]
  reading,              \* [Sides -> what the loop thread is parsing, or None]
  job,                  \* [Threads -> the rest of a call, or None]
  violated,             \* a PROTOCOL_VIOLATION closed the connection
  controlEnded,         \* a FIN was sent on the responder's control stream
  notes,                \* [Requests -> 0..MaxNotes]
  decision,             \* [Ids -> Seq({"OK", "ERROR"})]
  told,                 \* [Ids -> Seq({"OK", "ERROR"})]
  ended,                \* [Requests -> Nat]: end callbacks of the responder
  left                  \* requests the requester itself gave up or ended

requestVars == <<type, state, streams, byReqid, updateId>>
tableVars == <<requests, updateRequests>>
wireVars == <<wire, fin>>
loopVars == <<buffer, reading>>
historyVars == <<notes, decision, told, ended, left>>
vars == <<requestVars, tableVars, wireVars, loopVars, job, violated,
          controlEnded, historyVars>>

-----------------------------------------------------------------------------
(* Messages and streams *)

Msg(kind, id) == [kind |-> kind, id |-> id]

Peer(s) == IF s = "out" THEN "in" ELSE "out"
SideOf(t) == IF t \in Callers THEN "out" ELSE "in"

(* imquic_connection_send_on_stream: refused once a FIN was sent. *)
Send(s, r, m, last) ==
  IF fin[Peer(s)][r] # "no"
  THEN UNCHANGED wireVars
  ELSE /\ wire' = [wire EXCEPT ![Peer(s)][r] = Append(@, m)]
       /\ fin' = [fin EXCEPT ![Peer(s)][r] = IF last THEN "sent" ELSE @]

(* The message that accepts a request. *)
OkKind(ty) ==
  CASE ty = "SUBSCRIBE" -> "SUBSCRIBE_OK"
    [] ty = "FETCH" -> "FETCH_OK"
    [] ty = "PUBLISH" /\ Version < 18 -> "PUBLISH_OK"
    [] OTHER -> "REQUEST_OK"

Answered == {"OK", "UPDATE_SENT"}
NamespaceTypes == {"SUBSCRIBE_NAMESPACE", "SUBSCRIBE_TRACKS"}

(* What a call still has to do after unlocking: send m on its stream, then *)
(* drop the stream from some tables.                                       *)
Job(r, m, last, drop) ==
  [req |-> r, msg |-> m, last |-> last, drop |-> drop, control |-> FALSE]

Init ==
  /\ type = [r \in Requests |-> None]
  /\ state = [s \in Sides |-> [r \in Requests |-> "NEW"]]
  /\ streams = [s \in Sides |-> {}]
  /\ byReqid = [s \in Sides |-> {}]
  /\ updateId = [r \in Requests |-> None]
  /\ requests = {} /\ updateRequests = {}
  /\ wire = [s \in Sides |-> [r \in Requests |-> <<>>]]
  /\ fin = [s \in Sides |-> [r \in Requests |-> "no"]]
  /\ buffer = [s \in Sides |-> [r \in Requests |-> <<>>]]
  /\ reading = [s \in Sides |-> None]
  /\ job = [t \in Threads |-> None]
  /\ violated = FALSE /\ controlEnded = FALSE
  /\ notes = [r \in Requests |-> 0]
  /\ decision = [i \in Ids |-> <<>>]
  /\ told = [i \in Ids |-> <<>>]
  /\ ended = [r \in Requests |-> 0]
  /\ left = {}

-----------------------------------------------------------------------------
(* Calls of the endpoint that asks *)

(* A call starts: the thread is free and the connection is open. *)
Free(t) == job[t] = None /\ ~violated

(* What the calls that make a request have in common. *)
Request(t, r, ty) ==
  /\ Free(t)
  /\ ty \in Types
  /\ type[r] = None
  /\ type' = [type EXCEPT ![r] = ty]
  /\ requests' = requests \cup {r}
  /\ streams' = [streams EXCEPT !["out"] = @ \cup {r}]
  /\ byReqid' = [byReqid EXCEPT !["out"] = @ \cup {r}]
  /\ state' = [state EXCEPT !["out"][r] = "SENT"]
  /\ job' = [job EXCEPT ![t] = Job(r, Msg(ty, r), FALSE, {})]
  /\ UNCHANGED <<updateId, updateRequests, wireVars, loopVars, violated,
                 controlEnded, historyVars>>

PublishNamespace(t, r) == Request(t, r, "PUBLISH_NAMESPACE")
Publish(t, r) == Request(t, r, "PUBLISH")
Subscribe(t, r) == Request(t, r, "SUBSCRIBE")
SubscribeNamespace(t, r) == Request(t, r, "SUBSCRIBE_NAMESPACE")
SubscribeTracks(t, r) == Request(t, r, "SUBSCRIBE_TRACKS")
Fetch(t, r) == Request(t, r, "FETCH")
TrackStatus(t, r) == Request(t, r, "TRACK_STATUS")

(* imquic_moq_update_request.  The ID of the update is recorded before the *)
(* request is looked up.                                                   *)
\* Mutant: an update may precede the answer to the request.
CanUpdateAnytime(r) == r \in byReqid["out"]

CanUpdate(r) == r \in byReqid["out"] /\ state["out"][r] = "OK"

UpdateRequest(t, u, r) ==
  /\ Free(t)
  /\ u \notin requests
  /\ decision[u] = <<>>
  /\ requests' = requests \cup {u}
  /\ \/ /\ CanUpdate(r)
        /\ updateId' = [updateId EXCEPT ![r] = u]
        /\ state' = [state EXCEPT !["out"][r] = "UPDATE_SENT"]
        /\ job' = [job EXCEPT ![t] = Job(r, Msg("REQUEST_UPDATE", u), FALSE, {})]
     \/ /\ ~CanUpdate(r)
        /\ UNCHANGED <<updateId, state, job>>
  /\ UNCHANGED <<type, streams, byReqid, updateRequests, wireVars, loopVars,
                 violated, controlEnded, historyVars>>

(* What the calls that give a request up have in common.  The reset or the *)
(* STOP_SENDING they ask for is refused by the connection (see             *)
(* ImquicConnection), so the responder learns nothing.                     *)
Cancel(t, r, ty) ==
  /\ Free(t)
  /\ r \in byReqid["out"] /\ type[r] = ty
  /\ streams' = [streams EXCEPT !["out"] = @ \ {r}]
  /\ byReqid' = [byReqid EXCEPT !["out"] = @ \ {r}]
  /\ left' = left \cup {r}
  /\ UNCHANGED <<type, state, updateId, tableVars, wireVars, loopVars, job,
                 violated, controlEnded, notes, decision, told, ended>>

Unsubscribe(t, r) == Cancel(t, r, "SUBSCRIBE")
UnsubscribeNamespace(t, r) == Cancel(t, r, "SUBSCRIBE_NAMESPACE")
UnsubscribeTracks(t, r) == Cancel(t, r, "SUBSCRIBE_TRACKS")
PublishNamespaceDone(t, r) ==
  state["out"][r] \in Answered /\ Cancel(t, r, "PUBLISH_NAMESPACE")

(* imquic_moq_publish_done, of either endpoint: the request is checked but *)
(* its state is not changed.                                               *)
PublishDone(t, r) ==
  LET s == SideOf(t) IN
  /\ Free(t)
  /\ r \in byReqid[s]
  /\ type[r] = IF s = "out" THEN "PUBLISH" ELSE "SUBSCRIBE"
  /\ state[s][r] \in Answered
  /\ job' = [job EXCEPT ![t] = Job(r, Msg("PUBLISH_DONE", r), TRUE, Tables)]
  /\ left' = IF s = "out" THEN left \cup {r} ELSE left
  /\ UNCHANGED <<requestVars, tableVars, wireVars, loopVars, violated,
                 controlEnded, notes, decision, told, ended>>

-----------------------------------------------------------------------------
(* Calls of the endpoint that answers *)

(* The application was told of the request and it is not answered yet. *)

Answerable(r) ==
  /\ r \in byReqid["in"]
  /\ type[r] \in Handled
  /\ state["in"][r] = "SENT"

(* What the calls that accept a request have in common. *)
Accept(t, r, ty) ==
  /\ Free(t)
  /\ Answerable(r) /\ type[r] = ty
  /\ state' = [state EXCEPT !["in"][r] = "OK"]
  /\ decision' = [decision EXCEPT ![r] = Append(@, "OK")]
  /\ job' = [job EXCEPT ![t] = Job(r, Msg(OkKind(ty), r), FALSE, {})]
  /\ UNCHANGED <<type, streams, byReqid, updateId, tableVars, wireVars,
                 loopVars, violated, controlEnded, notes, told, ended, left>>

AcceptPublishNamespace(t, r) == Accept(t, r, "PUBLISH_NAMESPACE")
AcceptPublish(t, r) == Accept(t, r, "PUBLISH")
AcceptSubscribe(t, r) == Accept(t, r, "SUBSCRIBE")
AcceptSubscribeNamespace(t, r) == Accept(t, r, "SUBSCRIBE_NAMESPACE")
AcceptSubscribeTracks(t, r) == Accept(t, r, "SUBSCRIBE_TRACKS")
AcceptFetch(t, r) == Accept(t, r, "FETCH")
AcceptTrackStatus(t, r) == Accept(t, r, "TRACK_STATUS")

(* The tables a rejected request is removed from. *)
RejectDrops(call) ==
  IF call = "PUBLISH_NAMESPACE" THEN {"streams"} ELSE Tables

(* The requests a call rejects: imquic_moq_reject_publish tests for         *)
(* PUBLISH_NAMESPACE, and refuses every PUBLISH; imquic_moq_reject_fetch    *)
(* takes any.                                                               *)
\* Mutant: imquic_moq_reject_fetch has the slip of imquic_moq_reject_publish.
RejectsFew(call, ty) ==
  ty = IF call \in {"PUBLISH", "FETCH"} THEN "PUBLISH_NAMESPACE" ELSE call

Rejects(call, ty) ==
  \/ call = "FETCH"
  \/ ty = IF call = "PUBLISH" THEN "PUBLISH_NAMESPACE" ELSE call

Rejectable(ty) == Rejects(ty, ty)

(* imquic_moq_reject_track_status writes its REQUEST_ERROR for the control *)
(* stream, where this version has none: only the FIN is sent, there.       *)
\* Mutant: every rejection goes to the control stream.
ErrorOnControlAlways(call) == TRUE

ErrorOnControl(call) == call = "TRACK_STATUS"

RejectJob(r, call) ==
  [Job(r, Msg("REQUEST_ERROR", r), TRUE, RejectDrops(call))
     EXCEPT !.control = ErrorOnControl(call)]

(* What the calls that reject a request have in common. *)
Reject(t, r, call) ==
  /\ Free(t)
  /\ Answerable(r) /\ Rejects(call, type[r])
  /\ state' = [state EXCEPT !["in"][r] = "ERROR"]
  /\ decision' = [decision EXCEPT ![r] = Append(@, "ERROR")]
  /\ job' = [job EXCEPT ![t] = RejectJob(r, call)]
  /\ UNCHANGED <<type, streams, byReqid, updateId, tableVars, wireVars,
                 loopVars, violated, controlEnded, notes, told, ended, left>>

RejectPublishNamespace(t, r) == Reject(t, r, "PUBLISH_NAMESPACE")
RejectPublish(t, r) == Reject(t, r, "PUBLISH")
RejectSubscribe(t, r) == Reject(t, r, "SUBSCRIBE")
RejectSubscribeNamespace(t, r) == Reject(t, r, "SUBSCRIBE_NAMESPACE")
RejectSubscribeTracks(t, r) == Reject(t, r, "SUBSCRIBE_TRACKS")
RejectFetch(t, r) == Reject(t, r, "FETCH")
RejectTrackStatus(t, r) == Reject(t, r, "TRACK_STATUS")

AnswerKind(answer) == IF answer = "OK" THEN "REQUEST_OK" ELSE "REQUEST_ERROR"

(* What the answers to an update have in common: it is forgotten before   *)
(* its request is looked up.                                              *)
AnswerUpdate(t, u, r, answer) ==
  /\ Free(t)
  /\ <<u, r>> \in updateRequests
  /\ updateRequests' = updateRequests \ {<<u, r>>}
  /\ \/ /\ r \in byReqid["in"] /\ state["in"][r] = "UPDATE_SENT"
        /\ state' = [state EXCEPT !["in"][r] = "OK"]
        /\ decision' = [decision EXCEPT ![u] = Append(@, answer)]
        /\ job' = [job EXCEPT ![t] = Job(r, Msg(AnswerKind(answer), u), FALSE, {})]
     \/ /\ ~(r \in byReqid["in"] /\ state["in"][r] = "UPDATE_SENT")
        /\ UNCHANGED <<state, decision, job>>
  /\ UNCHANGED <<type, streams, byReqid, updateId, requests, wireVars,
                 loopVars, violated, controlEnded, notes, told, ended, left>>

AcceptRequestUpdate(t, u, r) == AnswerUpdate(t, u, r, "OK")
RejectRequestUpdate(t, u, r) == AnswerUpdate(t, u, r, "ERROR")

(* What the notifications have in common. *)
Notify(t, r, note) ==
  /\ Free(t)
  /\ notes[r] < MaxNotes
  /\ r \in byReqid["in"]
  /\ state["in"][r] \in Answered
  /\ job' = [job EXCEPT ![t] = Job(r, Msg(note, r), FALSE, {})]
  /\ notes' = [notes EXCEPT ![r] = @ + 1]
  /\ UNCHANGED <<requestVars, tableVars, wireVars, loopVars, violated,
                 controlEnded, decision, told, ended, left>>

NotifyNamespace(t, r) ==
  type[r] = "SUBSCRIBE_NAMESPACE" /\ Notify(t, r, "NAMESPACE")
NotifyNamespaceDone(t, r) ==
  type[r] = "SUBSCRIBE_NAMESPACE" /\ Notify(t, r, "NAMESPACE_DONE")
NotifyPublishBlocked(t, r) ==
  type[r] \in NamespaceTypes /\ Notify(t, r, "PUBLISH_BLOCKED")

(* imquic_moq_request_goaway *)
RequestGoaway(t, r) ==
  /\ Free(t)
  /\ Version >= 18
  /\ r \in byReqid["in"]
  /\ state' = [state EXCEPT !["in"][r] = "DONE"]
  /\ job' = [job EXCEPT ![t] = Job(r, Msg("GOAWAY", r), TRUE, Tables)]
  /\ UNCHANGED <<type, streams, byReqid, updateId, tableVars, wireVars,
                 loopVars, violated, controlEnded, historyVars>>

-----------------------------------------------------------------------------
(* The rest of a call *)


(* The send that follows the critical section. *)
SendJob(t) ==
  /\ job[t] # None /\ job[t].msg # None
  /\ IF job[t].control
     THEN controlEnded' = TRUE /\ UNCHANGED wireVars
     ELSE /\ Send(SideOf(t), job[t].req, job[t].msg, job[t].last)
          /\ UNCHANGED controlEnded
  /\ job' = [job EXCEPT ![t] = IF @.drop = {} THEN None ELSE [@ EXCEPT !.msg = None]]
  /\ UNCHANGED <<requestVars, tableVars, loopVars, violated, historyVars>>

(* The removal that follows a FIN. *)
DropJob(t) ==
  LET s == SideOf(t)  r == job[t].req IN
  /\ job[t] # None /\ job[t].msg = None
  /\ streams' = [streams EXCEPT ![s] = @ \ {r}]
  /\ byReqid' = IF "byReqid" \in job[t].drop
                THEN [byReqid EXCEPT ![s] = @ \ {r}] ELSE byReqid
  /\ job' = [job EXCEPT ![t] = None]
  /\ UNCHANGED <<type, state, updateId, tableVars, wireVars, loopVars, violated,
                 controlEnded, historyVars>>

-----------------------------------------------------------------------------
(* The loop thread *)

(* The responder makes a stream for a request whose first message it sees. *)
IsRequest(s, r, n) == s = "in" /\ n > 0 /\ wire[s][r][1].kind \in AllTypes

(* imquic_moq_parse_message gets n more messages of stream r, and the FIN  *)
(* if final.  Data of a stream it does not know is dropped.                *)
Arrive(s, r, n, final) ==
  /\ ~violated /\ reading[s] = None
  /\ n <= Len(wire[s][r])
  /\ n > 0 \/ final
  /\ final => n = Len(wire[s][r]) /\ fin[s][r] = "sent"
  /\ wire' = [wire EXCEPT ![s][r] = SubSeq(@, n + 1, Len(@))]
  /\ fin' = [fin EXCEPT ![s][r] = IF final THEN "read" ELSE @]
  /\ IF r \in streams[s] \/ IsRequest(s, r, n)
     THEN /\ streams' = [streams EXCEPT ![s] = @ \cup {r}]
          /\ buffer' = [buffer EXCEPT ![s][r] = @ \o SubSeq(wire[s][r], 1, n)]
          /\ reading' = [reading EXCEPT ![s] = [req |-> r, size |-> 0, final |-> final]]
     ELSE UNCHANGED <<streams, loopVars>>
  /\ UNCHANGED <<type, state, byReqid, updateId, tableVars, job, violated,
                 controlEnded, historyVars>>

(* The loop thread of s is about to parse message m of stream r. *)
Parsing(s, r, m) ==
  /\ ~violated /\ reading[s] # None
  /\ r = reading[s].req /\ buffer[s][r] # <<>>
  /\ m = Head(buffer[s][r])


Taken(s, r, m) ==
  /\ buffer' = [buffer EXCEPT ![s][r] = Tail(@)]
  /\ reading' = [reading EXCEPT ![s] =
                   IF Size[m.kind] = @.size THEN None ELSE [@ EXCEPT !.size = Size[m.kind]]]
  /\ UNCHANGED <<type, job, violated, notes, left>>

(* The request or update a REQUEST_OK or a REQUEST_ERROR is about. *)
\* Mutant: every answer is taken for the answer to the request.
AnsweredRequest(r) == r

AnsweredId(r) == IF state["out"][r] = "SENT" THEN r ELSE updateId[r]

(* The test at the top of each parser of the requester. *)
ValidAnswer(r, m) ==
  LET st == state["out"][r] IN
  \/ m.kind \in {"REQUEST_OK", "REQUEST_ERROR"} /\ st \in {"SENT", "UPDATE_SENT"}
  \/ m.kind \in TypedOks /\ m.kind = OkKind(type[r]) /\ st = "SENT"
  \/ m.kind = "PUBLISH_DONE" /\ type[r] = "SUBSCRIBE" /\ st \notin {"NEW", "ERROR", "DONE"}
  \/ m.kind \in {"NAMESPACE", "NAMESPACE_DONE"} /\ type[r] = "SUBSCRIBE_NAMESPACE"
       /\ st \in Answered
  \/ m.kind = "PUBLISH_BLOCKED" /\ type[r] \in NamespaceTypes /\ st \in Answered
  \/ m.kind = "GOAWAY"

(* The parsers of answers that carry no type. *)
ParseAnswer(r, m) ==
  LET id == AnsweredId(r)
      answer == IF m.kind = "REQUEST_OK" THEN "OK" ELSE "ERROR" IN
  /\ Parsing("out", r, m)
  /\ ValidAnswer(r, m)
  /\ state' = [state EXCEPT !["out"][r] =
                 IF answer = "OK" \/ @ = "UPDATE_SENT" THEN "OK" ELSE "ERROR"]
  /\ updateId' = IF id = r THEN updateId ELSE [updateId EXCEPT ![r] = None]
  /\ told' = IF id \in requests THEN [told EXCEPT ![id] = Append(@, answer)] ELSE told
  /\ requests' = requests \ {id}
  /\ Taken("out", r, m)
  /\ UNCHANGED <<streams, byReqid, updateRequests, wireVars, controlEnded, decision, ended>>

ParseRequestOk(r, m) == m.kind = "REQUEST_OK" /\ ParseAnswer(r, m)
ParseRequestError(r, m) == m.kind = "REQUEST_ERROR" /\ ParseAnswer(r, m)

(* The parsers of answers of one type. *)
ParseTypedOk(r, m) ==
  /\ Parsing("out", r, m)
  /\ ValidAnswer(r, m)
  /\ state' = [state EXCEPT !["out"][r] = "OK"]
  /\ told' = [told EXCEPT ![r] = Append(@, "OK")]
  /\ Taken("out", r, m)
  /\ UNCHANGED <<streams, byReqid, updateId, tableVars, wireVars, controlEnded, decision, ended>>

ParsePublishOk(r, m) == m.kind = "PUBLISH_OK" /\ ParseTypedOk(r, m)
ParseSubscribeOk(r, m) == m.kind = "SUBSCRIBE_OK" /\ ParseTypedOk(r, m)
ParseFetchOk(r, m) == m.kind = "FETCH_OK" /\ ParseTypedOk(r, m)

(* The parsers of messages that only the application hears of. *)
ParseNotice(r, m) ==
  /\ Parsing("out", r, m)
  /\ ValidAnswer(r, m)
  /\ Taken("out", r, m)
  /\ UNCHANGED <<state, streams, byReqid, updateId, tableVars, wireVars,
                 controlEnded, decision, told, ended>>

ParseNamespace(r, m) == m.kind = "NAMESPACE" /\ ParseNotice(r, m)
ParseNamespaceDone(r, m) == m.kind = "NAMESPACE_DONE" /\ ParseNotice(r, m)
ParsePublishBlocked(r, m) == m.kind = "PUBLISH_BLOCKED" /\ ParseNotice(r, m)
ParseGoaway(r, m) == m.kind = "GOAWAY" /\ ParseNotice(r, m)

(* imquic_moq_parse_publish_done by a subscriber *)
ParseSubscriptionDone(r, m) ==
  /\ Parsing("out", r, m)
  /\ m.kind = "PUBLISH_DONE" /\ ValidAnswer(r, m)
  /\ state' = [state EXCEPT !["out"][r] = "DONE"]
  /\ Taken("out", r, m)
  /\ UNCHANGED <<streams, byReqid, updateId, tableVars, wireVars, controlEnded,
                 decision, told, ended>>

(* The test at the top of each parser of the responder. *)
ValidAsked(r, m) ==
  LET st == state["in"][r] IN
  \/ m.kind \in AllTypes /\ st = "NEW"
  \/ m.kind = "REQUEST_UPDATE" /\ st = "OK"
  \/ m.kind = "PUBLISH_DONE" /\ type[r] = "PUBLISH" /\ st \notin {"NEW", "ERROR", "DONE"}

(* What the parsers of requests do with one that is handed to the          *)
(* application (or cannot be rejected).                                    *)
ParseHandled(r, m) ==
  /\ Parsing("in", r, m)
  /\ ValidAsked(r, m)
  /\ m.kind \in Handled \/ ~Rejectable(m.kind)
  /\ state' = [state EXCEPT !["in"][r] = "SENT"]
  /\ byReqid' = [byReqid EXCEPT !["in"] = @ \cup {r}]
  /\ Taken("in", r, m)
  /\ UNCHANGED <<streams, updateId, tableVars, wireVars, controlEnded, decision, told, ended>>

(* What they do with one that has no callback: they call the function that *)
(* rejects it.  Nobody else knows the request yet.                         *)
ParseUnhandled(r, m) ==
  /\ Parsing("in", r, m)
  /\ ValidAsked(r, m)
  /\ m.kind \notin Handled /\ Rejectable(m.kind)
  /\ state' = [state EXCEPT !["in"][r] = "ERROR"]
  /\ decision' = [decision EXCEPT ![r] = Append(@, "ERROR")]
  /\ streams' = [streams EXCEPT !["in"] = @ \ {r}]
  /\ byReqid' = IF "byReqid" \in RejectDrops(m.kind)
                THEN byReqid ELSE [byReqid EXCEPT !["in"] = @ \cup {r}]
  /\ IF ErrorOnControl(m.kind)
     THEN controlEnded' = TRUE /\ UNCHANGED wireVars
     ELSE Send("in", r, Msg("REQUEST_ERROR", r), TRUE) /\ UNCHANGED controlEnded
  /\ Taken("in", r, m)
  /\ UNCHANGED <<updateId, tableVars, told, ended>>

ParseRequest(r, m) == ParseHandled(r, m) \/ ParseUnhandled(r, m)

ParsePublishNamespace(r, m) == m.kind = "PUBLISH_NAMESPACE" /\ ParseRequest(r, m)
ParsePublish(r, m) == m.kind = "PUBLISH" /\ ParseRequest(r, m)
ParseSubscribe(r, m) == m.kind = "SUBSCRIBE" /\ ParseRequest(r, m)
ParseSubscribeNamespace(r, m) == m.kind = "SUBSCRIBE_NAMESPACE" /\ ParseRequest(r, m)
ParseSubscribeTracks(r, m) == m.kind = "SUBSCRIBE_TRACKS" /\ ParseRequest(r, m)
ParseFetch(r, m) == m.kind = "FETCH" /\ ParseRequest(r, m)
ParseTrackStatus(r, m) == m.kind = "TRACK_STATUS" /\ ParseRequest(r, m)

(* imquic_moq_parse_request_update.  Without a callback the update goes to *)
(* imquic_moq_reject_request_update, which does not find it.               *)
ParseRequestUpdate(r, m) ==
  /\ Parsing("in", r, m)
  /\ m.kind = "REQUEST_UPDATE" /\ ValidAsked(r, m)
  /\ state' = [state EXCEPT !["in"][r] = "UPDATE_SENT"]
  /\ updateRequests' = IF HandlesUpdates
                       THEN updateRequests \cup {<<m.id, r>>} ELSE updateRequests
  /\ Taken("in", r, m)
  /\ UNCHANGED <<streams, byReqid, updateId, requests, wireVars, controlEnded,
                 decision, told, ended>>

(* imquic_moq_parse_publish_done by the endpoint a track is published to. *)
ParsePublishDone(r, m) ==
  /\ Parsing("in", r, m)
  /\ m.kind = "PUBLISH_DONE" /\ ValidAsked(r, m)
  /\ state' = [state EXCEPT !["in"][r] = "DONE"]
  /\ ended' = [ended EXCEPT ![r] = @ + 1]
  /\ Taken("in", r, m)
  /\ UNCHANGED <<streams, byReqid, updateId, tableVars, wireVars, controlEnded,
                 decision, told>>

(* A parser's test fails: the connection is closed. *)
Violation(s, r, m) ==
  /\ Parsing(s, r, m)
  /\ ~(IF s = "out" THEN ValidAnswer(r, m) ELSE ValidAsked(r, m))
  /\ violated' = TRUE
  /\ UNCHANGED <<requestVars, tableVars, wireVars, loopVars, job, controlEnded, historyVars>>

(* The end callbacks of imquic_moq_request_stream_closed. *)
HasEndCallback(ty) == ty # "TRACK_STATUS"

(* Everything was parsed; after a FIN, imquic_moq_request_stream_closed. *)
FinishReading(s, r) ==
  /\ ~violated /\ reading[s] # None
  /\ r = reading[s].req /\ buffer[s][r] = <<>>
  /\ reading' = [reading EXCEPT ![s] = None]
  /\ IF reading[s].final
     THEN /\ streams' = [streams EXCEPT ![s] = @ \ {r}]
          /\ byReqid' = [byReqid EXCEPT ![s] = @ \ {r}]
          /\ ended' = IF s = "in" /\ HasEndCallback(type[r])
                      THEN [ended EXCEPT ![r] = @ + 1] ELSE ended
     ELSE UNCHANGED <<streams, byReqid, ended>>
  /\ UNCHANGED <<type, state, updateId, tableVars, wireVars, buffer, job,
                 violated, controlEnded, notes, decision, told, left>>

-----------------------------------------------------------------------------

Ask(t) ==
  \E r \in Requests:
    \/ PublishNamespace(t, r) \/ Publish(t, r) \/ Subscribe(t, r)
    \/ SubscribeNamespace(t, r) \/ SubscribeTracks(t, r)
    \/ Fetch(t, r) \/ TrackStatus(t, r)
    \/ \E u \in Updates: UpdateRequest(t, u, r)
    \/ Unsubscribe(t, r) \/ UnsubscribeNamespace(t, r) \/ UnsubscribeTracks(t, r)
    \/ PublishNamespaceDone(t, r) \/ PublishDone(t, r)

Answer(t) ==
  \E r \in Requests:
    \/ AcceptPublishNamespace(t, r) \/ RejectPublishNamespace(t, r)
    \/ AcceptPublish(t, r) \/ RejectPublish(t, r)
    \/ AcceptSubscribe(t, r) \/ RejectSubscribe(t, r)
    \/ AcceptSubscribeNamespace(t, r) \/ RejectSubscribeNamespace(t, r)
    \/ AcceptSubscribeTracks(t, r) \/ RejectSubscribeTracks(t, r)
    \/ AcceptFetch(t, r) \/ RejectFetch(t, r)
    \/ AcceptTrackStatus(t, r) \/ RejectTrackStatus(t, r)
    \/ \E u \in Updates: AcceptRequestUpdate(t, u, r) \/ RejectRequestUpdate(t, u, r)
    \/ NotifyNamespace(t, r) \/ NotifyNamespaceDone(t, r) \/ NotifyPublishBlocked(t, r)
    \/ PublishDone(t, r)
    \/ RequestGoaway(t, r)

Continue(t) == SendJob(t) \/ DropJob(t)

(* The head of the buffer being parsed, if any. *)
Heads(s, r) == IF buffer[s][r] = <<>> THEN {} ELSE {Head(buffer[s][r])}

(* The parsers of the endpoint that asks, and of the one that answers. *)
ParseReply(r, m) ==
  \/ ParseRequestOk(r, m) \/ ParseRequestError(r, m)
  \/ ParsePublishOk(r, m) \/ ParseSubscribeOk(r, m) \/ ParseFetchOk(r, m)
  \/ ParseNamespace(r, m) \/ ParseNamespaceDone(r, m)
  \/ ParsePublishBlocked(r, m) \/ ParseGoaway(r, m) \/ ParseSubscriptionDone(r, m)

ParseAsked(r, m) ==
  \/ ParsePublishNamespace(r, m) \/ ParsePublish(r, m) \/ ParseSubscribe(r, m)
  \/ ParseSubscribeNamespace(r, m) \/ ParseSubscribeTracks(r, m)
  \/ ParseFetch(r, m) \/ ParseTrackStatus(r, m)
  \/ ParseRequestUpdate(r, m) \/ ParsePublishDone(r, m)

Parse(s, r) ==
  \E m \in Heads(s, r):
    \/ s = "out" /\ ParseReply(r, m)
    \/ s = "in" /\ ParseAsked(r, m)
    \/ Violation(s, r, m)

Loop(s) ==
  \E r \in Requests:
    \/ \E n \in 0..Len(wire[s][r]), final \in BOOLEAN: Arrive(s, r, n, final)
    \/ Parse(s, r)
    \/ FinishReading(s, r)

Next ==
  \/ \E t \in Callers: Ask(t)
  \/ \E t \in Answerers: Answer(t)
  \/ \E t \in Threads: Continue(t)
  \/ \E s \in Sides: Loop(s)

Spec == Init /\ [][Next]_vars

(* A call that started goes on, and each loop thread reads what arrives.   *)
(* Nothing makes an application ask, answer or cancel.                     *)
Fairness ==
  /\ \A t \in Threads: WF_vars(Continue(t))
  /\ \A s \in Sides: WF_vars(Loop(s))

LiveSpec == Spec /\ Fairness

-----------------------------------------------------------------------------
(* Properties *)

Messages == [kind: Kinds, id: Ids]
Jobs == [req: Requests, msg: Messages \cup {None}, last: BOOLEAN,
         drop: SUBSET Tables, control: BOOLEAN]
Readings == [req: Requests, size: Nat, final: BOOLEAN]

(* None stands for what is absent: it is not a message, a job or a reading. *)
ASSUME NoneIsNothing == None \notin Messages \cup Jobs \cup Readings

(* Types of the variables. *)
TypeOK ==
  /\ type \in [Requests -> Types \cup {None}]
  /\ state \in [Sides -> [Requests -> States]]
  /\ streams \in [Sides -> SUBSET Requests]
  /\ byReqid \in [Sides -> SUBSET Requests]
  /\ updateId \in [Requests -> Updates \cup {None}]
  /\ requests \subseteq Ids
  /\ updateRequests \subseteq Updates \X Requests
  /\ wire \in [Sides -> [Requests -> Seq(Messages)]]
  /\ fin \in [Sides -> [Requests -> {"no", "sent", "read"}]]
  /\ buffer \in [Sides -> [Requests -> Seq(Messages)]]
  /\ reading \in [Sides -> Readings \cup {None}]
  /\ job \in [Threads -> Jobs \cup {None}]
  /\ violated \in BOOLEAN
  /\ controlEnded \in BOOLEAN
  /\ notes \in [Requests -> Nat]
  /\ decision \in [Ids -> Seq({"OK", "ERROR"})]
  /\ told \in [Ids -> Seq({"OK", "ERROR"})]
  /\ ended \in [Requests -> Nat]
  /\ left \subseteq Requests

(* Two endpoints driven only by their API never close the connection on    *)
(* each other: whatever one sends passes the test of the other's parser.   *)
NoViolation == ~violated

Contract == INSTANCE MoqRequestContract

(* The requester hears of a decision once, and it is the one that was      *)
(* taken, for the request and for each of its updates, although an answer  *)
(* carries no ID and is matched by the state of the stream.                *)
AnswersMatch == Contract!Spec

(* Nothing is on its way and no call is unfinished. *)
Quiet ==
  /\ \A t \in Threads: job[t] = None
  /\ \A s \in Sides: reading[s] = None
  /\ \A s \in Sides, r \in Requests: wire[s][r] = <<>> /\ fin[s][r] # "sent"

(* A request that can be looked up by its ID has its stream, at all times: *)
(* the table by ID holds no pointer of its own.  When nothing is in flight *)
(* a request the requester still tracks is tracked by the responder too,   *)
(* both see it in the same state, and an update the requester waits for is *)
(* in the hands of the responder's application, which can still answer it. *)
StatesAgree ==
  /\ TypeOK
  /\ \A s \in Sides: byReqid[s] \subseteq streams[s]
  /\ Quiet /\ ~violated =>
       \A r \in streams["out"]:
         /\ r \in streams["in"] /\ state["out"][r] = state["in"][r]
         /\ state["out"][r] = "UPDATE_SENT" => <<updateId[r], r>> \in updateRequests

(* A request the responder has no callback for is rejected by the library: *)
(* the requester is not left waiting.                                      *)
UnhandledRejected ==
  Quiet /\ ~violated =>
    \A r \in Requests \ left:
      type[r] \in Types \ Handled => told[r] = <<"ERROR">>


(* A call that goes on after unlocking uses a stream that still exists: it *)
(* takes no reference.  (It may not: see the README, what the code does.)  *)
NoStaleStream ==
  \A t \in Threads: job[t] # None => job[t].req \in streams[SideOf(t)]

(* A decision reaches the requester unless it gave the request up, and an  *)
(* answered update unless the request is over; and a stream the responder  *)
(* ends is forgotten by the requester.                                     *)
AnswerArrives ==
  /\ \A r \in Requests: decision[r] # <<>> ~> (told[r] # <<>> \/ r \in left)
  /\ \A u \in Updates: decision[u] # <<>> ~>
       (told[u] # <<>> \/ \A r \in streams["out"]: updateId[r] # u)
  /\ \A r \in Requests: fin["out"][r] # "no" ~> r \notin streams["out"]

=============================================================================
