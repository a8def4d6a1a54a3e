-------------------------- MODULE MoqRequestsProofs --------------------------
(***************************************************************************)
(* The answers of MoqRequests: a request, or an update of one, is decided    *)
(* once, and the requester is told that decision and nothing else, although  *)
(* an answer names no request, for every number of requests and threads.     *)
(* Then the requests that have no callback: their rejection is told.         *)
(***************************************************************************)
EXTENDS MoqRequests, SequenceTheorems, TLAPS

-----------------------------------------------------------------------------
(* Messages on their way.                                                    *)

AnswerKinds == TypedOks \cup {"REQUEST_OK", "REQUEST_ERROR"}
UpdateKinds == {"REQUEST_UPDATE"}
Verdict(kind) == IF kind = "REQUEST_ERROR" THEN "ERROR" ELSE "OK"

\* What has been written for side s of stream r and is not parsed yet.
Flow(s, r) == buffer[s][r] \o wire[s][r]

\* The messages about r that the threads T have yet to send, those of q, each
\* with its place, and those of certain kinds.
InJobs(J, T, r) ==
    {<<"job", t, J[t].msg>> : t \in {x \in T : J[x] # None /\ J[x].req = r /\ J[x].msg # None}}
InFlow(q) == {<<"flow", i, q[i]>> : i \in 1 .. Len(q)}
Way(J, T, r, q) == InJobs(J, T, r) \cup InFlow(q)
OfKinds(K, E) == {x \in E : x[3].kind \in K}

AnswersSent(r) == OfKinds(AnswerKinds, Way(job, Answerers, r, Flow("out", r)))
UpdatesSent(r) == OfKinds(UpdateKinds, Way(job, Callers, r, Flow("in", r)))

AtMostOne(E) == \A x, y \in E : x = y

\* Every answer on its way says what was decided of id.
Says(r, id) == \A x \in AnswersSent(r) : decision[id] = <<Verdict(x[3].kind)>>

-----------------------------------------------------------------------------
(* The invariant.                                                            *)

Histories == {<<>>, <<"OK">>, <<"ERROR">>}

\* Each is decided once, and the requester told of that.
DecidedOnce ==
    /\ decision \in [Ids -> Histories] /\ told \in [Ids -> Histories]
    /\ \A i \in Ids : told[i] = <<>> \/ told[i] = decision[i]

\* An update that waits for its answer belongs to one request.
OneRequestEach ==
    /\ \A r \in Requests : updateId[r] # None => updateId[r] \in requests
    /\ \A r, q \in Requests : updateId[r] = updateId[q] /\ updateId[r] # None => r = q

\* Nothing exists of a request that was not made.
Unmade(r) ==
    type[r] = None =>
      /\ state["out"][r] = "NEW" /\ state["in"][r] = "NEW"
      /\ r \notin byReqid["in"] /\ updateId[r] = None
      /\ Flow("in", r) = <<>> /\ AnswersSent(r) = {}
      /\ \A t \in Callers : job[t] # None => job[t].req # r

\* The responder decides once.
Asked(r) ==
    /\ state["in"][r] \in {"NEW", "SENT"} => decision[r] = <<>>
    /\ state["in"][r] = "UPDATE_SENT" =>
         UpdatesSent(r) = {} /\ updateId[r] # None /\ decision[updateId[r]] = <<>>
    /\ \A p \in updateRequests : p[2] = r =>
         /\ state["in"][r] \in {"UPDATE_SENT", "DONE"}
         /\ state["in"][r] = "UPDATE_SENT" => p[1] = updateId[r]
    /\ AtMostOne(UpdatesSent(r))
    /\ \A x \in UpdatesSent(r) :
         updateId[r] # None /\ x[3].id = updateId[r] /\ decision[updateId[r]] = <<>>
    /\ state["out"][r] \in {"NEW", "SENT", "OK"} => UpdatesSent(r) = {} /\ state["in"][r] # "UPDATE_SENT"

\* The one answer on its way is the one the state of the requester calls for.
Awaited(r) ==
    /\ state["out"][r] = "SENT" => told[r] = <<>> /\ AtMostOne(AnswersSent(r)) /\ Says(r, r)
    /\ state["out"][r] = "OK" => AnswersSent(r) = {} /\ state["in"][r] \notin {"NEW", "SENT"}
    /\ state["out"][r] = "UPDATE_SENT" =>
         /\ state["in"][r] \notin {"NEW", "SENT"}
         /\ updateId[r] # None /\ told[updateId[r]] = <<>>
         /\ AtMostOne(AnswersSent(r)) /\ Says(r, updateId[r])

RequestInv ==
    /\ TypeOK /\ DecidedOnce /\ OneRequestEach
    /\ \A r \in Requests : Unmade(r) /\ Asked(r) /\ Awaited(r)

-----------------------------------------------------------------------------
(* How what is on its way changes.                                           *)

LEMMA WayIs ==
    ASSUME NEW J, NEW T, NEW r, NEW q, NEW K
    PROVE  /\ \A x \in OfKinds(K, Way(J, T, r, q)) :
                \/ \E t \in T : /\ x = <<"job", t, J[t].msg>> /\ J[t] # None
                                /\ J[t].req = r /\ J[t].msg # None /\ J[t].msg.kind \in K
                \/ \E i \in 1 .. Len(q) : x = <<"flow", i, q[i]>> /\ q[i].kind \in K
           /\ \A t \in T : J[t] # None /\ J[t].req = r /\ J[t].msg # None /\ J[t].msg.kind \in K =>
                <<"job", t, J[t].msg>> \in OfKinds(K, Way(J, T, r, q))
           /\ \A i \in 1 .. Len(q) : q[i].kind \in K =>
                <<"flow", i, q[i]>> \in OfKinds(K, Way(J, T, r, q))
BY DEF OfKinds, Way, InJobs, InFlow

\* The messages of E2 are messages of E1, each at one place.
Shrinks(E2, E1) ==
    \E f \in [E2 -> E1] :
      /\ \A x \in E2 : f[x][3] = x[3]
      /\ \A x, y \in E2 : f[x] = f[y] => x = y

LEMMA SubsetShrinks ==
    ASSUME NEW E1, NEW E2 \in SUBSET E1
    PROVE  Shrinks(E2, E1)
<1>1. [x \in E2 |-> x] \in [E2 -> E1]
  OBVIOUS
<1>. QED  BY <1>1 DEF Shrinks

LEMMA ShrinksTwice ==
    ASSUME NEW E1, NEW E2, NEW E3, Shrinks(E3, E2), E2 \subseteq E1
    PROVE  Shrinks(E3, E1)
<1>1. PICK f \in [E3 -> E2] : /\ \A x \in E3 : f[x][3] = x[3]
                               /\ \A y, z \in E3 : f[y] = f[z] => y = z
  BY DEF Shrinks
<1>2. f \in [E3 -> E1]
  BY <1>1
<1>. QED  BY <1>1, <1>2 DEF Shrinks

LEMMA ShrinksKeeps ==
    ASSUME NEW E1, NEW E2, Shrinks(E2, E1)
    PROVE  /\ E1 = {} => E2 = {}
           /\ AtMostOne(E1) => AtMostOne(E2)
           /\ \A x \in E2 : \E y \in E1 : y[3] = x[3]
<1>1. PICK f \in [E2 -> E1] : /\ \A x \in E2 : f[x][3] = x[3]
                               /\ \A y, z \in E2 : f[y] = f[z] => y = z
  BY DEF Shrinks
<1>2. \A x \in E2 : f[x] \in E1
  BY <1>1
<1>3. \A x \in E2 : \E y \in E1 : y[3] = x[3]
  BY <1>1, <1>2
<1>4. AtMostOne(E1) => AtMostOne(E2)
  BY <1>1, <1>2 DEF AtMostOne
<1>. QED  BY <1>2, <1>3, <1>4

\* No call got a message of these kinds about r to send.
NoNewJob(J2, J, T, r, K) ==
    \A t \in T : \/ J2[t] = J[t] \/ J2[t] = None \/ J2[t].req # r
                 \/ J2[t].msg = None \/ J2[t].msg.kind \notin K

LEMMA SameFlow ==
    ASSUME NEW J, NEW J2, NEW T, NEW r, NEW q, NEW K, NoNewJob(J2, J, T, r, K)
    PROVE  OfKinds(K, Way(J2, T, r, q)) \subseteq OfKinds(K, Way(J, T, r, q))
<1> SUFFICES ASSUME NEW x \in OfKinds(K, Way(J2, T, r, q))
             PROVE  x \in OfKinds(K, Way(J, T, r, q))
  OBVIOUS
<1>1. CASE \E t \in T : /\ x = <<"job", t, J2[t].msg>> /\ J2[t] # None
                        /\ J2[t].req = r /\ J2[t].msg # None /\ J2[t].msg.kind \in K
  <2>1. PICK t \in T : /\ x = <<"job", t, J2[t].msg>> /\ J2[t] # None
                       /\ J2[t].req = r /\ J2[t].msg # None /\ J2[t].msg.kind \in K
    BY <1>1
  <2>2. J2[t] = J[t]
    BY <2>1 DEF NoNewJob
  <2>. QED  BY <2>1, <2>2, WayIs
<1>2. CASE \E i \in 1 .. Len(q) : x = <<"flow", i, q[i]>> /\ q[i].kind \in K
  BY <1>2, WayIs
<1>. QED  BY <1>1, <1>2, WayIs

\* A call got the message m about r to send.
LEMMA NewJob ==
    ASSUME NEW J, NEW J2, NEW T, NEW r, NEW q, NEW K, NEW t \in T,
           \A u \in T : u # t => J2[u] = J[u]
    PROVE  \A x \in OfKinds(K, Way(J2, T, r, q)) :
              x \in OfKinds(K, Way(J, T, r, q)) \/ x = <<"job", t, J2[t].msg>>
<1> SUFFICES ASSUME NEW x \in OfKinds(K, Way(J2, T, r, q)), x # <<"job", t, J2[t].msg>>
             PROVE  x \in OfKinds(K, Way(J, T, r, q))
  OBVIOUS
<1>1. CASE \E u \in T : /\ x = <<"job", u, J2[u].msg>> /\ J2[u] # None
                        /\ J2[u].req = r /\ J2[u].msg # None /\ J2[u].msg.kind \in K
  <2>1. PICK u \in T : /\ x = <<"job", u, J2[u].msg>> /\ J2[u] # None
                       /\ J2[u].req = r /\ J2[u].msg # None /\ J2[u].msg.kind \in K
    BY <1>1
  <2>2. J2[u] = J[u]
    BY <2>1
  <2>. QED  BY <2>1, <2>2, WayIs
<1>2. CASE \E i \in 1 .. Len(q) : x = <<"flow", i, q[i]>> /\ q[i].kind \in K
  BY <1>2, WayIs
<1>. QED  BY <1>1, <1>2, WayIs

\* A message was written without a call.
LEMMA MessageWritten ==
    ASSUME NEW J, NEW T, NEW r, NEW S, NEW q \in Seq(S), NEW m \in S, NEW K
    PROVE  \A x \in OfKinds(K, Way(J, T, r, Append(q, m))) :
              x \in OfKinds(K, Way(J, T, r, q)) \/ x = <<"flow", Len(q) + 1, m>>
<1> DEFINE a == Append(q, m)
<1>1. Len(a) = Len(q) + 1 /\ Len(q) \in Nat /\ a[Len(q) + 1] = m /\ \A i \in 1 .. Len(q) : a[i] = q[i]
  OBVIOUS
<1> HIDE DEF a
<1> SUFFICES ASSUME NEW x \in OfKinds(K, Way(J, T, r, a))
             PROVE  x \in OfKinds(K, Way(J, T, r, q)) \/ x = <<"flow", Len(q) + 1, m>>
  BY DEF a
<1>2. CASE \E i \in 1 .. Len(a) : x = <<"flow", i, a[i]>> /\ a[i].kind \in K
  <2>1. PICK i \in 1 .. Len(a) : x = <<"flow", i, a[i]>> /\ a[i].kind \in K
    BY <1>2
  <2>2. i \in 1 .. Len(q) \/ i = Len(q) + 1
    BY <1>1
  <2>3. CASE i \in 1 .. Len(q)
    BY <1>1, <2>1, <2>3, WayIs
  <2>. QED  BY <1>1, <2>1, <2>2, <2>3
<1>3. CASE \E u \in T : /\ x = <<"job", u, J[u].msg>> /\ J[u] # None
                        /\ J[u].req = r /\ J[u].msg # None /\ J[u].msg.kind \in K
  BY <1>3, WayIs
<1>. QED  BY <1>2, <1>3, WayIs

\* A call sent its message, or it was lost.
LEMMA JobSent ==
    ASSUME NEW J, NEW J2, NEW T, NEW r, NEW S, NEW q \in Seq(S), NEW q2, NEW K, NEW t \in T,
           J[t] # None, J[t].msg \in S, J[t].msg # None, J2[t] = None \/ J2[t].msg = None,
           \A u \in T : u # t => J2[u] = J[u],
           q2 = q \/ (J[t].req = r /\ q2 = Append(q, J[t].msg))
    PROVE  Shrinks(OfKinds(K, Way(J2, T, r, q2)), OfKinds(K, Way(J, T, r, q)))
<1> DEFINE E1 == OfKinds(K, Way(J, T, r, q))
           E2 == OfKinds(K, Way(J2, T, r, q2))
           m == J[t].msg
           new == <<"flow", Len(q) + 1, m>>
           old == <<"job", t, m>>
           E0 == OfKinds(K, Way(J2, T, r, q))
<1>1. NoNewJob(J2, J, T, r, K)
  BY DEF NoNewJob
<1>2. E0 \subseteq E1
  BY <1>1, SameFlow
<1>3. CASE q2 = q
  BY <1>2, <1>3, SubsetShrinks
<1>4. CASE J[t].req = r /\ q2 = Append(q, m)
  <2>1. \A x \in E2 : x \in E0 \/ x = new
    BY <1>4, MessageWritten
  <2>2. old \notin E0
    <3> SUFFICES ASSUME old \in E0 PROVE FALSE
      OBVIOUS
    <3>1. \A i \in 1 .. Len(q) : old # <<"flow", i, q[i]>>
      OBVIOUS
    <3>2. \E u \in T : /\ old = <<"job", u, J2[u].msg>> /\ J2[u] # None
                        /\ J2[u].req = r /\ J2[u].msg # None /\ J2[u].msg.kind \in K
      BY <3>1, WayIs
    <3>. QED  BY <3>2
  <2>3. new \in E2 => old \in E1
    <3> SUFFICES ASSUME new \in E2 PROVE old \in E1
      OBVIOUS
    <3>1. m.kind \in K
      BY DEF OfKinds
    <3>. QED  BY <1>4, <3>1, WayIs
  <2> DEFINE f == [x \in E2 |-> IF x = new THEN old ELSE x]
  <2>4. \A x \in E2 : x # new => x \in E1
    BY <1>2, <2>1
  <2>5. f \in [E2 -> E1]
    BY <2>3, <2>4
  <2>6. \A x \in E2 : f[x][3] = x[3]
    OBVIOUS
  <2>7. \A x, y \in E2 : f[x] = f[y] => x = y
    BY <2>1, <2>2
  <2>. QED  BY <2>5, <2>6, <2>7 DEF Shrinks
<1>. QED  BY <1>3, <1>4

\* Every message of q2 is one of q, from the k-th on one n places further.
Skips(q2, q, k, n) ==
    /\ Len(q2) \in Nat /\ Len(q) \in Nat /\ k \in Nat /\ n \in Nat
    /\ \A i \in 1 .. Len(q2) : IF i <= k THEN i <= Len(q) /\ q2[i] = q[i]
                               ELSE i + n <= Len(q) /\ q2[i] = q[i + n]

LEMMA MessagesGone ==
    ASSUME NEW J, NEW T, NEW r, NEW q, NEW q2, NEW K, NEW k, NEW n, Skips(q2, q, k, n)
    PROVE  Shrinks(OfKinds(K, Way(J, T, r, q2)),
                   {x \in OfKinds(K, Way(J, T, r, q)) : k = 0 /\ n > 0 => x # <<"flow", 1, q[1]>>})
<1> DEFINE E2 == OfKinds(K, Way(J, T, r, q2))
           E1 == {x \in OfKinds(K, Way(J, T, r, q)) : k = 0 /\ n > 0 => x # <<"flow", 1, q[1]>>}
           place(i) == IF i <= k THEN i ELSE i + n
           f == [x \in E2 |-> IF x[1] = "flow" THEN <<"flow", place(x[2]), x[3]>> ELSE x]
<1>1. k \in Nat /\ n \in Nat /\ Len(q) \in Nat /\ Len(q2) \in Nat
  BY DEF Skips
<1>2. ASSUME NEW i \in 1 .. Len(q2)
      PROVE  place(i) \in 1 .. Len(q) /\ q2[i] = q[place(i)] /\ (k = 0 /\ n > 0 => place(i) # 1)
  BY <1>1 DEF Skips
<1>3. ASSUME NEW i \in 1 .. Len(q2), NEW j \in 1 .. Len(q2), place(i) = place(j)
      PROVE  i = j
  BY <1>1, <1>3
<1> HIDE DEF place
<1>4. ASSUME NEW x \in E2
      PROVE  f[x] \in E1 /\ f[x][3] = x[3] /\ f[x][1] = x[1]
             /\ (x[1] = "flow" => x[2] \in 1 .. Len(q2) /\ f[x][2] = place(x[2]) /\ x = <<"flow", x[2], x[3]>>)
             /\ (x[1] # "flow" => f[x] = x)
             /\ (x[1] = "flow" => x[3] = q2[x[2]])
  <2>1. CASE \E i \in 1 .. Len(q2) : x = <<"flow", i, q2[i]>> /\ q2[i].kind \in K
    <3>1. PICK i \in 1 .. Len(q2) : x = <<"flow", i, q2[i]>> /\ q2[i].kind \in K
      BY <2>1
    <3>2. place(i) \in 1 .. Len(q) /\ q[place(i)] = q2[i] /\ (k = 0 /\ n > 0 => place(i) # 1)
      BY <1>2
    <3>3. <<"flow", place(i), q[place(i)]>> \in OfKinds(K, Way(J, T, r, q))
      BY <3>1, <3>2, WayIs
    <3>4. f[x] = <<"flow", place(i), q2[i]>>
      BY <3>1
    <3>5. f[x] \in E1
      BY <3>2, <3>3, <3>4
    <3>. QED  BY <3>1, <3>4, <3>5
  <2>2. CASE \E t \in T : /\ x = <<"job", t, J[t].msg>> /\ J[t] # None
                          /\ J[t].req = r /\ J[t].msg # None /\ J[t].msg.kind \in K
    <3>1. PICK t \in T : /\ x = <<"job", t, J[t].msg>> /\ J[t] # None
                         /\ J[t].req = r /\ J[t].msg # None /\ J[t].msg.kind \in K
      BY <2>2
    <3>2. f[x] = x /\ x[1] = "job"
      BY <3>1
    <3>3. x \in OfKinds(K, Way(J, T, r, q)) /\ x # <<"flow", 1, q[1]>>
      BY <3>1, WayIs
    <3>. QED  BY <3>2, <3>3
  <2>. QED  BY <2>1, <2>2, WayIs
<1>5. f \in [E2 -> E1]
  BY <1>4
<1>6. ASSUME NEW x \in E2, NEW y \in E2, f[x] = f[y] PROVE x = y
  <2>1. CASE x[1] = "flow"
    <3>1. y[1] = "flow"
      BY <1>4, <1>6, <2>1
    <3>2. x[2] = y[2]
      BY <1>3, <1>4, <1>6, <2>1, <3>1
    <3>3. f[x][3] = x[3] /\ f[y][3] = y[3]
      BY <1>4
    <3>4. x[3] = y[3]
      BY <1>6, <3>3
    <3>5. x = <<"flow", x[2], x[3]>> /\ y = <<"flow", y[2], y[3]>>
      BY <1>4, <2>1, <3>1
    <3> HIDE DEF f, E2
    <3>. QED  BY <3>2, <3>4, <3>5
  <2>2. CASE x[1] # "flow"
    BY <1>4, <1>6, <2>2
  <2>. QED  BY <2>1, <2>2
<1>. QED  BY <1>4, <1>5, <1>6 DEF Shrinks

-----------------------------------------------------------------------------
(* Steps that leave a request as it was.                                     *)

\* Nothing is added to what is on its way for r.
Still(r) ==
    /\ Shrinks(AnswersSent(r)', AnswersSent(r))
    /\ Shrinks(UpdatesSent(r)', UpdatesSent(r))
    /\ type[r] = None /\ Flow("in", r) = <<>> => Flow("in", r)' = <<>>

\* A step is about other requests, or about none.
Untouched(r) ==
    /\ type'[r] = type[r] /\ \A s \in Sides : state'[s][r] = state[s][r]
    /\ r \in byReqid'["in"] => r \in byReqid["in"]
    /\ updateId'[r] = updateId[r]
    /\ decision'[r] = decision[r] /\ told'[r] = told[r]
    /\ updateId[r] # None =>
         decision'[updateId[r]] = decision[updateId[r]] /\ told'[updateId[r]] = told[updateId[r]]
    /\ \A p \in updateRequests' : p[2] = r => p \in updateRequests
    /\ type[r] = None => \A t \in Callers :
         job'[t] # None /\ job'[t].req = r => job[t] # None /\ job[t].req = r

LEMMA UntouchedKept ==
    ASSUME NEW r \in Requests, Unmade(r), Asked(r), Awaited(r), Untouched(r), Still(r)
    PROVE  Unmade(r)' /\ Asked(r)' /\ Awaited(r)'
<1>1. /\ AnswersSent(r) = {} => AnswersSent(r)' = {}
      /\ AtMostOne(AnswersSent(r)) => AtMostOne(AnswersSent(r)')
      /\ \A x \in AnswersSent(r)' : \E y \in AnswersSent(r) : y[3] = x[3]
  BY ShrinksKeeps DEF Still
<1>2. /\ UpdatesSent(r) = {} => UpdatesSent(r)' = {}
      /\ AtMostOne(UpdatesSent(r)) => AtMostOne(UpdatesSent(r)')
      /\ \A x \in UpdatesSent(r)' : \E y \in UpdatesSent(r) : y[3] = x[3]
  BY ShrinksKeeps DEF Still
<1>3. /\ type'[r] = type[r] /\ state'["out"][r] = state["out"][r] /\ state'["in"][r] = state["in"][r]
      /\ r \in byReqid'["in"] => r \in byReqid["in"]
      /\ updateId'[r] = updateId[r]
      /\ decision'[r] = decision[r] /\ told'[r] = told[r]
      /\ updateId[r] # None =>
           decision'[updateId[r]] = decision[updateId[r]] /\ told'[updateId[r]] = told[updateId[r]]
  BY DEF Untouched, Sides
<1>4. Unmade(r)'
  BY <1>1, <1>3 DEF Unmade, Still, Untouched
<1>5. Says(r, r) => Says(r, r)'
  BY <1>1, <1>3 DEF Says
<1>6. updateId[r] # None /\ Says(r, updateId[r]) => Says(r, updateId[r])'
  BY <1>1, <1>3 DEF Says
<1>7. Awaited(r)'
  <2>1. state["out"][r] = "SENT" => told[r] = <<>> /\ AtMostOne(AnswersSent(r)) /\ Says(r, r)
    BY DEF Awaited
  <2>2. state["out"][r] = "OK" => AnswersSent(r) = {} /\ state["in"][r] \notin {"NEW", "SENT"}
    BY DEF Awaited
  <2>3. state["out"][r] = "UPDATE_SENT" =>
         /\ state["in"][r] \notin {"NEW", "SENT"}
         /\ updateId[r] # None /\ told[updateId[r]] = <<>>
         /\ AtMostOne(AnswersSent(r)) /\ Says(r, updateId[r])
    BY DEF Awaited
  <2>4. state'["out"][r] = "SENT" => told'[r] = <<>> /\ AtMostOne(AnswersSent(r)') /\ Says(r, r)'
    BY <1>1, <1>3, <1>5, <2>1
  <2>5. state'["out"][r] = "OK" => AnswersSent(r)' = {} /\ state'["in"][r] \notin {"NEW", "SENT"}
    BY <1>1, <1>3, <2>2
  <2>6. state'["out"][r] = "UPDATE_SENT" =>
         /\ state'["in"][r] \notin {"NEW", "SENT"}
         /\ updateId'[r] # None /\ told'[updateId'[r]] = <<>>
         /\ AtMostOne(AnswersSent(r)') /\ Says(r, updateId[r])'
    BY <1>1, <1>3, <1>6, <2>3
  <2>. QED  BY <2>4, <2>5, <2>6 DEF Awaited
<1>8. Asked(r)'
  <2>1. state'["in"][r] \in {"NEW", "SENT"} => decision'[r] = <<>>
    BY <1>3 DEF Asked
  <2>2. state'["in"][r] = "UPDATE_SENT" =>
           UpdatesSent(r)' = {} /\ updateId'[r] # None /\ decision'[updateId'[r]] = <<>>
    BY <1>2, <1>3 DEF Asked
  <2>3. \A p \in updateRequests' : p[2] = r =>
           /\ state'["in"][r] \in {"UPDATE_SENT", "DONE"}
           /\ state'["in"][r] = "UPDATE_SENT" => p[1] = updateId'[r]
    BY <1>3 DEF Asked, Untouched
  <2>4. AtMostOne(UpdatesSent(r)')
    BY <1>2 DEF Asked
  <2>5. ASSUME NEW x \in UpdatesSent(r)'
        PROVE  updateId'[r] # None /\ x[3].id = updateId'[r] /\ decision'[updateId'[r]] = <<>>
    BY <1>2, <1>3 DEF Asked
  <2>6. state'["out"][r] \in {"NEW", "SENT", "OK"} => UpdatesSent(r)' = {} /\ state'["in"][r] # "UPDATE_SENT"
    BY <1>2, <1>3 DEF Asked
  <2>. QED  BY <2>1, <2>2, <2>3, <2>4, <2>5, <2>6 DEF Asked
<1>. QED  BY <1>4, <1>7, <1>8

LEMMA FlowTypes ==
    ASSUME TypeOK, NEW s \in Sides, NEW r \in Requests
    PROVE  /\ Flow(s, r) \in Seq(Messages)
           /\ wire[s][r] \in Seq(Messages) /\ buffer[s][r] \in Seq(Messages)
BY DEF TypeOK, Flow

\* The messages are where they were, but for the jobs.
LEMMA StillCall ==
    ASSUME NEW r, UNCHANGED <<wire, buffer>>,
           NoNewJob(job', job, Answerers, r, AnswerKinds), NoNewJob(job', job, Callers, r, UpdateKinds)
    PROVE  Still(r)
<1>1. \A s \in {"in", "out"} : Flow(s, r)' = Flow(s, r)
  BY DEF Flow
<1>2. AnswersSent(r)' = OfKinds(AnswerKinds, Way(job', Answerers, r, Flow("out", r)))
  BY <1>1 DEF AnswersSent
<1>3. UpdatesSent(r)' = OfKinds(UpdateKinds, Way(job', Callers, r, Flow("in", r)))
  BY <1>1 DEF UpdatesSent
<1>4. AnswersSent(r)' \subseteq AnswersSent(r) /\ UpdatesSent(r)' \subseteq UpdatesSent(r)
  BY <1>2, <1>3, SameFlow DEF AnswersSent, UpdatesSent
<1>. QED  BY <1>1, <1>4, SubsetShrinks DEF Still

\* A thread got the job j.
LEMMA StillJob ==
    ASSUME TypeOK, NEW r, NEW t \in Threads, NEW j, UNCHANGED <<wire, buffer>>,
           job' = [job EXCEPT ![t] = j],
           \/ j = None \/ j.req # r \/ j.msg = None
           \/ t \in Callers /\ j.msg.kind \notin UpdateKinds
           \/ t \in Answerers /\ j.msg.kind \notin AnswerKinds
    PROVE  Still(r)
<1>1. job'[t] = j /\ \A u \in Threads : u # t => job'[u] = job[u]
  BY DEF TypeOK
<1>2. Callers \subseteq Threads /\ Answerers \subseteq Threads /\ Callers \cap Answerers = {}
  BY RequestsAssumption DEF Threads
<1>3. NoNewJob(job', job, Answerers, r, AnswerKinds)
  BY <1>1, <1>2 DEF NoNewJob
<1>4. NoNewJob(job', job, Callers, r, UpdateKinds)
  BY <1>1, <1>2 DEF NoNewJob
<1>. QED  BY <1>3, <1>4, StillCall

-----------------------------------------------------------------------------
(* The steps.                                                                *)

\* What the calls, the parsers and the loop do, whichever their names.
Call(t, r) ==
    \/ \E ty \in AllTypes : Request(t, r, ty) \/ Cancel(t, r, ty)
    \/ \E u \in Updates : UpdateRequest(t, u, r)
    \/ PublishDone(t, r)
CallBack(t, r) ==
    \/ \E ty \in AllTypes : Accept(t, r, ty) \/ Reject(t, r, ty)
    \/ \E u \in Updates, answer \in {"OK", "ERROR"} : AnswerUpdate(t, u, r, answer)
    \/ \E note \in Notes : Notify(t, r, note)
    \/ PublishDone(t, r) \/ RequestGoaway(t, r)
ParseOut(r, m) ==
    \/ m.kind \in {"REQUEST_OK", "REQUEST_ERROR"} /\ ParseAnswer(r, m)
    \/ m.kind \in TypedOks /\ ParseTypedOk(r, m)
    \/ m.kind \in Notes \cup {"GOAWAY"} /\ ParseNotice(r, m)
    \/ ParseSubscriptionDone(r, m)
ParseIn(r, m) ==
    \/ m.kind \in AllTypes /\ ParseHandled(r, m)
    \/ m.kind \in AllTypes /\ ParseUnhandled(r, m)
    \/ ParseRequestUpdate(r, m) \/ ParsePublishDone(r, m)
Step ==
    \/ \E t \in Callers, r \in Requests : Call(t, r)
    \/ \E t \in Answerers, r \in Requests : CallBack(t, r)
    \/ \E t \in Threads : SendJob(t) \/ DropJob(t)
    \/ \E s \in Sides, r \in Requests :
         \/ \E n \in 0 .. Len(wire[s][r]), final \in BOOLEAN : Arrive(s, r, n, final)
         \/ \E m \in Heads(s, r) : Violation(s, r, m)
         \/ FinishReading(s, r)
    \/ \E r \in Requests : \E m \in Heads("out", r) : ParseOut(r, m)
    \/ \E r \in Requests : \E m \in Heads("in", r) : ParseIn(r, m)

LEMMA NextSteps == ASSUME Next PROVE Step
<1>1. ASSUME NEW t \in Callers, Ask(t) PROVE \E r \in Requests : Call(t, r)
  <2>1. PICK r \in Requests :
          \/ PublishNamespace(t, r) \/ Publish(t, r) \/ Subscribe(t, r)
          \/ SubscribeNamespace(t, r) \/ SubscribeTracks(t, r)
          \/ Fetch(t, r) \/ TrackStatus(t, r)
          \/ \E u \in Updates: UpdateRequest(t, u, r)
          \/ Unsubscribe(t, r) \/ UnsubscribeNamespace(t, r) \/ UnsubscribeTracks(t, r)
          \/ PublishNamespaceDone(t, r) \/ PublishDone(t, r)
    BY <1>1 DEF Ask
  <2>2. \/ \E ty \in AllTypes : Request(t, r, ty)
        \/ \E ty \in AllTypes : Cancel(t, r, ty)
        \/ \E u \in Updates : UpdateRequest(t, u, r)
        \/ PublishDone(t, r)
    BY <2>1, Zenon
       DEF AllTypes, PublishNamespace, Publish, Subscribe, SubscribeNamespace, SubscribeTracks, Fetch,
           TrackStatus, Unsubscribe, UnsubscribeNamespace, UnsubscribeTracks, PublishNamespaceDone
  <2>. QED  BY <2>2, Zenon DEF Call
<1>2. ASSUME NEW t \in Answerers, Answer(t) PROVE \E r \in Requests : CallBack(t, r)
  <2>1. PICK r \in Requests :
          \/ AcceptPublishNamespace(t, r) \/ RejectPublishNamespace(t, r)
          \/ AcceptPublish(t, r) \/ RejectPublish(t, r)
          \/ AcceptSubscribe(t, r) \/ RejectSubscribe(t, r)
          \/ AcceptSubscribeNamespace(t, r) \/ RejectSubscribeNamespace(t, r)
          \/ AcceptSubscribeTracks(t, r) \/ RejectSubscribeTracks(t, r)
          \/ AcceptFetch(t, r) \/ RejectFetch(t, r)
          \/ AcceptTrackStatus(t, r) \/ RejectTrackStatus(t, r)
          \/ \E u \in Updates: AcceptRequestUpdate(t, u, r) \/ RejectRequestUpdate(t, u, r)
          \/ NotifyNamespace(t, r) \/ NotifyNamespaceDone(t, r) \/ NotifyPublishBlocked(t, r)
          \/ PublishDone(t, r)
          \/ RequestGoaway(t, r)
    BY <1>2 DEF Answer
  <2>2. \/ \E ty \in AllTypes : Accept(t, r, ty)
        \/ \E ty \in AllTypes : Reject(t, r, ty)
        \/ \E u \in Updates : AnswerUpdate(t, u, r, "OK") \/ AnswerUpdate(t, u, r, "ERROR")
        \/ \E note \in Notes : Notify(t, r, note)
        \/ PublishDone(t, r) \/ RequestGoaway(t, r)
    BY <2>1, Zenon
       DEF AllTypes, Notes, AcceptPublishNamespace, RejectPublishNamespace, AcceptPublish, RejectPublish, AcceptSubscribe,
           RejectSubscribe, AcceptSubscribeNamespace, RejectSubscribeNamespace, AcceptSubscribeTracks,
           RejectSubscribeTracks, AcceptFetch, RejectFetch, AcceptTrackStatus, RejectTrackStatus,
           AcceptRequestUpdate, RejectRequestUpdate, NotifyNamespace, NotifyNamespaceDone, NotifyPublishBlocked
  <2>. QED  BY <2>2, Zenon DEF CallBack
<1>3. ASSUME NEW r \in Requests, NEW m, ParseReply(r, m) PROVE ParseOut(r, m)
  BY <1>3, Zenon
     DEF ParseReply, ParseOut, ParseRequestOk, ParseRequestError, ParsePublishOk, ParseSubscribeOk, ParseFetchOk,
         ParseNamespace, ParseNamespaceDone, ParsePublishBlocked, ParseGoaway, TypedOks, Notes
<1>4. ASSUME NEW r \in Requests, NEW m, ParseAsked(r, m) PROVE ParseIn(r, m)
  <2>1. \/ m.kind \in AllTypes /\ ParseRequest(r, m)
        \/ ParseRequestUpdate(r, m) \/ ParsePublishDone(r, m)
    BY <1>4, Zenon
       DEF ParseAsked, ParsePublishNamespace, ParsePublish, ParseSubscribe, ParseSubscribeNamespace,
           ParseSubscribeTracks, ParseFetch, ParseTrackStatus, AllTypes
  <2>. QED  BY <2>1, Zenon DEF ParseRequest, ParseIn
<1>5. CASE \E t \in Callers : Ask(t)
  BY <1>1, <1>5, Zenon DEF Step
<1>6. CASE \E t \in Answerers : Answer(t)
  BY <1>2, <1>6, Zenon DEF Step
<1>7. CASE \E t \in Threads : Continue(t)
  BY <1>7, Zenon DEF Continue, Step
<1>8. CASE \E s \in Sides : Loop(s)
  <2>1. PICK s \in Sides : Loop(s)
    BY <1>8
  <2>2. PICK r \in Requests :
          \/ \E n \in 0 .. Len(wire[s][r]), final \in BOOLEAN : Arrive(s, r, n, final)
          \/ Parse(s, r)
          \/ FinishReading(s, r)
    BY <2>1 DEF Loop
  <2>3. CASE Parse(s, r)
    <3>1. PICK m \in Heads(s, r) :
            (s = "out" /\ ParseReply(r, m)) \/ (s = "in" /\ ParseAsked(r, m)) \/ Violation(s, r, m)
      BY <2>3 DEF Parse
    <3>. QED  BY <3>1, <1>3, <1>4, Zenon DEF Step
  <2>. QED  BY <2>2, <2>3, Zenon DEF Step
<1>. QED  BY <1>5, <1>6, <1>7, <1>8, Zenon DEF Next

-----------------------------------------------------------------------------
(* Types.                                                                    *)

LEMMA Sorts ==
    /\ Callers \subseteq Threads /\ Answerers \subseteq Threads /\ Callers \cap Answerers = {}
    /\ Requests \subseteq Ids /\ Updates \subseteq Ids /\ Requests \cap Updates = {}
    /\ None \notin Ids /\ None \notin AllTypes /\ Types \subseteq AllTypes
    /\ "in" \in Sides /\ "out" \in Sides
    /\ Notes \subseteq Kinds /\ AllTypes \subseteq Kinds /\ TypedOks \subseteq Kinds
BY RequestsAssumption DEF Threads, Ids, Sides, Kinds

LEMMA MessageTypes ==
    /\ \A id \in Ids : \A k \in AllTypes \cup Notes \cup TypedOks
                                \cup {"REQUEST_OK", "REQUEST_ERROR", "REQUEST_UPDATE", "PUBLISH_DONE", "GOAWAY"} :
         Msg(k, id) \in Messages
    /\ \A ty : OkKind(ty) \in TypedOks \cup {"REQUEST_OK"}
    /\ \A m \in Messages : m.kind \in Kinds /\ m.id \in Ids
BY DEF Msg, Messages, Kinds, OkKind, TypedOks

LEMMA JobTypes ==
    ASSUME NEW r \in Requests, NEW m \in Messages, NEW last \in BOOLEAN, NEW drop \in SUBSET Tables
    PROVE  /\ Job(r, m, last, drop) \in Jobs
           /\ Job(r, m, last, drop).req = r /\ Job(r, m, last, drop).msg = m
BY DEF Job, Jobs

LEMMA RejectJobTypes ==
    ASSUME NEW r \in Requests, NEW call
    PROVE  /\ RejectJob(r, call) \in Jobs
           /\ RejectJob(r, call).req = r /\ RejectJob(r, call).msg = Msg("REQUEST_ERROR", r)
<1>1. Msg("REQUEST_ERROR", r) \in Messages
  BY Sorts, MessageTypes
<1>2. RejectDrops(call) \in SUBSET Tables /\ ErrorOnControl(call) \in BOOLEAN
  BY DEF RejectDrops, Tables, ErrorOnControl
<1>. QED  BY <1>1, <1>2 DEF RejectJob, Job, Jobs

\* A function of sides and requests in which one place has changed.
LEMMA OneChanged ==
    ASSUME NEW S, NEW F \in [Sides -> [Requests -> S]], NEW s \in Sides, NEW r \in Requests, NEW v \in S
    PROVE  LET G == [F EXCEPT ![s][r] = v] IN
           /\ G \in [Sides -> [Requests -> S]]
           /\ G[s][r] = v
           /\ \A q \in Requests : q # r => G[s][q] = F[s][q]
           /\ \A x \in Sides : x # s => G[x] = F[x]
<1> DEFINE R == [F[s] EXCEPT ![r] = v]
           G == [F EXCEPT ![s][r] = v]
<1>1. R \in [Requests -> S] /\ R[r] = v /\ \A q \in Requests : q # r => R[q] = F[s][q]
  OBVIOUS
<1>2. G = [F EXCEPT ![s] = R]
  OBVIOUS
<1> HIDE DEF R
<1>3. G \in [Sides -> [Requests -> S]] /\ G[s] = R /\ \A x \in Sides : x # s => G[x] = F[x]
  BY <1>1, <1>2
<1>. QED  BY <1>1, <1>3

LEMMA CallTypes ==
    ASSUME RequestInv, NEW t \in Callers, NEW r \in Requests, Call(t, r)
    PROVE  TypeOK'
<1>1. TypeOK
  BY DEF RequestInv
<1>2. ASSUME NEW ty \in AllTypes, Request(t, r, ty) PROVE TypeOK'
  <2>1. Job(r, Msg(ty, r), FALSE, {}) \in Jobs
    BY Sorts, MessageTypes, JobTypes
  <2>2. state' \in [Sides -> [Requests -> States]]
    <3>1. state' = [state EXCEPT !["out"][r] = "SENT"] /\ "SENT" \in States
      BY <1>2 DEF Request, States
    <3>2. state \in [Sides -> [Requests -> States]]
      BY <1>1 DEF TypeOK
    <3>. QED  BY <3>1, <3>2, Sorts, OneChanged
  <2>3. job' \in [Threads -> Jobs \cup {None}]
    BY <1>1, <1>2, <2>1 DEF TypeOK, Request
  <2>4. type' \in [Requests -> Types \cup {None}] /\ requests' \subseteq Ids
    BY <1>1, <1>2, Sorts DEF TypeOK, Request
  <2>5. streams' \in [Sides -> SUBSET Requests] /\ byReqid' \in [Sides -> SUBSET Requests]
    BY <1>1, <1>2, Sorts DEF TypeOK, Request
  <2>. QED  BY <1>1, <1>2, <2>2, <2>3, <2>4, <2>5
       DEF TypeOK, Request, wireVars, loopVars, historyVars
<1>3. ASSUME NEW ty \in AllTypes, Cancel(t, r, ty) PROVE TypeOK'
  BY <1>1, <1>3, Sorts DEF TypeOK, Cancel, tableVars, wireVars, loopVars
<1>4. ASSUME NEW u \in Updates, UpdateRequest(t, u, r) PROVE TypeOK'
  <2>1. Job(r, Msg("REQUEST_UPDATE", u), FALSE, {}) \in Jobs
    BY Sorts, MessageTypes, JobTypes
  <2>2. state' \in [Sides -> [Requests -> States]]
    <3>1. "UPDATE_SENT" \in States /\ state \in [Sides -> [Requests -> States]]
      BY <1>1 DEF TypeOK, States
    <3>2. state' = state \/ state' = [state EXCEPT !["out"][r] = "UPDATE_SENT"]
      BY <1>4 DEF UpdateRequest
    <3>. QED  BY <3>1, <3>2, Sorts, OneChanged
  <2>3. job' \in [Threads -> Jobs \cup {None}]
    <3>1. job' = job \/ job' = [job EXCEPT ![t] = Job(r, Msg("REQUEST_UPDATE", u), FALSE, {})]
      BY <1>4 DEF UpdateRequest
    <3>. QED  BY <1>1, <2>1, <3>1 DEF TypeOK
  <2>4. updateId' \in [Requests -> Updates \cup {None}] /\ requests' \subseteq Ids
    <3>1. updateId' = updateId \/ updateId' = [updateId EXCEPT ![r] = u]
      BY <1>4 DEF UpdateRequest
    <3>2. requests' = requests \cup {u}
      BY <1>4 DEF UpdateRequest
    <3>3. updateId \in [Requests -> Updates \cup {None}] /\ requests \subseteq Ids
      BY <1>1 DEF TypeOK
    <3>4. [updateId EXCEPT ![r] = u] \in [Requests -> Updates \cup {None}]
      BY <3>3
    <3>5. u \in Ids
      BY Sorts
    <3>. QED  BY <3>1, <3>2, <3>3, <3>4, <3>5
  <2>. QED  BY <1>1, <1>4, <2>2, <2>3, <2>4
       DEF TypeOK, UpdateRequest, wireVars, loopVars, historyVars
<1>5. ASSUME PublishDone(t, r) PROVE TypeOK'
  <2>1. Job(r, Msg("PUBLISH_DONE", r), TRUE, Tables) \in Jobs
    BY Sorts, MessageTypes, JobTypes
  <2>. QED  BY <1>1, <1>5, <2>1, Sorts
       DEF TypeOK, PublishDone, requestVars, tableVars, wireVars, loopVars
<1>. QED  BY <1>2, <1>3, <1>4, <1>5 DEF Call

LEMMA CallBackTypes ==
    ASSUME RequestInv, NEW t \in Answerers, NEW r \in Requests, CallBack(t, r)
    PROVE  TypeOK'
<1>1. TypeOK /\ state \in [Sides -> [Requests -> States]] /\ job \in [Threads -> Jobs \cup {None}]
      /\ decision \in [Ids -> Seq({"OK", "ERROR"})]
  BY DEF RequestInv, TypeOK
<1>2. {"OK", "ERROR", "DONE"} \subseteq States
  BY DEF States
<1>3. \A i \in Ids, a \in {"OK", "ERROR"} :
        [decision EXCEPT ![i] = Append(@, a)] \in [Ids -> Seq({"OK", "ERROR"})]
  BY <1>1
<1>4. ASSUME NEW ty \in AllTypes, Accept(t, r, ty) PROVE TypeOK'
  <2>1. Job(r, Msg(OkKind(ty), r), FALSE, {}) \in Jobs
    BY Sorts, MessageTypes, JobTypes
  <2>2. state' \in [Sides -> [Requests -> States]]
    <3>1. state' = [state EXCEPT !["in"][r] = "OK"]
      BY <1>4 DEF Accept
    <3>. QED  BY <1>1, <1>2, <3>1, Sorts, OneChanged
  <2>3. job' \in [Threads -> Jobs \cup {None}]
    BY <1>1, <1>4, <2>1 DEF Accept
  <2>4. decision' \in [Ids -> Seq({"OK", "ERROR"})]
    BY <1>3, <1>4, Sorts DEF Accept
  <2>. QED  BY <1>1, <1>4, <2>2, <2>3, <2>4 DEF TypeOK, Accept, tableVars, wireVars, loopVars
<1>5. ASSUME NEW ty \in AllTypes, Reject(t, r, ty) PROVE TypeOK'
  <2>1. RejectJob(r, ty) \in Jobs
    BY RejectJobTypes
  <2>2. state' \in [Sides -> [Requests -> States]]
    <3>1. state' = [state EXCEPT !["in"][r] = "ERROR"]
      BY <1>5 DEF Reject
    <3>. QED  BY <1>1, <1>2, <3>1, Sorts, OneChanged
  <2>3. job' \in [Threads -> Jobs \cup {None}]
    BY <1>1, <1>5, <2>1 DEF Reject
  <2>4. decision' \in [Ids -> Seq({"OK", "ERROR"})]
    BY <1>3, <1>5, Sorts DEF Reject
  <2>. QED  BY <1>1, <1>5, <2>2, <2>3, <2>4 DEF TypeOK, Reject, tableVars, wireVars, loopVars
<1>6. ASSUME NEW u \in Updates, NEW answer \in {"OK", "ERROR"}, AnswerUpdate(t, u, r, answer) PROVE TypeOK'
  <2>1. Job(r, Msg(AnswerKind(answer), u), FALSE, {}) \in Jobs
    BY Sorts, MessageTypes, JobTypes DEF AnswerKind
  <2>2. state' \in [Sides -> [Requests -> States]]
    <3>1. state' = state \/ state' = [state EXCEPT !["in"][r] = "OK"]
      BY <1>6 DEF AnswerUpdate
    <3>2. [state EXCEPT !["in"][r] = "OK"] \in [Sides -> [Requests -> States]]
      BY <1>1, <1>2, Sorts, OneChanged
    <3>. QED  BY <1>1, <3>1, <3>2
  <2>3. job' \in [Threads -> Jobs \cup {None}]
    <3>1. job' = job \/ job' = [job EXCEPT ![t] = Job(r, Msg(AnswerKind(answer), u), FALSE, {})]
      BY <1>6 DEF AnswerUpdate
    <3>. QED  BY <1>1, <2>1, <3>1
  <2>4. decision' \in [Ids -> Seq({"OK", "ERROR"})]
    <3>1. decision' = decision \/ decision' = [decision EXCEPT ![u] = Append(@, answer)]
      BY <1>6 DEF AnswerUpdate
    <3>2. u \in Ids
      BY Sorts
    <3>3. [decision EXCEPT ![u] = Append(@, answer)] \in [Ids -> Seq({"OK", "ERROR"})]
      BY <1>3, <3>2
    <3>. QED  BY <1>1, <3>1, <3>3
  <2>5. updateRequests' \subseteq Updates \X Requests
    <3>1. updateRequests' = updateRequests \ {<<u, r>>}
      BY <1>6 DEF AnswerUpdate
    <3>. QED  BY <1>1, <3>1 DEF TypeOK
  <2>. QED  BY <1>1, <1>6, <2>2, <2>3, <2>4, <2>5 DEF TypeOK, AnswerUpdate, wireVars, loopVars
<1>7. ASSUME NEW note \in Notes, Notify(t, r, note) PROVE TypeOK'
  <2>1. Job(r, Msg(note, r), FALSE, {}) \in Jobs
    BY Sorts, MessageTypes, JobTypes
  <2>2. notes' \in [Requests -> Nat]
    <3>1. notes' = [notes EXCEPT ![r] = @ + 1] /\ notes \in [Requests -> Nat]
      BY <1>1, <1>7 DEF TypeOK, Notify
    <3>. QED  BY <3>1
  <2>3. job' \in [Threads -> Jobs \cup {None}]
    BY <1>1, <1>7, <2>1 DEF Notify
  <2>. QED  BY <1>1, <1>7, <2>2, <2>3 DEF TypeOK, Notify, requestVars, tableVars, wireVars, loopVars
<1>8. ASSUME PublishDone(t, r) PROVE TypeOK'
  <2>1. Job(r, Msg("PUBLISH_DONE", r), TRUE, Tables) \in Jobs
    BY Sorts, MessageTypes, JobTypes
  <2>. QED  BY <1>1, <1>8, <2>1, Sorts
       DEF TypeOK, PublishDone, requestVars, tableVars, wireVars, loopVars
<1>9. ASSUME RequestGoaway(t, r) PROVE TypeOK'
  <2>1. Job(r, Msg("GOAWAY", r), TRUE, Tables) \in Jobs
    BY Sorts, MessageTypes, JobTypes
  <2>2. state' \in [Sides -> [Requests -> States]]
    <3>1. state' = [state EXCEPT !["in"][r] = "DONE"]
      BY <1>9 DEF RequestGoaway
    <3>. QED  BY <1>1, <1>2, <3>1, Sorts, OneChanged
  <2>3. job' \in [Threads -> Jobs \cup {None}]
    BY <1>1, <1>9, <2>1 DEF RequestGoaway
  <2>. QED  BY <1>1, <1>9, <2>2, <2>3 DEF TypeOK, RequestGoaway, tableVars, wireVars, loopVars, historyVars
<1>. QED  BY <1>4, <1>5, <1>6, <1>7, <1>8, <1>9 DEF CallBack

\* What Send leaves on the wires.
LEMMA SendTypes ==
    ASSUME TypeOK, NEW s \in Sides, NEW r \in Requests, NEW m \in Messages, NEW last \in BOOLEAN,
           Send(s, r, m, last) \/ UNCHANGED wireVars
    PROVE  /\ wire' \in [Sides -> [Requests -> Seq(Messages)]]
           /\ fin' \in [Sides -> [Requests -> {"no", "sent", "read"}]]
           /\ wire' = wire \/ wire' = [wire EXCEPT ![Peer(s)][r] = Append(@, m)]
<1>1. Peer(s) \in Sides
  BY DEF Peer, Sides
<1>2. wire \in [Sides -> [Requests -> Seq(Messages)]] /\ fin \in [Sides -> [Requests -> {"no", "sent", "read"}]]
  BY DEF TypeOK
<1>3. wire' = wire \/ wire' = [wire EXCEPT ![Peer(s)][r] = Append(@, m)]
  BY DEF Send, wireVars
<1>4. fin' = fin \/ \E v \in {"no", "sent", "read"} : fin' = [fin EXCEPT ![Peer(s)][r] = v]
  <2>1. fin[Peer(s)][r] \in {"no", "sent", "read"}
    BY <1>1, <1>2
  <2>2. \/ fin' = fin
        \/ fin' = [fin EXCEPT ![Peer(s)][r] = IF last THEN "sent" ELSE fin[Peer(s)][r]]
    BY DEF Send, wireVars
  <2>. QED  BY <2>1, <2>2
<1>5. wire' \in [Sides -> [Requests -> Seq(Messages)]]
  <2> DEFINE S == Seq(Messages)
             a == Append(wire[Peer(s)][r], m)
  <2>1. a \in S
    BY <1>1, <1>2
  <2>2. wire' = wire \/ wire' = [wire EXCEPT ![Peer(s)][r] = a]
    BY <1>3
  <2>3. wire \in [Sides -> [Requests -> S]]
    BY <1>2
  <2> HIDE DEF S, a
  <2>4. [wire EXCEPT ![Peer(s)][r] = a] \in [Sides -> [Requests -> S]]
    BY <1>1, <2>1, <2>3, OneChanged
  <2>. QED  BY <2>2, <2>3, <2>4 DEF S
<1>6. fin' \in [Sides -> [Requests -> {"no", "sent", "read"}]]
  <2> DEFINE S == {"no", "sent", "read"}
  <2>1. fin' = fin \/ \E v \in S : fin' = [fin EXCEPT ![Peer(s)][r] = v]
    BY <1>4
  <2>2. fin \in [Sides -> [Requests -> S]]
    BY <1>2
  <2> HIDE DEF S
  <2>3. \A v \in S : [fin EXCEPT ![Peer(s)][r] = v] \in [Sides -> [Requests -> S]]
    BY <1>1, <2>2, OneChanged
  <2>. QED  BY <2>1, <2>2, <2>3 DEF S
<1>. QED  BY <1>3, <1>5, <1>6

LEMMA ParsingTypes ==
    ASSUME TypeOK, NEW s \in Sides, NEW r \in Requests, NEW m, Parsing(s, r, m)
    PROVE  /\ m \in Messages /\ m.kind \in Kinds /\ m.id \in Ids
           /\ buffer[s][r] \in Seq(Messages) /\ buffer[s][r] # <<>> /\ m = Head(buffer[s][r])
           /\ reading[s] \in Readings
<1>1. buffer[s][r] \in Seq(Messages) /\ buffer[s][r] # <<>> /\ m = Head(buffer[s][r])
  BY DEF TypeOK, Parsing
<1>2. m \in Messages
  BY <1>1
<1>3. reading[s] \in Readings
  BY DEF TypeOK, Parsing
<1>. QED  BY <1>1, <1>2, <1>3, MessageTypes

LEMMA TakenTypes ==
    ASSUME TypeOK, NEW s \in Sides, NEW r \in Requests, NEW m, Parsing(s, r, m), Taken(s, r, m)
    PROVE  /\ buffer' \in [Sides -> [Requests -> Seq(Messages)]]
           /\ reading' \in [Sides -> Readings \cup {None}]
           /\ type' = type /\ job' = job /\ violated' = violated /\ notes' = notes /\ left' = left
<1>1. /\ m.kind \in Kinds /\ buffer[s][r] \in Seq(Messages) /\ buffer[s][r] # <<>>
      /\ reading[s] \in Readings
  BY ParsingTypes
<1>2. buffer' \in [Sides -> [Requests -> Seq(Messages)]]
  <2> DEFINE S == Seq(Messages)
             b == Tail(buffer[s][r])
  <2>1. b \in S
    BY <1>1
  <2>2. buffer' = [buffer EXCEPT ![s][r] = b]
    BY DEF Taken
  <2>3. buffer \in [Sides -> [Requests -> S]]
    BY DEF TypeOK
  <2> HIDE DEF S, b
  <2>4. [buffer EXCEPT ![s][r] = b] \in [Sides -> [Requests -> S]]
    BY <2>1, <2>3, OneChanged
  <2>. QED  BY <2>2, <2>4 DEF S
<1>3. reading' \in [Sides -> Readings \cup {None}]
  <2> DEFINE x == IF Size[m.kind] = reading[s].size THEN None ELSE [reading[s] EXCEPT !.size = Size[m.kind]]
  <2>1. Size[m.kind] \in Nat
    BY <1>1, RequestsAssumption
  <2>2. x \in Readings \cup {None}
    BY <1>1, <2>1 DEF Readings
  <2>3. reading' = [reading EXCEPT ![s] = x] /\ reading \in [Sides -> Readings \cup {None}]
    BY DEF TypeOK, Taken
  <2> HIDE DEF x
  <2>. QED  BY <2>2, <2>3
<1>. QED  BY <1>2, <1>3 DEF Taken

LEMMA JobStepTypes ==
    ASSUME TypeOK, NEW t \in Threads
    PROVE  SendJob(t) \/ DropJob(t) => TypeOK'
<1>1. SideOf(t) \in Sides
  BY DEF SideOf, Sides
<1>2. job \in [Threads -> Jobs \cup {None}]
  BY DEF TypeOK
<1>3. ASSUME SendJob(t) PROVE TypeOK'
  <2>1. job[t] \in Jobs /\ job[t].req \in Requests /\ job[t].msg \in Messages /\ job[t].last \in BOOLEAN
    BY <1>2, <1>3 DEF SendJob, Jobs
  <2>2. Send(SideOf(t), job[t].req, job[t].msg, job[t].last) \/ UNCHANGED wireVars
    BY <1>3 DEF SendJob
  <2>3. /\ wire' \in [Sides -> [Requests -> Seq(Messages)]]
        /\ fin' \in [Sides -> [Requests -> {"no", "sent", "read"}]]
    BY <1>1, <2>1, <2>2, SendTypes
  <2>4. job' \in [Threads -> Jobs \cup {None}]
    <3> DEFINE j == IF job[t].drop = {} THEN None ELSE [job[t] EXCEPT !.msg = None]
    <3>1. j \in Jobs \cup {None}
      BY <2>1 DEF Jobs
    <3>2. job' = [job EXCEPT ![t] = j]
      BY <1>3 DEF SendJob
    <3> HIDE DEF j
    <3>. QED  BY <1>2, <3>1, <3>2
  <2>5. controlEnded' \in BOOLEAN
    BY <1>3 DEF SendJob, TypeOK
  <2>. QED  BY <1>3, <2>3, <2>4, <2>5
       DEF TypeOK, SendJob, requestVars, tableVars, loopVars, historyVars
<1>4. ASSUME DropJob(t) PROVE TypeOK'
  <2>1. job' \in [Threads -> Jobs \cup {None}]
    BY <1>2, <1>4 DEF DropJob
  <2>2. streams' \in [Sides -> SUBSET Requests]
    BY <1>1, <1>4 DEF DropJob, TypeOK
  <2>3. byReqid' \in [Sides -> SUBSET Requests]
    BY <1>1, <1>4 DEF DropJob, TypeOK
  <2>. QED  BY <1>4, <2>1, <2>2, <2>3
       DEF TypeOK, DropJob, tableVars, wireVars, loopVars, historyVars
<1>. QED  BY <1>3, <1>4

LEMMA ArriveTypes ==
    ASSUME TypeOK, NEW s \in Sides, NEW r \in Requests, NEW n \in 0 .. Len(wire[s][r]), NEW final \in BOOLEAN,
           Arrive(s, r, n, final)
    PROVE  TypeOK'
<1>1. wire[s][r] \in Seq(Messages) /\ buffer[s][r] \in Seq(Messages)
  BY FlowTypes
<1>2. Len(wire[s][r]) \in Nat /\ n \in Nat /\ n <= Len(wire[s][r])
  BY <1>1
<1>3. wire' \in [Sides -> [Requests -> Seq(Messages)]]
  <2> DEFINE S == Seq(Messages)
             w == SubSeq(wire[s][r], n + 1, Len(wire[s][r]))
  <2>1. w \in S
    BY <1>1, <1>2, SubSeqProperties
  <2>2. wire' = [wire EXCEPT ![s][r] = w] /\ wire \in [Sides -> [Requests -> S]]
    BY DEF Arrive, TypeOK
  <2> HIDE DEF S, w
  <2>3. [wire EXCEPT ![s][r] = w] \in [Sides -> [Requests -> S]]
    BY <2>1, <2>2, OneChanged
  <2>. QED  BY <2>2, <2>3 DEF S
<1>4. fin' \in [Sides -> [Requests -> {"no", "sent", "read"}]]
  <2> DEFINE S == {"no", "sent", "read"}
             v == IF final THEN "read" ELSE fin[s][r]
  <2>1. fin' = [fin EXCEPT ![s][r] = v] /\ fin \in [Sides -> [Requests -> S]]
    BY DEF Arrive, TypeOK
  <2>2. v \in S
    BY <2>1
  <2> HIDE DEF S, v
  <2>3. [fin EXCEPT ![s][r] = v] \in [Sides -> [Requests -> S]]
    BY <2>1, <2>2, OneChanged
  <2>. QED  BY <2>1, <2>3 DEF S
<1>5. buffer' \in [Sides -> [Requests -> Seq(Messages)]]
  <2> DEFINE S == Seq(Messages)
             b == buffer[s][r] \o SubSeq(wire[s][r], 1, n)
  <2>1. b \in S
    BY <1>1, <1>2, SubSeqProperties, ConcatProperties
  <2>2. buffer' = buffer \/ buffer' = [buffer EXCEPT ![s][r] = b]
    BY DEF Arrive, loopVars
  <2>3. buffer \in [Sides -> [Requests -> S]]
    BY DEF TypeOK
  <2> HIDE DEF S, b
  <2>4. [buffer EXCEPT ![s][r] = b] \in [Sides -> [Requests -> S]]
    BY <2>1, <2>3, OneChanged
  <2>. QED  BY <2>2, <2>3, <2>4 DEF S
<1>6. reading' \in [Sides -> Readings \cup {None}]
  <2>1. [req |-> r, size |-> 0, final |-> final] \in Readings
    BY DEF Readings
  <2>2. reading' = reading \/ reading' = [reading EXCEPT ![s] = [req |-> r, size |-> 0, final |-> final]]
    BY DEF Arrive, loopVars
  <2>3. reading \in [Sides -> Readings \cup {None}]
    BY DEF TypeOK
  <2>. QED  BY <2>1, <2>2, <2>3
<1>7. streams' \in [Sides -> SUBSET Requests]
  <2>1. streams \in [Sides -> SUBSET Requests] /\ (streams' = streams \/ streams' = [streams EXCEPT ![s] = @ \cup {r}])
    BY DEF Arrive, TypeOK
  <2>2. [streams EXCEPT ![s] = @ \cup {r}] \in [Sides -> SUBSET Requests]
    BY <2>1
  <2>. QED  BY <2>1, <2>2
<1>. QED  BY <1>3, <1>4, <1>5, <1>6, <1>7 DEF TypeOK, Arrive, tableVars, historyVars

LEMMA ReadTypes ==
    ASSUME TypeOK, NEW s \in Sides, NEW r \in Requests, NEW m
    PROVE  Violation(s, r, m) \/ FinishReading(s, r) => TypeOK'
<1>1. ASSUME Violation(s, r, m) PROVE TypeOK'
  BY <1>1 DEF TypeOK, Violation, requestVars, tableVars, wireVars, loopVars, historyVars
<1>2. ASSUME FinishReading(s, r) PROVE TypeOK'
  <2>1. ended' \in [Requests -> Nat]
    <3>1. ended \in [Requests -> Nat] /\ (ended' = ended \/ ended' = [ended EXCEPT ![r] = @ + 1])
      BY <1>2 DEF TypeOK, FinishReading
    <3>2. [ended EXCEPT ![r] = @ + 1] \in [Requests -> Nat]
      BY <3>1
    <3>. QED  BY <3>1, <3>2
  <2>2. reading' \in [Sides -> Readings \cup {None}]
    BY <1>2 DEF TypeOK, FinishReading
  <2>3. streams' \in [Sides -> SUBSET Requests] /\ byReqid' \in [Sides -> SUBSET Requests]
    <3>1. /\ streams \in [Sides -> SUBSET Requests] /\ byReqid \in [Sides -> SUBSET Requests]
          /\ streams' = streams \/ streams' = [streams EXCEPT ![s] = @ \ {r}]
          /\ byReqid' = byReqid \/ byReqid' = [byReqid EXCEPT ![s] = @ \ {r}]
      BY <1>2 DEF TypeOK, FinishReading
    <3>2. [streams EXCEPT ![s] = @ \ {r}] \in [Sides -> SUBSET Requests]
      BY <3>1
    <3>3. [byReqid EXCEPT ![s] = @ \ {r}] \in [Sides -> SUBSET Requests]
      BY <3>1
    <3>. QED  BY <3>1, <3>2, <3>3
  <2>. QED  BY <1>2, <2>1, <2>2, <2>3 DEF TypeOK, FinishReading, tableVars, wireVars
<1>. QED  BY <1>1, <1>2

-----------------------------------------------------------------------------
(* The head of what is on its way.                                           *)

LEMMA Joined ==
    ASSUME NEW S, NEW a \in Seq(S), NEW b \in Seq(S)
    PROVE  /\ Len(a \o b) = Len(a) + Len(b) /\ Len(a) \in Nat /\ Len(b) \in Nat
           /\ \A i \in 1 .. Len(a) + Len(b) : (a \o b)[i] = IF i <= Len(a) THEN a[i] ELSE b[i - Len(a)]
BY ConcatProperties

LEMMA TailOfJoined ==
    ASSUME NEW S, NEW a \in Seq(S), NEW b \in Seq(S), a # <<>>
    PROVE  Skips(Tail(a) \o b, a \o b, 0, 1)
<1> DEFINE c == Tail(a)
<1>1. c \in Seq(S) /\ Len(a) \in Nat /\ Len(a) > 0 /\ Len(c) = Len(a) - 1 /\ \A i \in 1 .. Len(c) : c[i] = a[i + 1]
  OBVIOUS
<1> HIDE DEF c
<1>2. /\ Len(c \o b) = Len(c) + Len(b) /\ Len(b) \in Nat
      /\ \A i \in 1 .. Len(c) + Len(b) : (c \o b)[i] = IF i <= Len(c) THEN c[i] ELSE b[i - Len(c)]
  BY <1>1, Joined
<1>3. /\ Len(a \o b) = Len(a) + Len(b)
      /\ \A i \in 1 .. Len(a) + Len(b) : (a \o b)[i] = IF i <= Len(a) THEN a[i] ELSE b[i - Len(a)]
  BY Joined
<1> DEFINE x == c \o b
           y == a \o b
<1> HIDE DEF x, y
<1>4. ASSUME NEW i \in 1 .. Len(x) PROVE i + 1 <= Len(y) /\ x[i] = y[i + 1]
  <2>1. i \in 1 .. Len(c) + Len(b) /\ i + 1 \in 1 .. Len(a) + Len(b)
    BY <1>1, <1>2 DEF x
  <2>2. x[i] = IF i <= Len(c) THEN c[i] ELSE b[i - Len(c)]
    BY <1>2, <2>1 DEF x
  <2>3. y[i + 1] = IF i + 1 <= Len(a) THEN a[i + 1] ELSE b[i + 1 - Len(a)]
    BY <1>3, <2>1 DEF y
  <2>4. CASE i <= Len(c)
    BY <1>1, <1>3, <2>1, <2>2, <2>3, <2>4 DEF y
  <2>5. CASE ~(i <= Len(c))
    <3>1. i - Len(c) = i + 1 - Len(a) /\ ~(i + 1 <= Len(a))
      BY <1>1, <2>5
    <3>. QED  BY <1>1, <1>3, <2>1, <2>2, <2>3, <2>5, <3>1 DEF y
  <2>. QED  BY <2>4, <2>5
<1>5. Len(x) \in Nat /\ Len(y) \in Nat
  BY <1>1, <1>2, <1>3 DEF x, y
<1>6. Skips(x, y, 0, 1)
  BY <1>4, <1>5 DEF Skips
<1>. QED  BY <1>6 DEF x, y, c

LEMMA HeadOfFlow ==
    ASSUME TypeOK, NEW s \in Sides, NEW r \in Requests, NEW m, Parsing(s, r, m)
    PROVE  Flow(s, r) # <<>> /\ 1 \in 1 .. Len(Flow(s, r)) /\ Flow(s, r)[1] = m
<1>1. /\ wire[s][r] \in Seq(Messages) /\ buffer[s][r] \in Seq(Messages)
      /\ buffer[s][r] # <<>> /\ m = Head(buffer[s][r])
  BY ParsingTypes, FlowTypes
<1> DEFINE b == buffer[s][r]
           w == wire[s][r]
           f == b \o w
<1>2. b \in Seq(Messages) /\ w \in Seq(Messages) /\ b # <<>> /\ m = Head(b) /\ Flow(s, r) = f
  BY <1>1 DEF Flow
<1> HIDE DEF b, w
<1>3. /\ Len(f) = Len(b) + Len(w) /\ Len(b) \in Nat /\ Len(w) \in Nat
      /\ \A i \in 1 .. Len(b) + Len(w) : f[i] = IF i <= Len(b) THEN b[i] ELSE w[i - Len(b)]
  BY <1>2, Joined
<1> HIDE DEF f
<1>4. Len(b) > 0 /\ b[1] = m
  BY <1>2
<1>5. f[1] = m /\ Len(f) > 0
  BY <1>3, <1>4
<1>6. f # <<>>
  BY <1>5
<1>7. 1 \in 1 .. Len(f)
  BY <1>3, <1>5
<1>. QED  BY <1>2, <1>5, <1>6, <1>7

LEMMA HeadSent ==
    ASSUME TypeOK, NEW r \in Requests, NEW m
    PROVE  /\ Parsing("out", r, m) /\ m.kind \in AnswerKinds => <<"flow", 1, m>> \in AnswersSent(r)
           /\ Parsing("in", r, m) /\ m.kind \in UpdateKinds => <<"flow", 1, m>> \in UpdatesSent(r)
           /\ Parsing("in", r, m) => Flow("in", r) # <<>>
<1>1. ASSUME Parsing("out", r, m), m.kind \in AnswerKinds PROVE <<"flow", 1, m>> \in AnswersSent(r)
  <2>1. 1 \in 1 .. Len(Flow("out", r)) /\ Flow("out", r)[1] = m
    BY <1>1, Sorts, HeadOfFlow
  <2>. QED  BY <1>1, <2>1, WayIs DEF AnswersSent
<1>2. ASSUME Parsing("in", r, m), m.kind \in UpdateKinds PROVE <<"flow", 1, m>> \in UpdatesSent(r)
  <2>1. 1 \in 1 .. Len(Flow("in", r)) /\ Flow("in", r)[1] = m
    BY <1>2, Sorts, HeadOfFlow
  <2>. QED  BY <1>2, <2>1, WayIs DEF UpdatesSent
<1>3. Parsing("in", r, m) => Flow("in", r) # <<>>
  BY Sorts, HeadOfFlow
<1>. QED  BY <1>1, <1>2, <1>3

LEMMA TakenBuffer ==
    ASSUME TypeOK, NEW s \in Sides, NEW r \in Requests, NEW m, Parsing(s, r, m), Taken(s, r, m)
    PROVE  /\ buffer'[s][r] = Tail(buffer[s][r])
           /\ \A x \in Sides, q \in Requests : x # s \/ q # r => buffer'[x][q] = buffer[x][q]
<1> DEFINE S == Seq(Messages)
           b == Tail(buffer[s][r])
<1>1. b \in S
  BY ParsingTypes
<1>2. buffer' = [buffer EXCEPT ![s][r] = b]
  BY DEF Taken
<1>3. buffer \in [Sides -> [Requests -> S]]
  BY DEF TypeOK
<1> HIDE DEF S, b
<1>4. /\ [buffer EXCEPT ![s][r] = b][s][r] = b
      /\ \A q \in Requests : q # r => [buffer EXCEPT ![s][r] = b][s][q] = buffer[s][q]
      /\ \A x \in Sides : x # s => [buffer EXCEPT ![s][r] = b][x] = buffer[x]
  BY <1>1, <1>3, OneChanged
<1>. QED  BY <1>2, <1>4 DEF b

\* The parser has taken a message of r: it is gone, the others stay.
LEMMA HeadTaken ==
    ASSUME TypeOK, NEW s \in Sides, NEW r \in Requests, NEW m, Parsing(s, r, m), Taken(s, r, m),
           UNCHANGED <<wire, job>>
    PROVE  /\ \A q \in Requests : Still(q)
           /\ s = "out" => Shrinks(AnswersSent(r)', AnswersSent(r) \ {<<"flow", 1, m>>})
           /\ s = "in" => Shrinks(UpdatesSent(r)', UpdatesSent(r) \ {<<"flow", 1, m>>})
<1>1. /\ wire[s][r] \in Seq(Messages) /\ buffer[s][r] \in Seq(Messages)
      /\ buffer[s][r] # <<>> /\ m = Head(buffer[s][r])
  BY ParsingTypes, FlowTypes
<1>2. /\ buffer'[s][r] = Tail(buffer[s][r])
      /\ \A x \in Sides, q \in Requests : x # s \/ q # r => buffer'[x][q] = buffer[x][q]
  BY TakenBuffer
<1>3. \A x \in Sides, q \in Requests : x # s \/ q # r => Flow(x, q)' = Flow(x, q)
  BY <1>2 DEF Flow
<1>4. Flow(s, r)' = Tail(buffer[s][r]) \o wire[s][r]
  BY <1>2 DEF Flow
<1>5. Skips(Flow(s, r)', Flow(s, r), 0, 1)
  BY <1>1, <1>4, TailOfJoined DEF Flow
<1>6. Flow(s, r)[1] = m
  BY HeadOfFlow
<1>7. ASSUME s = "out"
      PROVE  Shrinks(AnswersSent(r)', AnswersSent(r) \ {<<"flow", 1, m>>})
  <2> DEFINE E1 == {x \in AnswersSent(r) : 0 = 0 /\ 1 > 0 => x # <<"flow", 1, Flow("out", r)[1]>>}
  <2>1. Shrinks(AnswersSent(r)', E1)
    BY <1>5, <1>7, MessagesGone DEF AnswersSent
  <2>2. E1 = AnswersSent(r) \ {<<"flow", 1, m>>}
    BY <1>6, <1>7
  <2>. QED  BY <2>1, <2>2
<1>8. ASSUME s = "in"
      PROVE  Shrinks(UpdatesSent(r)', UpdatesSent(r) \ {<<"flow", 1, m>>})
  <2> DEFINE E1 == {x \in UpdatesSent(r) : 0 = 0 /\ 1 > 0 => x # <<"flow", 1, Flow("in", r)[1]>>}
  <2>1. Shrinks(UpdatesSent(r)', E1)
    BY <1>5, <1>8, MessagesGone DEF UpdatesSent
  <2>2. E1 = UpdatesSent(r) \ {<<"flow", 1, m>>}
    BY <1>6, <1>8
  <2>. QED  BY <2>1, <2>2
<1>9. ASSUME NEW q \in Requests PROVE Still(q)
  <2>1. (s # "out" \/ q # r) => AnswersSent(q)' = AnswersSent(q)
    BY <1>3, Sorts DEF AnswersSent
  <2>2. (s # "in" \/ q # r) => UpdatesSent(q)' = UpdatesSent(q) /\ Flow("in", q)' = Flow("in", q)
    BY <1>3, Sorts DEF UpdatesSent
  <2>3. s = "out" /\ q = r => Shrinks(AnswersSent(q)', AnswersSent(q))
    BY <1>7, ShrinksTwice
  <2>4. s = "in" /\ q = r => Shrinks(UpdatesSent(q)', UpdatesSent(q)) /\ Flow("in", q) # <<>>
    BY <1>8, ShrinksTwice, HeadOfFlow
  <2>5. Shrinks(AnswersSent(q)', AnswersSent(q))
    BY <2>1, <2>3, SubsetShrinks
  <2>6. Shrinks(UpdatesSent(q)', UpdatesSent(q)) /\ (Flow("in", q) = <<>> => Flow("in", q)' = <<>>)
    BY <2>2, <2>4, SubsetShrinks
  <2>. QED  BY <2>5, <2>6 DEF Still
<1>. QED  BY <1>7, <1>8, <1>9

\* Some of what was on the way is gone.
LEMMA SkipsStill ==
    ASSUME NEW r, UNCHANGED job,
           \A s \in Sides : \E k, n : Skips(Flow(s, r)', Flow(s, r), k, n),
           Flow("in", r) = <<>> => Flow("in", r)' = <<>>
    PROVE  Still(r)
<1>1. Shrinks(AnswersSent(r)', AnswersSent(r))
  <2>1. PICK k, n : Skips(Flow("out", r)', Flow("out", r), k, n)
    BY Sorts
  <2> DEFINE E1 == {x \in AnswersSent(r) : k = 0 /\ n > 0 => x # <<"flow", 1, Flow("out", r)[1]>>}
  <2>2. Shrinks(AnswersSent(r)', E1)
    BY <2>1, MessagesGone DEF AnswersSent
  <2>3. E1 \subseteq AnswersSent(r)
    OBVIOUS
  <2> HIDE DEF E1
  <2>. QED  BY <2>2, <2>3, ShrinksTwice
<1>2. Shrinks(UpdatesSent(r)', UpdatesSent(r))
  <2>1. PICK k, n : Skips(Flow("in", r)', Flow("in", r), k, n)
    BY Sorts
  <2> DEFINE E1 == {x \in UpdatesSent(r) : k = 0 /\ n > 0 => x # <<"flow", 1, Flow("in", r)[1]>>}
  <2>2. Shrinks(UpdatesSent(r)', E1)
    BY <2>1, MessagesGone DEF UpdatesSent
  <2>3. E1 \subseteq UpdatesSent(r)
    OBVIOUS
  <2> HIDE DEF E1
  <2>. QED  BY <2>2, <2>3, ShrinksTwice
<1>. QED  BY <1>1, <1>2 DEF Still

LEMMA SkipsNothing == ASSUME NEW S, NEW q \in Seq(S) PROVE Skips(q, q, 0, 0)
BY DEF Skips

\* Of b and w, the first n messages of w go.
LEMMA Dropped ==
    ASSUME NEW S, NEW b \in Seq(S), NEW w \in Seq(S), NEW n \in 0 .. Len(w)
    PROVE  /\ Skips(b \o SubSeq(w, n + 1, Len(w)), b \o w, Len(b), n)
           /\ b \o w = <<>> => b \o SubSeq(w, n + 1, Len(w)) = <<>>
<1> DEFINE c == SubSeq(w, n + 1, Len(w))
<1>0. Len(w) \in Nat /\ n \in Nat /\ n <= Len(w)
  OBVIOUS
<1>1. c \in Seq(S) /\ Len(c) = Len(w) - n /\ \A i \in 1 .. Len(w) - n : c[i] = w[n + i]
  <2>1. \A i \in n + 1 .. Len(w) : w[i] \in S
    BY <1>0
  <2>2. /\ c \in Seq(S) /\ Len(c) = IF n + 1 <= Len(w) THEN Len(w) - (n + 1) + 1 ELSE 0
        /\ \A i \in 1 .. Len(w) - (n + 1) + 1 : c[i] = w[n + 1 + i - 1]
    BY <1>0, <2>1, SubSeqProperties
  <2> HIDE DEF c
  <2>3. Len(c) = Len(w) - n
    BY <1>0, <2>2
  <2>4. ASSUME NEW i \in 1 .. Len(w) - n PROVE c[i] = w[n + i]
    <3>1. i \in 1 .. Len(w) - (n + 1) + 1 /\ n + 1 + i - 1 = n + i
      BY <1>0
    <3>. QED  BY <2>2, <3>1
  <2>. QED  BY <2>2, <2>3, <2>4
<1> HIDE DEF c
<1>2. /\ Len(b \o c) = Len(b) + Len(c) /\ Len(b) \in Nat /\ Len(c) \in Nat
      /\ \A i \in 1 .. Len(b) + Len(c) : (b \o c)[i] = IF i <= Len(b) THEN b[i] ELSE c[i - Len(b)]
  BY <1>1, Joined
<1>3. /\ Len(b \o w) = Len(b) + Len(w)
      /\ \A i \in 1 .. Len(b) + Len(w) : (b \o w)[i] = IF i <= Len(b) THEN b[i] ELSE w[i - Len(b)]
  BY Joined
<1>4. b \o c \in Seq(S) /\ b \o w \in Seq(S)
  BY <1>1, ConcatProperties
<1> DEFINE x == b \o c
           y == b \o w
<1> HIDE DEF x, y
<1>5. ASSUME NEW i \in 1 .. Len(x)
      PROVE  IF i <= Len(b) THEN i <= Len(y) /\ x[i] = y[i] ELSE i + n <= Len(y) /\ x[i] = y[i + n]
  <2>1. i \in 1 .. Len(b) + Len(c) /\ i \in 1 .. Len(b) + Len(w) /\ i + n \in 1 .. Len(b) + Len(w)
    BY <1>0, <1>1, <1>2 DEF x
  <2>2. x[i] = IF i <= Len(b) THEN b[i] ELSE c[i - Len(b)]
    BY <1>2, <2>1 DEF x
  <2>3. /\ y[i] = IF i <= Len(b) THEN b[i] ELSE w[i - Len(b)]
        /\ y[i + n] = IF i + n <= Len(b) THEN b[i + n] ELSE w[i + n - Len(b)]
    <3>1. \A j \in 1 .. Len(b) + Len(w) : y[j] = IF j <= Len(b) THEN b[j] ELSE w[j - Len(b)]
      BY <1>3 DEF y
    <3>. QED  BY ONLY <2>1, <3>1
  <2>4. Len(y) = Len(b) + Len(w)
    BY <1>3 DEF y
  <2>5. CASE i <= Len(b)
    BY <1>0, <1>2, <2>1, <2>2, <2>3, <2>4, <2>5
  <2>6. CASE ~(i <= Len(b))
    <3>1. i - Len(b) \in 1 .. Len(w) - n
      BY <1>0, <1>1, <1>2, <2>1, <2>6
    <3>2. c[i - Len(b)] = w[n + (i - Len(b))] /\ n + (i - Len(b)) = i + n - Len(b)
      <4>1. c[i - Len(b)] = w[n + (i - Len(b))]
        BY <1>1, <3>1
      <4>2. i \in Nat
        BY <1>2, <2>1
      <4>. QED  BY <1>0, <1>2, <4>1, <4>2
    <3>3. ~(i + n <= Len(b))
      BY <1>0, <1>2, <2>6
    <3>4. i + n <= Len(y)
      BY <1>0, <1>2, <2>1, <2>4
    <3>. QED  BY <2>2, <2>3, <2>6, <3>2, <3>3, <3>4
  <2>. QED  BY <2>5, <2>6
<1>6. Len(x) \in Nat /\ Len(y) \in Nat
  BY <1>0, <1>2, <1>3 DEF x, y
<1>7. Skips(x, y, Len(b), n)
  BY <1>0, <1>2, <1>5, <1>6 DEF Skips
<1>8. y = <<>> => x = <<>>
  <2>1. y = <<>> => Len(y) = 0
    OBVIOUS
  <2>2. Len(x) <= Len(y)
    BY <1>0, <1>1, <1>2, <1>3 DEF x, y
  <2>3. x \in Seq(S)
    BY <1>4 DEF x
  <2>. QED  BY <1>6, <2>1, <2>2, <2>3
<1>. QED  BY <1>7, <1>8 DEF x, y, c

\* Of b and w, the first n messages of w are moved to the end of b.
LEMMA Moved ==
    ASSUME NEW S, NEW b \in Seq(S), NEW w \in Seq(S), NEW n \in 0 .. Len(w)
    PROVE  (b \o SubSeq(w, 1, n)) \o SubSeq(w, n + 1, Len(w)) = b \o w
<1> DEFINE c == SubSeq(w, 1, n)
           d == SubSeq(w, n + 1, Len(w))
<1>1. Len(w) \in Nat /\ n \in Nat /\ n <= Len(w)
  OBVIOUS
<1>2. c \in Seq(S) /\ d \in Seq(S)
  <2>1. (\A i \in 1 .. n : w[i] \in S) /\ \A i \in n + 1 .. Len(w) : w[i] \in S
    BY <1>1
  <2>. QED  BY <1>1, <2>1, SubSeqProperties
<1>3. c \o d = w
  <2>1. /\ Len(c) = n /\ Len(d) = Len(w) - n
        /\ \A i \in 1 .. n : c[i] = w[i]
        /\ \A i \in 1 .. Len(w) - n : d[i] = w[n + i]
    BY <1>1
  <2>2. c \o d \in Seq(S) /\ Len(c \o d) = Len(c) + Len(d)
        /\ \A i \in 1 .. Len(c) + Len(d) : (c \o d)[i] = IF i <= Len(c) THEN c[i] ELSE d[i - Len(c)]
    BY <1>2, ConcatProperties
  <2> DEFINE z == c \o d
  <2> HIDE DEF c, d, z
  <2>3. z \in Seq(S) /\ Len(z) = Len(w)
    BY <1>1, <2>1, <2>2 DEF z
  <2>4. ASSUME NEW i \in 1 .. Len(w) PROVE z[i] = w[i]
    <3>1. z[i] = IF i <= n THEN c[i] ELSE d[i - n]
      BY <1>1, <2>1, <2>2 DEF z
    <3>2. CASE i <= n
      BY <1>1, <2>1, <3>1, <3>2
    <3>3. CASE ~(i <= n)
      <4>1. i - n \in 1 .. Len(w) - n /\ n + (i - n) = i
        BY <1>1, <3>3
      <4>. QED  BY <2>1, <3>1, <3>3, <4>1
    <3>. QED  BY <3>2, <3>3
  <2>5. z = w
    BY <2>3, <2>4, SeqEqual
  <2>. QED  BY <2>5 DEF z
<1> HIDE DEF c, d
<1>4. (b \o c) \o d = b \o (c \o d)
  BY <1>2, ConcatAssociative
<1>. QED  BY <1>3, <1>4 DEF c, d

LEMMA ArriveStill ==
    ASSUME TypeOK, NEW s \in Sides, NEW r \in Requests, NEW n \in 0 .. Len(wire[s][r]), NEW final \in BOOLEAN,
           Arrive(s, r, n, final), NEW q \in Requests
    PROVE  Still(q)
<1> DEFINE b == buffer[s][r]
           w == wire[s][r]
           b2 == b \o SubSeq(w, 1, n)
           w2 == SubSeq(w, n + 1, Len(w))
<1>1. b \in Seq(Messages) /\ w \in Seq(Messages)
  BY FlowTypes
<1>2. b2 \in Seq(Messages) /\ w2 \in Seq(Messages)
  <2>1. (\A i \in 1 .. n : w[i] \in Messages) /\ (\A i \in n + 1 .. Len(w) : w[i] \in Messages) /\ n \in Int /\ Len(w) \in Int
    BY <1>1
  <2>2. SubSeq(w, 1, n) \in Seq(Messages) /\ w2 \in Seq(Messages)
    BY <2>1, SubSeqProperties
  <2>. QED  BY <1>1, <2>2, ConcatProperties
<1>3. /\ wire' = [wire EXCEPT ![s][r] = w2]
      /\ buffer' = buffer \/ buffer' = [buffer EXCEPT ![s][r] = b2]
      /\ job' = job
  BY DEF Arrive, loopVars
<1>4. wire \in [Sides -> [Requests -> Seq(Messages)]] /\ buffer \in [Sides -> [Requests -> Seq(Messages)]]
  BY DEF TypeOK
<1>5. n \in 0 .. Len(w)
  OBVIOUS
<1>6. b2 \o w2 = b \o w
  BY <1>1, <1>5, Moved
<1>7. Skips(b \o w2, b \o w, Len(b), n) /\ (b \o w = <<>> => b \o w2 = <<>>)
  BY <1>1, <1>5, Dropped
<1>8. Skips(b \o w, b \o w, 0, 0)
  <2>1. b \o w \in Seq(Messages)
    BY <1>1, ConcatProperties
  <2>. QED  BY <2>1, SkipsNothing
<1> DEFINE S == Seq(Messages)
<1>9. b \in S /\ w \in S /\ b2 \in S /\ w2 \in S /\ wire \in [Sides -> [Requests -> S]] /\ buffer \in [Sides -> [Requests -> S]]
  BY <1>1, <1>2, <1>4
<1> HIDE DEF S, b2, w2
<1>10. /\ wire'[s][r] = w2
       /\ \A x \in Sides, p \in Requests : x # s \/ p # r => wire'[x][p] = wire[x][p]
  <2>1. /\ [wire EXCEPT ![s][r] = w2][s][r] = w2
        /\ \A p \in Requests : p # r => [wire EXCEPT ![s][r] = w2][s][p] = wire[s][p]
        /\ \A x \in Sides : x # s => [wire EXCEPT ![s][r] = w2][x] = wire[x]
    BY <1>9, OneChanged
  <2>. QED  BY <1>3, <2>1
<1>11. /\ buffer'[s][r] \in {b, b2}
       /\ \A x \in Sides, p \in Requests : x # s \/ p # r => buffer'[x][p] = buffer[x][p]
  <2>1. /\ [buffer EXCEPT ![s][r] = b2][s][r] = b2
        /\ \A p \in Requests : p # r => [buffer EXCEPT ![s][r] = b2][s][p] = buffer[s][p]
        /\ \A x \in Sides : x # s => [buffer EXCEPT ![s][r] = b2][x] = buffer[x]
    BY <1>9, OneChanged
  <2>. QED  BY <1>3, <2>1
<1>12. ASSUME NEW x \in Sides
       PROVE  (\E k, j : Skips(Flow(x, q)', Flow(x, q), k, j)) /\ (Flow(x, q) = <<>> => Flow(x, q)' = <<>>)
  <2>1. CASE x = s /\ q = r
    <3>1. Flow(x, q)' = buffer'[s][r] \o w2 /\ Flow(x, q) = b \o w
      BY <1>10, <2>1 DEF Flow
    <3> HIDE DEF b, w
    <3>2. CASE buffer'[s][r] = b
      <4>1. Flow(x, q)' = b \o w2
        BY <3>1, <3>2
      <4>. QED  BY <1>7, <3>1, <4>1
    <3>3. CASE buffer'[s][r] = b2
      <4>1. Flow(x, q)' = b \o w
        BY <1>6, <3>1, <3>3
      <4>. QED  BY <1>8, <3>1, <4>1
    <3>. QED  BY <1>11, <3>2, <3>3
  <2>2. CASE ~(x = s /\ q = r)
    <3>1. Flow(x, q)' = Flow(x, q)
      BY <1>10, <1>11, <2>2 DEF Flow
    <3>2. Flow(x, q) \in Seq(Messages)
      BY FlowTypes
    <3>. QED  BY <3>1, <3>2, SkipsNothing
  <2>. QED  BY <2>1, <2>2
<1>. QED  BY <1>3, <1>12, Sorts, SkipsStill

\* What Send does to the messages on a stream.
LEMMA Written ==
    ASSUME TypeOK, NEW s \in Sides, NEW r \in Requests, NEW m \in Messages, NEW last \in BOOLEAN,
           Send(s, r, m, last) \/ UNCHANGED wireVars
    PROVE  /\ \A x \in Sides, q \in Requests : x # Peer(s) \/ q # r => wire'[x][q] = wire[x][q]
           /\ wire'[Peer(s)][r] \in {wire[Peer(s)][r], Append(wire[Peer(s)][r], m)}
<1>1. wire' = wire \/ wire' = [wire EXCEPT ![Peer(s)][r] = Append(@, m)]
  BY SendTypes
<1>2. Peer(s) \in Sides
  BY DEF Peer, Sides
<1>3. CASE wire' = wire
  BY <1>3
<1>4. CASE wire' = [wire EXCEPT ![Peer(s)][r] = Append(@, m)]
  <2> DEFINE S == Seq(Messages)
             w == Append(wire[Peer(s)][r], m)
  <2>1. w \in S /\ wire \in [Sides -> [Requests -> S]]
    BY <1>2, FlowTypes DEF TypeOK
  <2>2. wire' = [wire EXCEPT ![Peer(s)][r] = w]
    BY <1>4
  <2> HIDE DEF S, w
  <2>3. /\ [wire EXCEPT ![Peer(s)][r] = w][Peer(s)][r] = w
        /\ \A q \in Requests : q # r => [wire EXCEPT ![Peer(s)][r] = w][Peer(s)][q] = wire[Peer(s)][q]
        /\ \A x \in Sides : x # Peer(s) => [wire EXCEPT ![Peer(s)][r] = w][x] = wire[x]
    BY <1>2, <2>1, OneChanged
  <2>4. wire'[Peer(s)][r] = w /\ \A x \in Sides, q \in Requests : x # Peer(s) \/ q # r => wire'[x][q] = wire[x][q]
    BY <2>2, <2>3
  <2>. QED  BY <2>4 DEF w
<1>. QED  BY <1>1, <1>3, <1>4

LEMMA FlowAppended ==
    ASSUME TypeOK, NEW s \in Sides, NEW r \in Requests, NEW m \in Messages
    PROVE  buffer[s][r] \o Append(wire[s][r], m) = Append(Flow(s, r), m)
<1> DEFINE b == buffer[s][r]
           v == wire[s][r]
           f == Flow(s, r)
           d == <<m>>
<1>1. b \in Seq(Messages) /\ v \in Seq(Messages) /\ f \in Seq(Messages) /\ d \in Seq(Messages)
  BY FlowTypes
<1>2. f = b \o v
  BY DEF Flow
<1>3. Append(v, m) = v \o d /\ Append(f, m) = f \o d
  <2>1. \A q \in Seq(Messages) : Append(q, m) = q \o <<m>>
    BY AppendIsConcat
  <2> HIDE DEF b, v, f
  <2>. QED  BY <1>1, <2>1
<1> HIDE DEF b, v, f, d
<1>4. (b \o v) \o d = b \o (v \o d)
  BY <1>1, ConcatAssociative
<1>5. b \o Append(v, m) = Append(f, m)
  BY <1>2, <1>3, <1>4
<1>. QED  BY <1>5 DEF b, v, f

\* What Send does to what is on its way.
LEMMA SendFlow ==
    ASSUME TypeOK, NEW s \in Sides, NEW r \in Requests, NEW m \in Messages, NEW last \in BOOLEAN,
           Send(s, r, m, last) \/ UNCHANGED wireVars, buffer' = buffer
    PROVE  /\ \A x \in Sides, q \in Requests : x # Peer(s) \/ q # r => Flow(x, q)' = Flow(x, q)
           /\ Flow(Peer(s), r)' \in {Flow(Peer(s), r), Append(Flow(Peer(s), r), m)}
<1>1. /\ \A x \in Sides, q \in Requests : x # Peer(s) \/ q # r => wire'[x][q] = wire[x][q]
      /\ wire'[Peer(s)][r] \in {wire[Peer(s)][r], Append(wire[Peer(s)][r], m)}
  BY Written
<1>2. buffer[Peer(s)][r] \o Append(wire[Peer(s)][r], m) = Append(Flow(Peer(s), r), m)
  BY FlowAppended DEF Peer, Sides
<1>. QED  BY <1>1, <1>2 DEF Flow

\* A call sends its message.
LEMMA SendStill ==
    ASSUME RequestInv, NEW t \in Threads, SendJob(t), NEW q \in Requests
    PROVE  Still(q)
<1>1. TypeOK /\ job \in [Threads -> Jobs \cup {None}]
  BY DEF RequestInv, TypeOK
<1>2. /\ job[t] \in Jobs /\ job[t].req \in Requests /\ job[t].msg \in Messages /\ job[t].last \in BOOLEAN
      /\ job[t] # None /\ job[t].msg # None
  BY <1>1 DEF SendJob, Jobs
<1>3. SideOf(t) \in Sides /\ Peer(SideOf(t)) \in Sides
      /\ Peer(SideOf(t)) = IF t \in Callers THEN "in" ELSE "out"
  BY DEF SideOf, Sides, Peer
<1>0. PICK r \in Requests, m \in Messages, l \in BOOLEAN :
        job[t].req = r /\ job[t].msg = m /\ job[t].last = l
  BY <1>2
<1> DEFINE s == Peer(SideOf(t))
<1>4. /\ \A x \in Sides, p \in Requests : x # s \/ p # r => Flow(x, p)' = Flow(x, p)
      /\ Flow(s, r)' \in {Flow(s, r), Append(Flow(s, r), m)}
  <2>1. Send(SideOf(t), r, m, l) \/ UNCHANGED wireVars
    BY <1>0 DEF SendJob
  <2>2. buffer' = buffer
    BY DEF SendJob, loopVars
  <2>. QED  BY <1>1, <1>3, <2>1, <2>2, SendFlow
<1>5. (job'[t] = None \/ job'[t].msg = None) /\ \A u \in Threads : u # t => job'[u] = job[u]
  <2> DEFINE j == IF job[t].drop = {} THEN None ELSE [job[t] EXCEPT !.msg = None]
  <2>1. j = None \/ j.msg = None
    BY <1>2 DEF Jobs
  <2>2. job' = [job EXCEPT ![t] = j]
    BY DEF SendJob
  <2> HIDE DEF j
  <2>. QED  BY <1>1, <2>1, <2>2
<1>6. \A K, T, p : T \subseteq Threads => NoNewJob(job', job, T, p, K)
  BY <1>5 DEF NoNewJob
<1>7. Shrinks(AnswersSent(q)', AnswersSent(q))
  <2>1. CASE Flow("out", q)' = Flow("out", q)
    <3>1. AnswersSent(q)' = OfKinds(AnswerKinds, Way(job', Answerers, q, Flow("out", q)))
      BY <2>1 DEF AnswersSent
    <3>2. AnswersSent(q)' \subseteq AnswersSent(q)
      BY <1>6, <3>1, Sorts, SameFlow DEF AnswersSent
    <3>. QED  BY <3>2, SubsetShrinks
  <2>2. CASE Flow("out", q)' # Flow("out", q)
    <3>1. q = r /\ s = "out" /\ t \in Answerers /\ Flow("out", q)' = Append(Flow("out", q), m)
      <4>1. "out" = s /\ q = r
        BY <1>4, <2>2, Sorts
      <4>2. t \in Answerers
        BY <1>3, <4>1 DEF Threads
      <4>. QED  BY <1>4, <2>2, <4>1, <4>2
    <3>2. Flow("out", q) \in Seq(Messages)
      BY <1>1, Sorts, FlowTypes
    <3> DEFINE f == Flow("out", q)
               f2 == Append(f, m)
    <3>3. AnswersSent(q)' = OfKinds(AnswerKinds, Way(job', Answerers, q, f2))
      BY <3>1 DEF AnswersSent
    <3>4. \A u \in Answerers : u # t => job'[u] = job[u]
      BY <1>5, Sorts
    <3> HIDE DEF f
    <3>5. Shrinks(OfKinds(AnswerKinds, Way(job', Answerers, q, f2)), OfKinds(AnswerKinds, Way(job, Answerers, q, f)))
      BY <1>0, <1>2, <1>5, <3>1, <3>2, <3>4, JobSent DEF f
    <3>. QED  BY <3>3, <3>5 DEF AnswersSent, f
  <2>. QED  BY <2>1, <2>2
<1>8. Shrinks(UpdatesSent(q)', UpdatesSent(q))
  <2>1. CASE Flow("in", q)' = Flow("in", q)
    <3>1. UpdatesSent(q)' = OfKinds(UpdateKinds, Way(job', Callers, q, Flow("in", q)))
      BY <2>1 DEF UpdatesSent
    <3>2. UpdatesSent(q)' \subseteq UpdatesSent(q)
      BY <1>6, <3>1, Sorts, SameFlow DEF UpdatesSent
    <3>. QED  BY <3>2, SubsetShrinks
  <2>2. CASE Flow("in", q)' # Flow("in", q)
    <3>1. q = r /\ s = "in" /\ t \in Callers /\ Flow("in", q)' = Append(Flow("in", q), m)
      <4>1. "in" = s /\ q = r
        BY <1>4, <2>2, Sorts
      <4>2. t \in Callers
        BY <1>3, <4>1
      <4>. QED  BY <1>4, <2>2, <4>1, <4>2
    <3>2. Flow("in", q) \in Seq(Messages)
      BY <1>1, Sorts, FlowTypes
    <3> DEFINE f == Flow("in", q)
               f2 == Append(f, m)
    <3>3. UpdatesSent(q)' = OfKinds(UpdateKinds, Way(job', Callers, q, f2))
      BY <3>1 DEF UpdatesSent
    <3>4. \A u \in Callers : u # t => job'[u] = job[u]
      BY <1>5, Sorts
    <3> HIDE DEF f
    <3>5. Shrinks(OfKinds(UpdateKinds, Way(job', Callers, q, f2)), OfKinds(UpdateKinds, Way(job, Callers, q, f)))
      BY <1>0, <1>2, <1>5, <3>1, <3>2, <3>4, JobSent DEF f
    <3>. QED  BY <3>3, <3>5 DEF UpdatesSent, f
  <2>. QED  BY <2>1, <2>2
<1>9. type[q] = None => Flow("in", q)' = Flow("in", q)
  <2> SUFFICES ASSUME type[q] = None, Flow("in", q)' # Flow("in", q) PROVE FALSE
    OBVIOUS
  <2>1. s = "in" /\ q = r
    BY <1>4, Sorts
  <2>2. t \in Callers
    BY <1>3, <2>1
  <2>. QED  BY <1>0, <1>2, <2>1, <2>2 DEF RequestInv, Unmade
<1>. QED  BY <1>7, <1>8, <1>9 DEF Still

\* Histories grow by one answer.
LEMMA HistoryTypes ==
    ASSUME NEW h \in [Ids -> Seq({"OK", "ERROR"})], NEW i \in Ids, NEW a \in {"OK", "ERROR"}
    PROVE  [h EXCEPT ![i] = Append(@, a)] \in [Ids -> Seq({"OK", "ERROR"})]
OBVIOUS

LEMMA ParseOutTypes ==
    ASSUME TypeOK, NEW r \in Requests, NEW m, ParseOut(r, m)
    PROVE  TypeOK'
<1>1. Parsing("out", r, m) /\ Taken("out", r, m)
  BY DEF ParseOut, ParseAnswer, ParseTypedOk, ParseNotice, ParseSubscriptionDone
<1>2. /\ buffer' \in [Sides -> [Requests -> Seq(Messages)]]
      /\ reading' \in [Sides -> Readings \cup {None}]
      /\ type' = type /\ job' = job /\ violated' = violated /\ notes' = notes /\ left' = left
  BY <1>1, Sorts, TakenTypes
<1>3. /\ state \in [Sides -> [Requests -> States]] /\ told \in [Ids -> Seq({"OK", "ERROR"})]
      /\ updateId \in [Requests -> Updates \cup {None}] /\ requests \subseteq Ids
  BY DEF TypeOK
<1>4. \A st \in States : [state EXCEPT !["out"][r] = st] \in [Sides -> [Requests -> States]]
  BY <1>3, Sorts, OneChanged
<1>5. {"OK", "ERROR", "DONE"} \subseteq States
  BY DEF States
<1>6. CASE ParseAnswer(r, m)
  <2> DEFINE id == AnsweredId(r)
             answer == IF m.kind = "REQUEST_OK" THEN "OK" ELSE "ERROR"
             st == IF answer = "OK" \/ state["out"][r] = "UPDATE_SENT" THEN "OK" ELSE "ERROR"
  <2>1. state' \in [Sides -> [Requests -> States]]
    <3>1. state' = [state EXCEPT !["out"][r] = st] /\ st \in States
      BY <1>5, <1>6 DEF ParseAnswer
    <3> HIDE DEF st
    <3>. QED  BY <1>4, <3>1
  <2>2. told' \in [Ids -> Seq({"OK", "ERROR"})]
    <3>1. told' = IF id \in requests THEN [told EXCEPT ![id] = Append(@, answer)] ELSE told
      BY <1>6 DEF ParseAnswer
    <3>2. answer \in {"OK", "ERROR"}
      OBVIOUS
    <3> HIDE DEF id, answer
    <3>. QED  BY <1>3, <3>1, <3>2, HistoryTypes
  <2>3. updateId' \in [Requests -> Updates \cup {None}] /\ requests' \subseteq Ids
    <3>1. updateId' = updateId \/ updateId' = [updateId EXCEPT ![r] = None]
      BY <1>6 DEF ParseAnswer
    <3>2. requests' = requests \ {id}
      BY <1>6 DEF ParseAnswer
    <3>3. [updateId EXCEPT ![r] = None] \in [Requests -> Updates \cup {None}]
      BY <1>3
    <3>. QED  BY <1>3, <3>1, <3>2, <3>3
  <2>. QED  BY <1>2, <1>6, <2>1, <2>2, <2>3 DEF TypeOK, ParseAnswer, wireVars
<1>7. CASE ParseTypedOk(r, m)
  <2>1. state' \in [Sides -> [Requests -> States]]
    BY <1>4, <1>5, <1>7 DEF ParseTypedOk
  <2>2. told' \in [Ids -> Seq({"OK", "ERROR"})]
    BY <1>3, <1>7, Sorts, HistoryTypes DEF ParseTypedOk
  <2>. QED  BY <1>2, <1>7, <2>1, <2>2 DEF TypeOK, ParseTypedOk, wireVars, tableVars
<1>8. CASE ParseNotice(r, m)
  BY <1>2, <1>8 DEF TypeOK, ParseNotice, wireVars, tableVars
<1>9. CASE ParseSubscriptionDone(r, m)
  <2>1. state' \in [Sides -> [Requests -> States]]
    BY <1>4, <1>5, <1>9 DEF ParseSubscriptionDone
  <2>. QED  BY <1>2, <1>9, <2>1 DEF TypeOK, ParseSubscriptionDone, wireVars, tableVars
<1>. QED  BY <1>6, <1>7, <1>8, <1>9 DEF ParseOut

LEMMA UpdateKnown ==
    ASSUME RequestInv, NEW r \in Requests, NEW m, Parsing("in", r, m), m.kind = "REQUEST_UPDATE"
    PROVE  /\ <<"flow", 1, m>> \in UpdatesSent(r)
           /\ m.id = updateId[r] /\ updateId[r] # None /\ m.id \in Updates /\ decision[m.id] = <<>>
<1>1. TypeOK /\ Asked(r) /\ updateId[r] \in Updates \cup {None}
  BY DEF RequestInv, TypeOK
<1>2. <<"flow", 1, m>> \in UpdatesSent(r)
  BY <1>1, HeadSent DEF UpdateKinds
<1>3. updateId[r] # None /\ <<"flow", 1, m>>[3].id = updateId[r] /\ decision[updateId[r]] = <<>>
  BY <1>1, <1>2 DEF Asked
<1>. QED  BY <1>1, <1>2, <1>3

LEMMA ParseInTypes ==
    ASSUME RequestInv, NEW r \in Requests, NEW m, ParseIn(r, m)
    PROVE  TypeOK'
<1>0. TypeOK
  BY DEF RequestInv
<1>1. Parsing("in", r, m) /\ Taken("in", r, m)
  BY DEF ParseIn, ParseHandled, ParseUnhandled, ParseRequestUpdate, ParsePublishDone
<1>2. /\ buffer' \in [Sides -> [Requests -> Seq(Messages)]]
      /\ reading' \in [Sides -> Readings \cup {None}]
      /\ type' = type /\ job' = job /\ violated' = violated /\ notes' = notes /\ left' = left
  BY <1>0, <1>1, Sorts, TakenTypes
<1>3. /\ state \in [Sides -> [Requests -> States]] /\ decision \in [Ids -> Seq({"OK", "ERROR"})]
      /\ streams \in [Sides -> SUBSET Requests] /\ byReqid \in [Sides -> SUBSET Requests]
      /\ updateRequests \subseteq Updates \X Requests /\ ended \in [Requests -> Nat]
  BY <1>0 DEF TypeOK
<1>4. \A st \in States : [state EXCEPT !["in"][r] = st] \in [Sides -> [Requests -> States]]
  BY <1>3, Sorts, OneChanged
<1>5. {"SENT", "UPDATE_SENT", "ERROR", "DONE"} \subseteq States
  BY DEF States
<1>6. CASE ParseHandled(r, m)
  <2>1. state' \in [Sides -> [Requests -> States]]
    BY <1>4, <1>5, <1>6 DEF ParseHandled
  <2>2. byReqid' \in [Sides -> SUBSET Requests]
    BY <1>3, <1>6 DEF ParseHandled
  <2>. QED  BY <1>0, <1>2, <1>6, <2>1, <2>2 DEF TypeOK, ParseHandled, wireVars, tableVars
<1>7. CASE ParseUnhandled(r, m)
  <2>1. state' \in [Sides -> [Requests -> States]]
    BY <1>4, <1>5, <1>7 DEF ParseUnhandled
  <2>2. byReqid' \in [Sides -> SUBSET Requests] /\ streams' \in [Sides -> SUBSET Requests]
    <3>1. /\ byReqid' = byReqid \/ byReqid' = [byReqid EXCEPT !["in"] = @ \cup {r}]
          /\ streams' = [streams EXCEPT !["in"] = @ \ {r}]
      BY <1>7 DEF ParseUnhandled
    <3>2. [byReqid EXCEPT !["in"] = @ \cup {r}] \in [Sides -> SUBSET Requests]
      BY <1>3
    <3>3. [streams EXCEPT !["in"] = @ \ {r}] \in [Sides -> SUBSET Requests]
      BY <1>3
    <3>. QED  BY <1>3, <3>1, <3>2, <3>3
  <2>3. decision' \in [Ids -> Seq({"OK", "ERROR"})]
    BY <1>3, <1>7, Sorts, HistoryTypes DEF ParseUnhandled
  <2>4. /\ wire' \in [Sides -> [Requests -> Seq(Messages)]]
        /\ fin' \in [Sides -> [Requests -> {"no", "sent", "read"}]]
    <3>1. Send("in", r, Msg("REQUEST_ERROR", r), TRUE) \/ UNCHANGED wireVars
      BY <1>7 DEF ParseUnhandled
    <3>2. Msg("REQUEST_ERROR", r) \in Messages /\ TRUE \in BOOLEAN
      BY Sorts, MessageTypes
    <3>. QED  BY <1>0, <3>1, <3>2, Sorts, SendTypes
  <2>5. controlEnded' \in BOOLEAN
    BY <1>0, <1>7 DEF ParseUnhandled, TypeOK
  <2>. QED  BY <1>0, <1>2, <1>7, <2>1, <2>2, <2>3, <2>4, <2>5 DEF TypeOK, ParseUnhandled, tableVars
<1>8. CASE ParseRequestUpdate(r, m)
  <2>1. state' \in [Sides -> [Requests -> States]]
    BY <1>4, <1>5, <1>8 DEF ParseRequestUpdate
  <2>2. m.id \in Updates
    BY <1>1, <1>8, UpdateKnown DEF ParseRequestUpdate
  <2>3. updateRequests' \subseteq Updates \X Requests
    BY <1>3, <1>8, <2>2 DEF ParseRequestUpdate
  <2>. QED  BY <1>0, <1>2, <1>8, <2>1, <2>3 DEF TypeOK, ParseRequestUpdate, wireVars
<1>9. CASE ParsePublishDone(r, m)
  <2>1. state' \in [Sides -> [Requests -> States]]
    BY <1>4, <1>5, <1>9 DEF ParsePublishDone
  <2>2. ended' \in [Requests -> Nat]
    <3>1. ended' = [ended EXCEPT ![r] = @ + 1]
      BY <1>9 DEF ParsePublishDone
    <3>. QED  BY <1>3, <3>1
  <2>. QED  BY <1>0, <1>2, <1>9, <2>1, <2>2 DEF TypeOK, ParsePublishDone, wireVars, tableVars
<1>. QED  BY <1>6, <1>7, <1>8, <1>9 DEF ParseIn

-----------------------------------------------------------------------------
(* What a step does to the contract.                                         *)

Promise == Contract!Next \/ UNCHANGED <<decision, told>>

\* A step that says nothing, and nothing new is on its way.
LEMMA QuietStep ==
    ASSUME RequestInv, TypeOK', \A q \in Requests : Untouched(q) /\ Still(q),
           UNCHANGED <<decision, told, updateId>>, requests \subseteq requests'
    PROVE  RequestInv' /\ Promise
<1>1. \A q \in Requests : Unmade(q) /\ Asked(q) /\ Awaited(q)
  BY DEF RequestInv
<1>2. \A q \in Requests : Unmade(q)' /\ Asked(q)' /\ Awaited(q)'
  BY <1>1, UntouchedKept
<1>3. DecidedOnce' /\ OneRequestEach'
  BY DEF RequestInv, DecidedOnce, OneRequestEach
<1>. QED  BY <1>2, <1>3 DEF RequestInv, Promise

-----------------------------------------------------------------------------
(* Steps that say nothing.                                                   *)

LEMMA JobsKept ==
    ASSUME TypeOK, NEW t \in Threads, NEW j, job' = [job EXCEPT ![t] = j]
    PROVE  job'[t] = j /\ \A u \in Threads : u # t => job'[u] = job[u]
BY DEF TypeOK

\* A call of thread t that leaves a job, and nothing else of interest.
LEMMA CallQuiet ==
    ASSUME RequestInv, TypeOK', NEW t \in Threads, NEW r \in Requests, NEW j \in Jobs,
           job' = [job EXCEPT ![t] = j], j.req = r,
           type[r] # None,
           \/ t \in Callers /\ j.msg.kind \notin UpdateKinds
           \/ t \in Answerers /\ j.msg.kind \notin AnswerKinds,
           UNCHANGED <<requestVars, tableVars, wireVars, loopVars, decision, told>>
    PROVE  RequestInv' /\ Promise
<1>0. TypeOK
  BY DEF RequestInv
<1>1. job'[t] = j /\ \A u \in Threads : u # t => job'[u] = job[u]
  BY <1>0, JobsKept
<1>2. ASSUME NEW q \in Requests PROVE Still(q)
  <2>1. UNCHANGED <<wire, buffer>>
    BY DEF wireVars, loopVars
  <2>. QED  BY <1>0, <2>1, StillJob
<1>3. ASSUME NEW q \in Requests PROVE Untouched(q)
  <2>1. type[q] = None => q # r
    OBVIOUS
  <2>2. type[q] = None => \A u \in Callers : job'[u] # None /\ job'[u].req = q => job[u] # None /\ job[u].req = q
    BY <1>1, <2>1, Sorts
  <2>. QED  BY <2>2 DEF Untouched, requestVars, tableVars
<1>4. UNCHANGED <<decision, told, updateId>> /\ requests \subseteq requests'
  BY DEF requestVars, tableVars
<1>. QED  BY <1>2, <1>3, <1>4, QuietStep

LEMMA PublishDoneStep ==
    ASSUME RequestInv, TypeOK', NEW t \in Threads, NEW r \in Requests, PublishDone(t, r)
    PROVE  RequestInv' /\ Promise
<1> DEFINE j == Job(r, Msg("PUBLISH_DONE", r), TRUE, Tables)
<1>1. j \in Jobs /\ j.req = r /\ j.msg.kind = "PUBLISH_DONE"
  <2>1. j \in Jobs
    BY Sorts, MessageTypes, JobTypes
  <2>2. j.req = r /\ j.msg.kind = "PUBLISH_DONE"
    BY DEF Job, Msg
  <2>. QED  BY <2>1, <2>2
<1>2. j.msg.kind \notin UpdateKinds /\ j.msg.kind \notin AnswerKinds
  BY <1>1 DEF UpdateKinds, AnswerKinds, TypedOks
<1>3. type[r] # None
  <2>1. type[r] \in {"PUBLISH", "SUBSCRIBE"}
    BY DEF PublishDone
  <2>2. type[r] \in AllTypes
    BY <2>1 DEF AllTypes
  <2>. QED  BY <2>2, Sorts
<1>4. job' = [job EXCEPT ![t] = j] /\ UNCHANGED <<requestVars, tableVars, wireVars, loopVars, decision, told>>
  BY DEF PublishDone
<1>5. t \in Callers \/ t \in Answerers
  BY DEF Threads
<1> HIDE DEF j
<1>. QED  BY <1>1, <1>2, <1>3, <1>4, <1>5, CallQuiet

\* A request some state of which is not NEW was made.
LEMMA Made ==
    ASSUME RequestInv, NEW r \in Requests,
           state["in"][r] # "NEW" \/ state["out"][r] # "NEW" \/ r \in byReqid["in"] \/ Flow("in", r) # <<>>
           \/ updateId[r] # None
    PROVE  type[r] # None
BY DEF RequestInv, Unmade

LEMMA NotifyStep ==
    ASSUME RequestInv, TypeOK', NEW t \in Answerers, NEW r \in Requests, NEW note \in Notes, Notify(t, r, note)
    PROVE  RequestInv' /\ Promise
<1> DEFINE j == Job(r, Msg(note, r), FALSE, {})
<1>1. j \in Jobs /\ j.req = r /\ j.msg.kind = note
  <2>1. j \in Jobs
    BY Sorts, MessageTypes, JobTypes
  <2>2. j.req = r /\ j.msg.kind = note
    BY DEF Job, Msg
  <2>. QED  BY <2>1, <2>2
<1>2. j.msg.kind \notin AnswerKinds
  BY <1>1 DEF AnswerKinds, TypedOks, Notes
<1>3. type[r] # None
  BY Made DEF Notify
<1>4. job' = [job EXCEPT ![t] = j] /\ UNCHANGED <<requestVars, tableVars, wireVars, loopVars, decision, told>>
  BY DEF Notify
<1>5. t \in Threads
  BY Sorts
<1> HIDE DEF j
<1>. QED  BY <1>1, <1>2, <1>3, <1>4, <1>5, CallQuiet

\* The calls, the jobs and the messages are where they were.
LEMMA NothingMoves ==
    ASSUME UNCHANGED <<wire, buffer, job>>, NEW q
    PROVE  Still(q)
<1>1. NoNewJob(job', job, Answerers, q, AnswerKinds) /\ NoNewJob(job', job, Callers, q, UpdateKinds)
  BY DEF NoNewJob
<1>. QED  BY <1>1, StillCall

LEMMA CancelStep ==
    ASSUME RequestInv, TypeOK', NEW t, NEW r \in Requests, NEW ty, Cancel(t, r, ty)
    PROVE  RequestInv' /\ Promise
<1>1. /\ UNCHANGED <<type, state, updateId, requests, updateRequests, wire, buffer, job, decision, told>>
      /\ byReqid' = [byReqid EXCEPT !["out"] = @ \ {r}]
  BY DEF Cancel, tableVars, wireVars, loopVars
<1>2. byReqid'["in"] = byReqid["in"]
  BY <1>1 DEF RequestInv, TypeOK, Sides
<1>3. \A q \in Requests : Untouched(q)
  BY <1>1, <1>2 DEF Untouched
<1>4. \A q \in Requests : Still(q)
  BY <1>1, NothingMoves
<1>. QED  BY <1>1, <1>3, <1>4, QuietStep

LEMMA SendJobStep ==
    ASSUME RequestInv, TypeOK', NEW t \in Threads, SendJob(t)
    PROVE  RequestInv' /\ Promise
<1>0. TypeOK
  BY DEF RequestInv
<1> DEFINE j == IF job[t].drop = {} THEN None ELSE [job[t] EXCEPT !.msg = None]
<1>1. /\ UNCHANGED <<requestVars, tableVars, decision, told>>
      /\ job' = [job EXCEPT ![t] = j] /\ job[t] # None
  BY DEF SendJob, historyVars
<1>2. j = None \/ j.req = job[t].req
  <2>1. job[t] \in Jobs
    BY <1>0, <1>1 DEF TypeOK
  <2>. QED  BY <2>1 DEF Jobs
<1>3. job'[t] = j /\ \A u \in Threads : u # t => job'[u] = job[u]
  <2>1. job \in [Threads -> Jobs \cup {None}]
    BY <1>0 DEF TypeOK
  <2>2. job' = [job EXCEPT ![t] = j]
    BY <1>1
  <2> HIDE DEF j
  <2>. QED  BY <2>1, <2>2
<1> HIDE DEF j
<1>4. \A q \in Requests : \A u \in Callers : job'[u] # None /\ job'[u].req = q => job[u] # None /\ job[u].req = q
  BY <1>1, <1>2, <1>3, Sorts
<1>5. \A q \in Requests : Untouched(q)
  BY <1>1, <1>4 DEF Untouched, requestVars, tableVars
<1>6. \A q \in Requests : Still(q)
  BY SendStill
<1>. QED  BY <1>1, <1>5, <1>6, QuietStep DEF requestVars, tableVars

LEMMA DropJobStep ==
    ASSUME RequestInv, TypeOK', NEW t \in Threads, DropJob(t)
    PROVE  RequestInv' /\ Promise
<1>0. TypeOK /\ job[t] # None /\ SideOf(t) \in Sides
  BY DEF RequestInv, DropJob, SideOf, Sides
<1>1. /\ UNCHANGED <<type, state, updateId, requests, updateRequests, wire, buffer, decision, told>>
      /\ job' = [job EXCEPT ![t] = None]
  BY DEF DropJob, tableVars, wireVars, loopVars, historyVars
<1>2. \A q \in Requests : q \in byReqid'["in"] => q \in byReqid["in"]
  <2>1. byReqid \in [Sides -> SUBSET Requests]
    BY <1>0 DEF TypeOK
  <2>2. byReqid' = byReqid \/ byReqid' = [byReqid EXCEPT ![SideOf(t)] = @ \ {job[t].req}]
    BY DEF DropJob
  <2>3. CASE byReqid' = [byReqid EXCEPT ![SideOf(t)] = @ \ {job[t].req}]
    BY <1>0, <2>1, <2>3, Sorts
  <2>. QED  BY <2>2, <2>3
<1>3. job'[t] = None /\ \A u \in Threads : u # t => job'[u] = job[u]
  BY <1>0, <1>1, JobsKept
<1>4. \A q \in Requests : \A u \in Callers : job'[u] # None /\ job'[u].req = q => job[u] # None /\ job[u].req = q
  BY <1>3, Sorts
<1>5. \A q \in Requests : Untouched(q)
  BY <1>1, <1>2, <1>4 DEF Untouched
<1>6. \A q \in Requests : Still(q)
  BY <1>0, <1>1, StillJob
<1>. QED  BY <1>1, <1>5, <1>6, QuietStep

LEMMA ArriveStep ==
    ASSUME RequestInv, TypeOK', NEW s \in Sides, NEW r \in Requests, NEW n \in 0 .. Len(wire[s][r]),
           NEW final \in BOOLEAN, Arrive(s, r, n, final)
    PROVE  RequestInv' /\ Promise
<1>0. TypeOK
  BY DEF RequestInv
<1>1. UNCHANGED <<type, state, byReqid, updateId, requests, updateRequests, job, decision, told>>
  BY DEF Arrive, tableVars, historyVars
<1>2. \A q \in Requests : Untouched(q)
  BY <1>1 DEF Untouched
<1>3. \A q \in Requests : Still(q)
  BY <1>0, ArriveStill
<1>. QED  BY <1>1, <1>2, <1>3, QuietStep

LEMMA ViolationStep ==
    ASSUME RequestInv, TypeOK', NEW s \in Sides, NEW r \in Requests, NEW m, Violation(s, r, m)
    PROVE  RequestInv' /\ Promise
<1>1. UNCHANGED <<type, state, byReqid, updateId, requests, updateRequests, wire, buffer, job, decision, told>>
  BY DEF Violation, requestVars, tableVars, wireVars, loopVars, historyVars
<1>2. \A q \in Requests : Untouched(q)
  BY <1>1 DEF Untouched
<1>3. \A q \in Requests : Still(q)
  BY <1>1, NothingMoves
<1>. QED  BY <1>1, <1>2, <1>3, QuietStep

LEMMA FinishReadingStep ==
    ASSUME RequestInv, TypeOK', NEW s \in Sides, NEW r \in Requests, FinishReading(s, r)
    PROVE  RequestInv' /\ Promise
<1>1. UNCHANGED <<type, state, updateId, requests, updateRequests, wire, buffer, job, decision, told>>
  BY DEF FinishReading, tableVars, wireVars
<1>2. \A q \in Requests : q \in byReqid'["in"] => q \in byReqid["in"]
  <2>1. byReqid \in [Sides -> SUBSET Requests]
    BY DEF RequestInv, TypeOK
  <2>2. byReqid' = byReqid \/ byReqid' = [byReqid EXCEPT ![s] = @ \ {r}]
    BY DEF FinishReading
  <2>3. CASE byReqid' = [byReqid EXCEPT ![s] = @ \ {r}]
    BY <2>1, <2>3, Sorts
  <2>. QED  BY <2>2, <2>3
<1>3. \A q \in Requests : Untouched(q)
  BY <1>1, <1>2 DEF Untouched
<1>4. \A q \in Requests : Still(q)
  BY <1>1, NothingMoves
<1>. QED  BY <1>1, <1>3, <1>4, QuietStep

LEMMA ParseNoticeStep ==
    ASSUME RequestInv, TypeOK', NEW r \in Requests, NEW m, ParseNotice(r, m)
    PROVE  RequestInv' /\ Promise
<1>0. TypeOK
  BY DEF RequestInv
<1>1. /\ UNCHANGED <<type, state, byReqid, updateId, requests, updateRequests, wire, job, decision, told>>
      /\ Parsing("out", r, m) /\ Taken("out", r, m)
  BY DEF ParseNotice, Taken, tableVars, wireVars
<1>2. \A q \in Requests : Untouched(q)
  BY <1>1 DEF Untouched
<1>3. \A q \in Requests : Still(q)
  BY <1>0, <1>1, Sorts, HeadTaken
<1>. QED  BY <1>1, <1>2, <1>3, QuietStep

-----------------------------------------------------------------------------
(* Steps that change the state of a request.                                 *)

LEMMA StateSet ==
    ASSUME TypeOK, NEW s \in Sides, NEW r \in Requests, NEW st \in States,
           state' = [state EXCEPT ![s][r] = st]
    PROVE  /\ state'[s][r] = st
           /\ \A q \in Requests : q # r => state'[s][q] = state[s][q]
           /\ \A x \in Sides : x # s => state'[x] = state[x]
<1>1. state \in [Sides -> [Requests -> States]]
  BY DEF TypeOK
<1>. QED  BY <1>1, OneChanged

LEMMA OutSet ==
    ASSUME TypeOK, NEW r \in Requests, NEW st \in States, state' = [state EXCEPT !["out"][r] = st]
    PROVE  /\ state'["out"][r] = st /\ state'["in"] = state["in"]
           /\ \A q \in Requests : q # r => state'["out"][q] = state["out"][q]
<1>1. "out" \in Sides
  BY DEF Sides
<1>2. "in" \in Sides
  BY DEF Sides
<1>3. state'["out"][r] = st
  BY <1>1, StateSet
<1>4. state'["in"] = state["in"]
  BY <1>1, <1>2, StateSet
<1>5. \A q \in Requests : q # r => state'["out"][q] = state["out"][q]
  BY <1>1, StateSet
<1>. QED  BY <1>3, <1>4, <1>5

LEMMA InSet ==
    ASSUME TypeOK, NEW r \in Requests, NEW st \in States, state' = [state EXCEPT !["in"][r] = st]
    PROVE  /\ state'["in"][r] = st /\ state'["out"] = state["out"]
           /\ \A q \in Requests : q # r => state'["in"][q] = state["in"][q]
<1>1. "in" \in Sides
  BY DEF Sides
<1>2. "out" \in Sides
  BY DEF Sides
<1>3. state'["in"][r] = st
  BY <1>1, StateSet
<1>4. state'["out"] = state["out"]
  BY <1>1, <1>2, StateSet
<1>5. \A q \in Requests : q # r => state'["in"][q] = state["in"][q]
  BY <1>1, StateSet
<1>. QED  BY <1>3, <1>4, <1>5

LEMMA StillKeeps ==
    ASSUME NEW r, Still(r)
    PROVE  /\ AnswersSent(r) = {} => AnswersSent(r)' = {}
           /\ AtMostOne(AnswersSent(r)) => AtMostOne(AnswersSent(r)')
           /\ \A x \in AnswersSent(r)' : \E y \in AnswersSent(r) : y[3] = x[3]
           /\ UpdatesSent(r) = {} => UpdatesSent(r)' = {}
           /\ AtMostOne(UpdatesSent(r)) => AtMostOne(UpdatesSent(r)')
           /\ \A x \in UpdatesSent(r)' : \E y \in UpdatesSent(r) : y[3] = x[3]
BY ShrinksKeeps DEF Still

\* What is left of the invariant to prove when the other requests are untouched.
LEMMA OneTouched ==
    ASSUME RequestInv, TypeOK', NEW r \in Requests,
           \A q \in Requests : q # r => Untouched(q) /\ Still(q),
           Unmade(r)' /\ Asked(r)' /\ Awaited(r)', DecidedOnce', OneRequestEach'
    PROVE  RequestInv'
<1>1. ASSUME NEW q \in Requests, q # r PROVE Unmade(q)' /\ Asked(q)' /\ Awaited(q)'
  <2>1. Unmade(q) /\ Asked(q) /\ Awaited(q)
    BY DEF RequestInv
  <2>. QED  BY <1>1, <2>1, UntouchedKept
<1>2. \A q \in Requests : Unmade(q)' /\ Asked(q)' /\ Awaited(q)'
  BY <1>1
<1>. QED  BY <1>2 DEF RequestInv

\* Nothing is decided or told.
LEMMA NothingSaid ==
    ASSUME RequestInv, UNCHANGED <<decision, told>>
    PROVE  DecidedOnce' /\ Promise
BY DEF RequestInv, DecidedOnce, Promise

LEMMA ParseSubscriptionDoneStep ==
    ASSUME RequestInv, TypeOK', NEW r \in Requests, NEW m, ParseSubscriptionDone(r, m)
    PROVE  RequestInv' /\ Promise
<1>0. TypeOK /\ Asked(r) /\ Awaited(r) /\ Unmade(r)
  BY DEF RequestInv
<1>1. /\ UNCHANGED <<type, byReqid, updateId, requests, updateRequests, wire, job, decision, told>>
      /\ Parsing("out", r, m) /\ Taken("out", r, m) /\ type[r] = "SUBSCRIBE"
      /\ state' = [state EXCEPT !["out"][r] = "DONE"]
  BY DEF ParseSubscriptionDone, ValidAnswer, Taken, tableVars, wireVars, TypedOks
<1>2. /\ state'["out"][r] = "DONE" /\ state'["in"] = state["in"]
      /\ \A q \in Requests : q # r => state'["out"][q] = state["out"][q]
  <2>1. "DONE" \in States
    BY DEF States
  <2>. QED  BY <1>0, <1>1, <2>1, OutSet
<1>3. \A q \in Requests : Still(q)
  BY <1>0, <1>1, Sorts, HeadTaken
<1>4. \A q \in Requests : q # r => Untouched(q)
  BY <1>1, <1>2 DEF Untouched, Sides
<1>5. type'[r] # None
  BY <1>1, Sorts DEF AllTypes
<1>6. Unmade(r)' /\ Awaited(r)'
  BY <1>2, <1>5 DEF Unmade, Awaited
<1>7. Asked(r)'
  <2>1. /\ UpdatesSent(r) = {} => UpdatesSent(r)' = {}
        /\ AtMostOne(UpdatesSent(r)) => AtMostOne(UpdatesSent(r)')
        /\ \A x \in UpdatesSent(r)' : \E y \in UpdatesSent(r) : y[3] = x[3]
    BY <1>3, StillKeeps
  <2>2. \A x \in UpdatesSent(r)' : updateId'[r] # None /\ x[3].id = updateId'[r] /\ decision'[updateId'[r]] = <<>>
    BY <1>0, <1>1, <2>1 DEF Asked
  <2>. QED  BY <1>0, <1>1, <1>2, <2>1, <2>2 DEF Asked
<1>8. DecidedOnce' /\ Promise /\ OneRequestEach'
  BY <1>1, NothingSaid DEF RequestInv, OneRequestEach
<1>. QED  BY <1>3, <1>4, <1>6, <1>7, <1>8, OneTouched

\* The responder is done with the request.
LEMMA InDone ==
    ASSUME NEW r \in Requests, Asked(r), Awaited(r), Still(r),
           state'["in"][r] = "DONE", state'["out"][r] = state["out"][r],
           UNCHANGED <<updateId, updateRequests, decision, told>>
    PROVE  Asked(r)' /\ Awaited(r)'
<1>1. /\ AnswersSent(r) = {} => AnswersSent(r)' = {}
      /\ AtMostOne(AnswersSent(r)) => AtMostOne(AnswersSent(r)')
      /\ \A x \in AnswersSent(r)' : \E y \in AnswersSent(r) : y[3] = x[3]
      /\ UpdatesSent(r) = {} => UpdatesSent(r)' = {}
      /\ AtMostOne(UpdatesSent(r)) => AtMostOne(UpdatesSent(r)')
      /\ \A x \in UpdatesSent(r)' : \E y \in UpdatesSent(r) : y[3] = x[3]
  BY StillKeeps
<1>2. \A x \in UpdatesSent(r)' : updateId'[r] # None /\ x[3].id = updateId'[r] /\ decision'[updateId'[r]] = <<>>
  BY <1>1 DEF Asked
<1>3. Asked(r)'
  BY <1>1, <1>2 DEF Asked
<1>4. (Says(r, r) => Says(r, r)') /\ (Says(r, updateId[r]) => Says(r, updateId[r])')
  BY <1>1 DEF Says
<1>5. Awaited(r)'
  <2>1. state'["out"][r] = "SENT" => told'[r] = <<>> /\ AtMostOne(AnswersSent(r)') /\ Says(r, r)'
    BY <1>1, <1>4 DEF Awaited
  <2>2. state'["out"][r] = "OK" => AnswersSent(r)' = {}
    BY <1>1 DEF Awaited
  <2>3. state'["out"][r] = "UPDATE_SENT" =>
          /\ updateId'[r] # None /\ told'[updateId'[r]] = <<>>
          /\ AtMostOne(AnswersSent(r)') /\ Says(r, updateId[r])'
    BY <1>1, <1>4 DEF Awaited
  <2>. QED  BY <2>1, <2>2, <2>3 DEF Awaited
<1>. QED  BY <1>3, <1>5

LEMMA ParsePublishDoneStep ==
    ASSUME RequestInv, TypeOK', NEW r \in Requests, NEW m, ParsePublishDone(r, m)
    PROVE  RequestInv' /\ Promise
<1>0. TypeOK /\ Asked(r) /\ Awaited(r) /\ Unmade(r)
  BY DEF RequestInv
<1>1. /\ UNCHANGED <<type, byReqid, updateId, requests, updateRequests, wire, job, decision, told>>
      /\ Parsing("in", r, m) /\ Taken("in", r, m)
      /\ state' = [state EXCEPT !["in"][r] = "DONE"]
  BY DEF ParsePublishDone, Taken, tableVars, wireVars
<1>2. /\ state'["in"][r] = "DONE" /\ state'["out"] = state["out"]
      /\ \A q \in Requests : q # r => state'["in"][q] = state["in"][q]
  <2>1. "DONE" \in States
    BY DEF States
  <2>. QED  BY <1>0, <1>1, <2>1, InSet
<1>3. \A q \in Requests : Still(q)
  BY <1>0, <1>1, Sorts, HeadTaken
<1>4. \A q \in Requests : q # r => Untouched(q)
  BY <1>1, <1>2 DEF Untouched, Sides
<1>5. type'[r] # None
  BY <1>0, <1>1, HeadSent, Made
<1>6. Unmade(r)'
  BY <1>5 DEF Unmade
<1>7. Asked(r)' /\ Awaited(r)'
  BY <1>0, <1>1, <1>2, <1>3, InDone
<1>8. DecidedOnce' /\ Promise /\ OneRequestEach'
  BY <1>1, NothingSaid DEF RequestInv, OneRequestEach
<1>. QED  BY <1>3, <1>4, <1>6, <1>7, <1>8, OneTouched

LEMMA RequestStep ==
    ASSUME RequestInv, TypeOK', NEW t \in Callers, NEW r \in Requests, NEW ty \in AllTypes, Request(t, r, ty)
    PROVE  RequestInv' /\ Promise
<1>0. TypeOK /\ Asked(r) /\ Unmade(r) /\ DecidedOnce
  BY DEF RequestInv
<1> DEFINE j == Job(r, Msg(ty, r), FALSE, {})
<1>1. /\ type[r] = None /\ type' = [type EXCEPT ![r] = ty] /\ requests' = requests \cup {r}
      /\ state' = [state EXCEPT !["out"][r] = "SENT"]
      /\ job' = [job EXCEPT ![t] = j]
      /\ byReqid' = [byReqid EXCEPT !["out"] = @ \cup {r}]
      /\ UNCHANGED <<updateId, updateRequests, wire, buffer, decision, told>>
  BY DEF Request, wireVars, loopVars, historyVars
<1>2. /\ state'["out"][r] = "SENT" /\ state'["in"] = state["in"]
      /\ \A q \in Requests : q # r => state'["out"][q] = state["out"][q]
  <2>1. "SENT" \in States
    BY DEF States
  <2>. QED  BY <1>0, <1>1, <2>1, OutSet
<1>3. j.req = r /\ j.msg.kind = ty /\ t \in Threads
  BY Sorts DEF Job, Msg
<1>4. ty \notin UpdateKinds
  BY DEF AllTypes, UpdateKinds
<1> HIDE DEF j
<1>5. job'[t] = j /\ \A u \in Threads : u # t => job'[u] = job[u]
  BY <1>0, <1>1, <1>3, JobsKept
<1>6. \A q \in Requests : Still(q)
  <2>1. UNCHANGED <<wire, buffer>>
    BY <1>1
  <2>. QED  BY <1>0, <1>1, <1>3, <1>4, <2>1, StillJob
<1>7. type'[r] = ty /\ \A q \in Requests : q # r => type'[q] = type[q]
  BY <1>0, <1>1 DEF TypeOK
<1>8. byReqid'["in"] = byReqid["in"]
  BY <1>0, <1>1 DEF TypeOK, Sides
<1>9. ASSUME NEW q \in Requests, q # r PROVE Untouched(q)
  <2>1. \A u \in Callers : job'[u] # None /\ job'[u].req = q => job[u] # None /\ job[u].req = q
    BY <1>3, <1>5, <1>9, Sorts
  <2>. QED  BY <1>1, <1>2, <1>7, <1>8, <1>9, <2>1 DEF Untouched, Sides
<1>10. Unmade(r)'
  <2>1. type'[r] # None
    BY <1>7, Sorts
  <2>. QED  BY <2>1 DEF Unmade
<1>11. /\ state["in"][r] = "NEW" /\ state["out"][r] = "NEW" /\ AnswersSent(r) = {}
       /\ UpdatesSent(r) = {} /\ decision[r] = <<>> /\ told[r] = <<>>
       /\ \A p \in updateRequests : p[2] # r
  <2>1. state["in"][r] = "NEW" /\ state["out"][r] = "NEW" /\ AnswersSent(r) = {}
    BY <1>0, <1>1 DEF Unmade
  <2>2. UpdatesSent(r) = {} /\ decision[r] = <<>> /\ \A p \in updateRequests : p[2] # r
    BY <1>0, <2>1 DEF Asked
  <2>3. told[r] = <<>>
    BY <1>0, <2>2, Sorts DEF DecidedOnce
  <2>. QED  BY <2>1, <2>2, <2>3
<1>12. AnswersSent(r)' = {} /\ UpdatesSent(r)' = {}
  BY <1>6, <1>11, StillKeeps
<1>13. Asked(r)'
  BY <1>1, <1>2, <1>11, <1>12 DEF Asked, AtMostOne
<1>14. Awaited(r)'
  BY <1>1, <1>2, <1>11, <1>12 DEF Awaited, AtMostOne, Says
<1>15. DecidedOnce' /\ Promise
  BY <1>1, NothingSaid
<1>16. OneRequestEach'
  BY <1>1 DEF RequestInv, OneRequestEach
<1>. QED  BY <1>6, <1>9, <1>10, <1>13, <1>14, <1>15, <1>16, OneTouched

LEMMA UpdateRequestStep ==
    ASSUME RequestInv, TypeOK', NEW t \in Callers, NEW r \in Requests, NEW u \in Updates, UpdateRequest(t, u, r)
    PROVE  RequestInv' /\ Promise
<1>0. TypeOK /\ Asked(r) /\ Awaited(r) /\ DecidedOnce /\ OneRequestEach
  BY DEF RequestInv
<1> DEFINE j == Job(r, Msg("REQUEST_UPDATE", u), FALSE, {})
<1>1. /\ u \notin requests /\ decision[u] = <<>> /\ requests' = requests \cup {u}
      /\ UNCHANGED <<type, byReqid, updateRequests, wire, buffer, decision, told>>
  BY DEF UpdateRequest, wireVars, loopVars, historyVars
<1>2. CASE UNCHANGED <<updateId, state, job>>
  <2>1. \A q \in Requests : Untouched(q)
    BY <1>1, <1>2 DEF Untouched
  <2>2. \A q \in Requests : Still(q)
    BY <1>1, <1>2, NothingMoves
  <2>. QED  BY <1>1, <1>2, <2>1, <2>2, QuietStep
<1>3. CASE /\ CanUpdate(r)
           /\ updateId' = [updateId EXCEPT ![r] = u]
           /\ state' = [state EXCEPT !["out"][r] = "UPDATE_SENT"]
           /\ job' = [job EXCEPT ![t] = j]
  <2>1. state["out"][r] = "OK"
    BY <1>3 DEF CanUpdate
  <2>2. /\ state'["out"][r] = "UPDATE_SENT" /\ state'["in"] = state["in"]
        /\ \A q \in Requests : q # r => state'["out"][q] = state["out"][q]
    <3>1. "UPDATE_SENT" \in States
      BY DEF States
    <3>. QED  BY <1>0, <1>3, <3>1, OutSet
  <2>3. j.req = r /\ j.msg.kind = "REQUEST_UPDATE" /\ j.msg.id = u /\ t \in Threads
    BY Sorts DEF Job, Msg
  <2> HIDE DEF j
  <2>4. job'[t] = j /\ \A x \in Threads : x # t => job'[x] = job[x]
    BY <1>0, <1>3, <2>3, JobsKept
  <2>5. ASSUME NEW q \in Requests, q # r PROVE Still(q)
    <3>1. UNCHANGED <<wire, buffer>>
      BY <1>1
    <3>. QED  BY <1>0, <1>3, <2>3, <2>5, <3>1, StillJob
  <2>6. updateId'[r] = u /\ \A q \in Requests : q # r => updateId'[q] = updateId[q]
    BY <1>0, <1>3 DEF TypeOK
  <2>7. ASSUME NEW q \in Requests, q # r PROVE Untouched(q)
    <3>1. \A x \in Callers : job'[x] # None /\ job'[x].req = q => job[x] # None /\ job[x].req = q
      BY <2>3, <2>4, <2>7, Sorts
    <3>. QED  BY <1>1, <2>2, <2>6, <2>7, <3>1 DEF Untouched, Sides
  <2>8. u # None /\ told[u] = <<>>
    BY <1>0, <1>1, Sorts DEF DecidedOnce
  <2>9. type'[r] # None /\ Unmade(r)'
    <3>1. type[r] # None
      BY <2>1, Made
    <3>. QED  BY <1>1, <3>1 DEF Unmade
  <2>10. AnswersSent(r) = {} /\ state["in"][r] \notin {"NEW", "SENT"}
    BY <1>0, <2>1 DEF Awaited
  <2>11. UpdatesSent(r) = {} /\ state["in"][r] # "UPDATE_SENT"
    BY <1>0, <2>1 DEF Asked
  <2>12. AnswersSent(r)' = {}
    <3>1. NoNewJob(job', job, Answerers, r, AnswerKinds)
      BY <2>4, Sorts DEF NoNewJob
    <3>2. Flow("out", r)' = Flow("out", r)
      BY <1>1 DEF Flow
    <3>3. AnswersSent(r)' = OfKinds(AnswerKinds, Way(job', Answerers, r, Flow("out", r)))
      BY <3>2 DEF AnswersSent
    <3>. QED  BY <2>10, <3>1, <3>3, SameFlow DEF AnswersSent
  <2>13. \A x \in UpdatesSent(r)' : x = <<"job", t, j.msg>>
    <3>1. Flow("in", r)' = Flow("in", r)
      BY <1>1 DEF Flow
    <3>2. UpdatesSent(r)' = OfKinds(UpdateKinds, Way(job', Callers, r, Flow("in", r)))
      BY <3>1 DEF UpdatesSent
    <3>3. \A x \in Callers : x # t => job'[x] = job[x]
      BY <2>4, Sorts
    <3>. QED  BY <2>4, <2>11, <3>2, <3>3, NewJob DEF UpdatesSent
  <2>14. Awaited(r)'
    BY <1>1, <2>2, <2>6, <2>8, <2>10, <2>12 DEF Awaited, AtMostOne, Says
  <2>15. \A x \in UpdatesSent(r)' :
           updateId'[r] # None /\ x[3].id = updateId'[r] /\ decision'[updateId'[r]] = <<>>
    BY <1>1, <2>3, <2>6, <2>8, <2>13
  <2>16. \A p \in updateRequests' : p[2] = r => state'["in"][r] = "DONE"
    BY <1>0, <1>1, <2>2, <2>11 DEF Asked
  <2>17. Asked(r)'
    <3>1. AtMostOne(UpdatesSent(r)')
      BY <2>13 DEF AtMostOne
    <3>. QED  BY <2>2, <2>10, <2>11, <2>15, <2>16, <3>1 DEF Asked
  <2>18. DecidedOnce' /\ Promise
    BY <1>1, NothingSaid
  <2>19. OneRequestEach'
    BY <1>0, <1>1, <2>6 DEF OneRequestEach
  <2>. QED  BY <2>5, <2>7, <2>9, <2>14, <2>17, <2>18, <2>19, OneTouched
<1>. QED  BY <1>2, <1>3 DEF UpdateRequest

LEMMA RequestGoawayStep ==
    ASSUME RequestInv, TypeOK', NEW t \in Answerers, NEW r \in Requests, RequestGoaway(t, r)
    PROVE  RequestInv' /\ Promise
<1>0. TypeOK /\ Asked(r) /\ Awaited(r) /\ Unmade(r)
  BY DEF RequestInv
<1> DEFINE j == Job(r, Msg("GOAWAY", r), TRUE, Tables)
<1>1. /\ UNCHANGED <<type, byReqid, updateId, requests, updateRequests, wire, buffer, decision, told>>
      /\ job' = [job EXCEPT ![t] = j] /\ r \in byReqid["in"]
      /\ state' = [state EXCEPT !["in"][r] = "DONE"]
  BY DEF RequestGoaway, tableVars, wireVars, loopVars, historyVars
<1>2. /\ state'["in"][r] = "DONE" /\ state'["out"] = state["out"]
      /\ \A q \in Requests : q # r => state'["in"][q] = state["in"][q]
  <2>1. "DONE" \in States
    BY DEF States
  <2>. QED  BY <1>0, <1>1, <2>1, InSet
<1>3. j.msg.kind = "GOAWAY" /\ t \in Threads
  BY Sorts DEF Job, Msg
<1>4. "GOAWAY" \notin AnswerKinds
  BY DEF AnswerKinds, TypedOks
<1> HIDE DEF j
<1>5. job'[t] = j /\ \A x \in Threads : x # t => job'[x] = job[x]
  BY <1>0, <1>1, <1>3, JobsKept
<1>6. \A q \in Requests : Still(q)
  <2>1. UNCHANGED <<wire, buffer>>
    BY <1>1
  <2>. QED  BY <1>0, <1>1, <1>3, <1>4, <2>1, StillJob
<1>7. \A x \in Callers : job'[x] = job[x]
  BY <1>5, Sorts
<1>8. \A q \in Requests : q # r => Untouched(q)
  BY <1>1, <1>2, <1>7 DEF Untouched, Sides
<1>9. type'[r] # None
  BY <1>1, Made
<1>10. Unmade(r)'
  BY <1>9 DEF Unmade
<1>11. Asked(r)' /\ Awaited(r)'
  BY <1>0, <1>1, <1>2, <1>6, InDone
<1>12. DecidedOnce' /\ Promise /\ OneRequestEach'
  BY <1>1, NothingSaid DEF RequestInv, OneRequestEach
<1>. QED  BY <1>6, <1>8, <1>10, <1>11, <1>12, OneTouched

LEMMA ParseHandledStep ==
    ASSUME RequestInv, TypeOK', NEW r \in Requests, NEW m, m.kind \in AllTypes, ParseHandled(r, m)
    PROVE  RequestInv' /\ Promise
<1>0. TypeOK /\ Asked(r) /\ Awaited(r) /\ Unmade(r)
  BY DEF RequestInv
<1>1. /\ UNCHANGED <<type, updateId, requests, updateRequests, wire, job, decision, told>>
      /\ Parsing("in", r, m) /\ Taken("in", r, m) /\ ValidAsked(r, m)
      /\ state' = [state EXCEPT !["in"][r] = "SENT"]
      /\ byReqid' = [byReqid EXCEPT !["in"] = @ \cup {r}]
  BY DEF ParseHandled, Taken, tableVars, wireVars
<1>2. /\ state'["in"][r] = "SENT" /\ state'["out"] = state["out"]
      /\ \A q \in Requests : q # r => state'["in"][q] = state["in"][q]
  <2>1. "SENT" \in States
    BY DEF States
  <2>. QED  BY <1>0, <1>1, <2>1, InSet
<1>3. \A q \in Requests : Still(q)
  BY <1>0, <1>1, Sorts, HeadTaken
<1>4. \A q \in Requests : q # r => (q \in byReqid'["in"] => q \in byReqid["in"])
  BY <1>0, <1>1 DEF TypeOK, Sides
<1>5. \A q \in Requests : q # r => Untouched(q)
  BY <1>1, <1>2, <1>4 DEF Untouched, Sides
<1>6. type'[r] # None
  BY <1>0, <1>1, HeadSent, Made
<1>7. Unmade(r)'
  BY <1>6 DEF Unmade
<1>8. state["in"][r] = "NEW"
  BY <1>1 DEF ValidAsked, AllTypes
<1>9. /\ AnswersSent(r) = {} => AnswersSent(r)' = {}
      /\ AtMostOne(AnswersSent(r)) => AtMostOne(AnswersSent(r)')
      /\ \A x \in AnswersSent(r)' : \E y \in AnswersSent(r) : y[3] = x[3]
      /\ UpdatesSent(r) = {} => UpdatesSent(r)' = {}
      /\ AtMostOne(UpdatesSent(r)) => AtMostOne(UpdatesSent(r)')
      /\ \A x \in UpdatesSent(r)' : \E y \in UpdatesSent(r) : y[3] = x[3]
  BY <1>3, StillKeeps
<1>10. Asked(r)'
  <2>1. \A x \in UpdatesSent(r)' : updateId'[r] # None /\ x[3].id = updateId'[r] /\ decision'[updateId'[r]] = <<>>
    BY <1>0, <1>1, <1>9 DEF Asked
  <2>2. \A p \in updateRequests : p[2] # r
    BY <1>0, <1>8 DEF Asked
  <2>3. decision[r] = <<>>
    BY <1>0, <1>8 DEF Asked
  <2>. QED  BY <1>0, <1>1, <1>2, <1>9, <2>1, <2>2, <2>3 DEF Asked
<1>11. Awaited(r)'
  <2>1. state["out"][r] \notin {"OK", "UPDATE_SENT"}
    BY <1>0, <1>8 DEF Awaited
  <2>2. Says(r, r) => Says(r, r)'
    BY <1>1, <1>9 DEF Says
  <2>. QED  BY <1>0, <1>1, <1>2, <1>9, <2>1, <2>2 DEF Awaited
<1>12. DecidedOnce' /\ Promise /\ OneRequestEach'
  BY <1>1, NothingSaid DEF RequestInv, OneRequestEach
<1>. QED  BY <1>3, <1>5, <1>7, <1>10, <1>11, <1>12, OneTouched

LEMMA ParseRequestUpdateStep ==
    ASSUME RequestInv, TypeOK', NEW r \in Requests, NEW m, ParseRequestUpdate(r, m)
    PROVE  RequestInv' /\ Promise
<1>0. TypeOK /\ Asked(r) /\ Awaited(r) /\ Unmade(r)
  BY DEF RequestInv
<1>1. /\ UNCHANGED <<type, byReqid, updateId, requests, wire, job, decision, told>>
      /\ Parsing("in", r, m) /\ Taken("in", r, m) /\ ValidAsked(r, m) /\ m.kind = "REQUEST_UPDATE"
      /\ state' = [state EXCEPT !["in"][r] = "UPDATE_SENT"]
      /\ \A p \in updateRequests' : p \in updateRequests \/ p = <<m.id, r>>
  BY DEF ParseRequestUpdate, Taken, wireVars
<1>2. /\ state'["in"][r] = "UPDATE_SENT" /\ state'["out"] = state["out"]
      /\ \A q \in Requests : q # r => state'["in"][q] = state["in"][q]
  <2>1. "UPDATE_SENT" \in States
    BY DEF States
  <2>. QED  BY <1>0, <1>1, <2>1, InSet
<1>3. /\ \A q \in Requests : Still(q)
      /\ Shrinks(UpdatesSent(r)', UpdatesSent(r) \ {<<"flow", 1, m>>})
  BY <1>0, <1>1, Sorts, HeadTaken
<1>4. \A q \in Requests : q # r => Untouched(q)
  BY <1>1, <1>2 DEF Untouched, Sides
<1>5. type'[r] # None
  BY <1>0, <1>1, HeadSent, Made
<1>6. Unmade(r)'
  BY <1>5 DEF Unmade
<1>7. /\ <<"flow", 1, m>> \in UpdatesSent(r)
      /\ m.id = updateId[r] /\ updateId[r] # None /\ decision[m.id] = <<>>
  BY <1>1, UpdateKnown
<1>8. state["in"][r] = "OK"
  BY <1>1 DEF ValidAsked, AllTypes
<1>9. UpdatesSent(r)' = {}
  <2>1. UpdatesSent(r) \ {<<"flow", 1, m>>} = {}
    BY <1>0, <1>7 DEF Asked, AtMostOne
  <2>. QED  BY <1>3, <2>1, ShrinksKeeps
<1>10. Asked(r)'
  <2>1. \A p \in updateRequests' : p[2] = r => p[1] = updateId[r]
    BY <1>0, <1>1, <1>7, <1>8 DEF Asked
  <2>2. state["out"][r] \notin {"NEW", "SENT", "OK"}
    BY <1>0, <1>7 DEF Asked
  <2>. QED  BY <1>1, <1>2, <1>7, <1>9, <2>1, <2>2 DEF Asked, AtMostOne
<1>11. Awaited(r)'
  <2>1. /\ AnswersSent(r) = {} => AnswersSent(r)' = {}
        /\ AtMostOne(AnswersSent(r)) => AtMostOne(AnswersSent(r)')
        /\ \A x \in AnswersSent(r)' : \E y \in AnswersSent(r) : y[3] = x[3]
    BY <1>3, StillKeeps
  <2>2. state["out"][r] \notin {"NEW", "SENT", "OK"}
    BY <1>0, <1>7 DEF Asked
  <2>3. Says(r, updateId[r]) => Says(r, updateId[r])'
    BY <1>1, <2>1 DEF Says
  <2>. QED  BY <1>0, <1>1, <1>2, <2>1, <2>2, <2>3 DEF Awaited
<1>12. DecidedOnce' /\ Promise /\ OneRequestEach'
  BY <1>1, NothingSaid DEF RequestInv, OneRequestEach
<1>. QED  BY <1>3, <1>4, <1>6, <1>10, <1>11, <1>12, OneTouched

-----------------------------------------------------------------------------
(* Steps that decide.                                                        *)

LEMMA DecidesOnce ==
    ASSUME RequestInv, NEW i \in Ids, NEW a \in {"OK", "ERROR"}, decision[i] = <<>>,
           decision' = [decision EXCEPT ![i] = Append(@, a)], told' = told
    PROVE  /\ DecidedOnce' /\ Promise
           /\ decision'[i] = <<a>> /\ \A k \in Ids : k # i => decision'[k] = decision[k]
<1>1. decision \in [Ids -> Histories] /\ told \in [Ids -> Histories]
      /\ \A k \in Ids : told[k] = <<>> \/ told[k] = decision[k]
  BY DEF RequestInv, DecidedOnce
<1>2. decision' = [decision EXCEPT ![i] = <<a>>] /\ <<a>> \in Histories
  <2>1. Append(decision[i], a) = <<a>>
    OBVIOUS
  <2>2. decision' = [decision EXCEPT ![i] = <<a>>]
    BY <2>1
  <2>3. <<a>> \in Histories
    BY DEF Histories
  <2>. QED  BY <2>2, <2>3
<1>3. decision' \in [Ids -> Histories] /\ decision'[i] = <<a>> /\ \A k \in Ids : k # i => decision'[k] = decision[k]
  BY <1>1, <1>2
<1>4. told[i] = <<>>
  BY <1>1
<1>5. DecidedOnce'
  <2>1. \A k \in Ids : told'[k] = <<>> \/ told'[k] = decision'[k]
    BY <1>1, <1>3, <1>4
  <2>. QED  BY <1>1, <1>3, <2>1 DEF DecidedOnce
<1>6. Contract!Decide(i)
  BY <1>2 DEF Contract!Decide, Contract!Answers
<1>7. Promise
  BY <1>6 DEF Promise, Contract!Next
<1>. QED  BY <1>3, <1>5, <1>7

\* The answer to a request is decided, and the message that says so is due.
LEMMA RequestDecided ==
    ASSUME RequestInv, TypeOK', NEW r \in Requests, NEW a \in {"OK", "ERROR"}, NEW st \in {"OK", "ERROR"},
           state["in"][r] \in {"NEW", "SENT"}, type[r] # None,
           state' = [state EXCEPT !["in"][r] = st],
           decision' = [decision EXCEPT ![r] = Append(@, a)],
           UNCHANGED <<type, updateId, requests, updateRequests, told>>,
           \A u \in Callers : job'[u] = job[u],
           \A q \in Requests : q # r => Still(q) /\ (q \in byReqid'["in"] => q \in byReqid["in"]),
           Shrinks(UpdatesSent(r)', UpdatesSent(r)),
           \E y : Verdict(y[3].kind) = a /\ \A x \in AnswersSent(r)' : x \in AnswersSent(r) \/ x = y
    PROVE  RequestInv' /\ Promise
<1>0. TypeOK /\ Asked(r) /\ Awaited(r)
  BY DEF RequestInv
<1>1. decision[r] = <<>> /\ \A p \in updateRequests : p[2] # r
  BY <1>0 DEF Asked
<1>2. /\ state'["in"][r] = st /\ state'["out"] = state["out"]
      /\ \A q \in Requests : q # r => state'["in"][q] = state["in"][q]
  <2>1. st \in States
    BY DEF States
  <2>. QED  BY <1>0, <2>1, InSet
<1>3. /\ DecidedOnce' /\ Promise
      /\ decision'[r] = <<a>> /\ \A k \in Ids : k # r => decision'[k] = decision[k]
  BY <1>1, Sorts, DecidesOnce
<1>4. \A q \in Requests : updateId[q] # None => updateId[q] \in Ids /\ updateId[q] # r
  BY <1>0, Sorts DEF TypeOK
<1>5. ASSUME NEW q \in Requests, q # r PROVE Untouched(q)
  <2>1. decision'[q] = decision[q] /\ (updateId[q] # None => decision'[updateId[q]] = decision[updateId[q]])
    BY <1>3, <1>4, <1>5, Sorts
  <2>. QED  BY <1>2, <1>5, <2>1 DEF Untouched, Sides
<1>6. Unmade(r)'
  BY DEF Unmade
<1>7. Asked(r)'
  <2>1. /\ UpdatesSent(r) = {} => UpdatesSent(r)' = {}
        /\ AtMostOne(UpdatesSent(r)) => AtMostOne(UpdatesSent(r)')
        /\ \A x \in UpdatesSent(r)' : \E y \in UpdatesSent(r) : y[3] = x[3]
    BY ShrinksKeeps
  <2>2. \A x \in UpdatesSent(r)' : updateId'[r] # None /\ x[3].id = updateId'[r] /\ decision'[updateId'[r]] = <<>>
    <3>1. \A y \in UpdatesSent(r) : updateId[r] # None /\ y[3].id = updateId[r] /\ decision[updateId[r]] = <<>>
      BY <1>0 DEF Asked
    <3>. QED  BY <1>3, <1>4, <2>1, <3>1
  <2>. QED  BY <1>0, <1>1, <1>2, <2>1, <2>2 DEF Asked
<1>8. Awaited(r)'
  <2>1. state["out"][r] \notin {"OK", "UPDATE_SENT"}
    BY <1>0 DEF Awaited
  <2>2. ASSUME state["out"][r] = "SENT"
        PROVE  told'[r] = <<>> /\ AtMostOne(AnswersSent(r)') /\ Says(r, r)'
    <3>1. AnswersSent(r) = {} /\ told[r] = <<>>
      BY <1>0, <1>1, <2>2 DEF Awaited, Says
    <3>2. PICK y : Verdict(y[3].kind) = a /\ \A x \in AnswersSent(r)' : x = y
      BY <3>1
    <3>. QED  BY <1>3, <3>1, <3>2 DEF AtMostOne, Says
  <2>. QED  BY <1>2, <2>1, <2>2 DEF Awaited
<1>9. OneRequestEach'
  BY DEF RequestInv, OneRequestEach
<1>. QED  BY <1>3, <1>5, <1>6, <1>7, <1>8, <1>9, OneTouched

\* The step gives one thread an answer to request r to write, and nothing else.
OnlyAnswers(r, msg) ==
    /\ \A u \in Callers : job'[u] = job[u]
    /\ \A q \in Requests : q # r => Still(q)
    /\ Shrinks(UpdatesSent(r)', UpdatesSent(r))
    /\ \E y : y[3] = msg /\ \A x \in AnswersSent(r)' : x \in AnswersSent(r) \/ x = y

\* A call of the responder leaves the job that sends its answer.
LEMMA AnswerDue ==
    ASSUME TypeOK, NEW t \in Answerers, NEW r \in Requests, NEW j \in Jobs, j.req = r,
           job' = [job EXCEPT ![t] = j], UNCHANGED <<wire, buffer>>
    PROVE  OnlyAnswers(r, j.msg)
<1>1. t \in Threads
  BY Sorts
<1>2. job'[t] = j /\ \A u \in Threads : u # t => job'[u] = job[u]
  BY <1>1, JobsKept
<1>3. \A u \in Callers : job'[u] = job[u]
  BY <1>2, Sorts
<1>4. \A q \in Requests : q # r => Still(q)
  BY <1>1, StillJob
<1>5. Flow("in", r)' = Flow("in", r) /\ Flow("out", r)' = Flow("out", r)
  BY DEF Flow
<1>6. Shrinks(UpdatesSent(r)', UpdatesSent(r))
  <2>1. NoNewJob(job', job, Callers, r, UpdateKinds)
    BY <1>3 DEF NoNewJob
  <2>2. UpdatesSent(r)' = OfKinds(UpdateKinds, Way(job', Callers, r, Flow("in", r)))
    BY <1>5 DEF UpdatesSent
  <2>3. UpdatesSent(r)' \subseteq UpdatesSent(r)
    BY <2>1, <2>2, SameFlow DEF UpdatesSent
  <2>. QED  BY <2>3, SubsetShrinks
<1>7. \A x \in AnswersSent(r)' : x \in AnswersSent(r) \/ x = <<"job", t, j.msg>>
  <2>1. AnswersSent(r)' = OfKinds(AnswerKinds, Way(job', Answerers, r, Flow("out", r)))
    BY <1>5 DEF AnswersSent
  <2>2. \A u \in Answerers : u # t => job'[u] = job[u]
    BY <1>2, Sorts
  <2> DEFINE f == Flow("out", r)
  <2> HIDE DEF f
  <2>3. \A x \in OfKinds(AnswerKinds, Way(job', Answerers, r, f)) :
          x \in OfKinds(AnswerKinds, Way(job, Answerers, r, f)) \/ x = <<"job", t, job'[t].msg>>
    BY <2>2, NewJob
  <2>. QED  BY <1>2, <2>1, <2>3 DEF AnswersSent, f
<1>8. \E y : y[3] = j.msg /\ \A x \in AnswersSent(r)' : x \in AnswersSent(r) \/ x = y
  <2> DEFINE y == <<"job", t, j.msg>>
  <2>1. y[3] = j.msg
    OBVIOUS
  <2> HIDE DEF y
  <2>2. \A x \in AnswersSent(r)' : x \in AnswersSent(r) \/ x = y
    BY <1>7 DEF y
  <2>. QED  BY <2>1, <2>2
<1>. QED  BY <1>3, <1>4, <1>6, <1>8 DEF OnlyAnswers

LEMMA AcceptStep ==
    ASSUME RequestInv, TypeOK', NEW t \in Answerers, NEW r \in Requests, NEW ty, Accept(t, r, ty)
    PROVE  RequestInv' /\ Promise
<1>0. TypeOK
  BY DEF RequestInv
<1> DEFINE j == Job(r, Msg(OkKind(ty), r), FALSE, {})
<1>1. /\ r \in byReqid["in"] /\ state["in"][r] = "SENT"
      /\ state' = [state EXCEPT !["in"][r] = "OK"]
      /\ decision' = [decision EXCEPT ![r] = Append(@, "OK")]
      /\ job' = [job EXCEPT ![t] = j]
      /\ UNCHANGED <<type, byReqid, updateId, requests, updateRequests, wire, buffer, told>>
  BY DEF Accept, Answerable, tableVars, wireVars, loopVars
<1>2. OkKind(ty) \in TypedOks \cup {"REQUEST_OK"}
  BY MessageTypes
<1>3. j \in Jobs /\ j.req = r /\ j.msg = Msg(OkKind(ty), r)
  <2>1. j \in Jobs
    <3>1. Msg(OkKind(ty), r) \in Messages
      BY <1>2, Sorts, MessageTypes
    <3>. QED  BY <3>1, JobTypes
  <2>2. j.req = r /\ j.msg = Msg(OkKind(ty), r)
    BY DEF Job
  <2>. QED  BY <2>1, <2>2
<1>4. Verdict(j.msg.kind) = "OK"
  <2>1. j.msg.kind = OkKind(ty)
    BY DEF Job, Msg
  <2>2. OkKind(ty) # "REQUEST_ERROR"
    BY <1>2 DEF TypedOks
  <2>. QED  BY <2>1, <2>2 DEF Verdict
<1>5. type[r] # None
  BY <1>1, Made
<1> HIDE DEF j
<1>6. /\ \A u \in Callers : job'[u] = job[u]
      /\ \A q \in Requests : q # r => Still(q)
      /\ Shrinks(UpdatesSent(r)', UpdatesSent(r))
      /\ \E y : y[3] = j.msg /\ \A x \in AnswersSent(r)' : x \in AnswersSent(r) \/ x = y
  <2>1. PICK k \in Jobs : k = j
    BY <1>3
  <2>2. k.req = r /\ job' = [job EXCEPT ![t] = k] /\ UNCHANGED <<wire, buffer>>
    BY <1>1, <1>3, <2>1
  <2>3. OnlyAnswers(r, k.msg)
    BY <1>0, <2>2, AnswerDue
  <2>. QED  BY <2>1, <2>3 DEF OnlyAnswers
<1>7. \E y : Verdict(y[3].kind) = "OK" /\ \A x \in AnswersSent(r)' : x \in AnswersSent(r) \/ x = y
  BY <1>4, <1>6
<1>. QED  BY <1>1, <1>5, <1>6, <1>7, RequestDecided

LEMMA RejectStep ==
    ASSUME RequestInv, TypeOK', NEW t \in Answerers, NEW r \in Requests, NEW ty, Reject(t, r, ty)
    PROVE  RequestInv' /\ Promise
<1>0. TypeOK
  BY DEF RequestInv
<1> DEFINE j == RejectJob(r, ty)
<1>1. /\ r \in byReqid["in"] /\ state["in"][r] = "SENT"
      /\ state' = [state EXCEPT !["in"][r] = "ERROR"]
      /\ decision' = [decision EXCEPT ![r] = Append(@, "ERROR")]
      /\ job' = [job EXCEPT ![t] = j]
      /\ UNCHANGED <<type, byReqid, updateId, requests, updateRequests, wire, buffer, told>>
  BY DEF Reject, Answerable, tableVars, wireVars, loopVars
<1>3. j \in Jobs /\ j.req = r /\ j.msg = Msg("REQUEST_ERROR", r)
  BY RejectJobTypes
<1>4. Verdict(j.msg.kind) = "ERROR"
  <2>1. j.msg.kind = "REQUEST_ERROR"
    BY <1>3 DEF Msg
  <2>. QED  BY <2>1 DEF Verdict
<1>5. type[r] # None
  BY <1>1, Made
<1> HIDE DEF j
<1>6. /\ \A u \in Callers : job'[u] = job[u]
      /\ \A q \in Requests : q # r => Still(q)
      /\ Shrinks(UpdatesSent(r)', UpdatesSent(r))
      /\ \E y : y[3] = j.msg /\ \A x \in AnswersSent(r)' : x \in AnswersSent(r) \/ x = y
  <2>1. PICK k \in Jobs : k = j
    BY <1>3
  <2>2. k.req = r /\ job' = [job EXCEPT ![t] = k] /\ UNCHANGED <<wire, buffer>>
    BY <1>1, <1>3, <2>1
  <2>3. OnlyAnswers(r, k.msg)
    BY <1>0, <2>2, AnswerDue
  <2>. QED  BY <2>1, <2>3 DEF OnlyAnswers
<1>7. \E y : Verdict(y[3].kind) = "ERROR" /\ \A x \in AnswersSent(r)' : x \in AnswersSent(r) \/ x = y
  BY <1>4, <1>6
<1>. QED  BY <1>1, <1>5, <1>6, <1>7, RequestDecided

\* The library rejects a request nobody handles: its message goes, another comes.
LEMMA RejectedHead ==
    ASSUME TypeOK, NEW r \in Requests, NEW m, NEW e \in Messages, Parsing("in", r, m), Taken("in", r, m),
           Send("in", r, e, TRUE) \/ UNCHANGED wireVars
    PROVE  /\ \A q \in Requests : q # r => Still(q)
           /\ Shrinks(UpdatesSent(r)', UpdatesSent(r))
           /\ \E y : y[3] = e /\ \A x \in AnswersSent(r)' : x \in AnswersSent(r) \/ x = y
<1>0. "in" \in Sides /\ "out" \in Sides /\ Peer("in") = "out" /\ job' = job
  BY DEF Sides, Peer, Taken
<1>1. /\ buffer'["in"][r] = Tail(buffer["in"][r])
      /\ \A x \in Sides, q \in Requests : x # "in" \/ q # r => buffer'[x][q] = buffer[x][q]
  BY <1>0, TakenBuffer
<1>2. /\ \A x \in Sides, q \in Requests : x # "out" \/ q # r => wire'[x][q] = wire[x][q]
      /\ wire'["out"][r] \in {wire["out"][r], Append(wire["out"][r], e)}
  <2>1. PICK s \in Sides, last \in BOOLEAN : s = "in" /\ last = TRUE
    BY <1>0
  <2>2. Send(s, r, e, last) \/ UNCHANGED wireVars
    BY <2>1
  <2>3. /\ \A x \in Sides, q \in Requests : x # Peer(s) \/ q # r => wire'[x][q] = wire[x][q]
        /\ wire'[Peer(s)][r] \in {wire[Peer(s)][r], Append(wire[Peer(s)][r], e)}
    BY <2>2, Written
  <2>4. Peer(s) = "out"
    BY <1>0, <2>1
  <2>. QED  BY <2>3, <2>4
<1>3. ASSUME NEW q \in Requests, q # r PROVE Still(q)
  <2>1. Flow("in", q)' = Flow("in", q) /\ Flow("out", q)' = Flow("out", q)
    BY <1>0, <1>1, <1>2, <1>3 DEF Flow
  <2>2. AnswersSent(q)' = AnswersSent(q) /\ UpdatesSent(q)' = UpdatesSent(q)
    BY <1>0, <2>1 DEF AnswersSent, UpdatesSent
  <2>. QED  BY <2>1, <2>2, SubsetShrinks DEF Still
<1>4. Shrinks(UpdatesSent(r)', UpdatesSent(r))
  <2>1. /\ wire["in"][r] \in Seq(Messages) /\ buffer["in"][r] \in Seq(Messages)
        /\ buffer["in"][r] # <<>>
    BY <1>0, ParsingTypes, FlowTypes
  <2>2. Flow("in", r)' = Tail(buffer["in"][r]) \o wire["in"][r]
    BY <1>0, <1>1, <1>2 DEF Flow
  <2>3. Skips(Flow("in", r)', Flow("in", r), 0, 1)
    BY <2>1, <2>2, TailOfJoined DEF Flow
  <2> DEFINE E1 == {x \in UpdatesSent(r) : 0 = 0 /\ 1 > 0 => x # <<"flow", 1, Flow("in", r)[1]>>}
  <2>4. Shrinks(UpdatesSent(r)', E1)
    BY <1>0, <2>3, MessagesGone DEF UpdatesSent
  <2>5. E1 \subseteq UpdatesSent(r)
    OBVIOUS
  <2> HIDE DEF E1
  <2>. QED  BY <2>4, <2>5, ShrinksTwice
<1>5. \E y : y[3] = e /\ \A x \in AnswersSent(r)' : x \in AnswersSent(r) \/ x = y
  <2> DEFINE f == Flow("out", r)
             y == <<"flow", Len(f) + 1, e>>
  <2>1. f \in Seq(Messages)
    BY <1>0, FlowTypes
  <2>2. Flow("out", r)' \in {f, Append(f, e)}
    BY <1>0, <1>1, <1>2, FlowAppended DEF Flow
  <2>3. AnswersSent(r)' = OfKinds(AnswerKinds, Way(job, Answerers, r, Flow("out", r)'))
    BY <1>0 DEF AnswersSent
  <2>4. \A x \in AnswersSent(r)' : x \in AnswersSent(r) \/ x = y
    <3>1. CASE Flow("out", r)' = f
      BY <2>3, <3>1 DEF AnswersSent
    <3>2. CASE Flow("out", r)' = Append(f, e)
      <4> HIDE DEF f
      <4>1. \A x \in OfKinds(AnswerKinds, Way(job, Answerers, r, Append(f, e))) :
              x \in OfKinds(AnswerKinds, Way(job, Answerers, r, f)) \/ x = <<"flow", Len(f) + 1, e>>
        BY <2>1, MessageWritten
      <4>. QED  BY <2>3, <3>2, <4>1 DEF AnswersSent, f
    <3>. QED  BY <2>2, <3>1, <3>2
  <2>5. y[3] = e
    OBVIOUS
  <2>. QED  BY <2>4, <2>5
<1>. QED  BY <1>3, <1>4, <1>5

LEMMA ParseUnhandledStep ==
    ASSUME RequestInv, TypeOK', NEW r \in Requests, NEW m, m.kind \in AllTypes, ParseUnhandled(r, m)
    PROVE  RequestInv' /\ Promise
<1>0. TypeOK
  BY DEF RequestInv
<1> DEFINE e == Msg("REQUEST_ERROR", r)
<1>1. /\ Parsing("in", r, m) /\ Taken("in", r, m)
      /\ state' = [state EXCEPT !["in"][r] = "ERROR"]
      /\ decision' = [decision EXCEPT ![r] = Append(@, "ERROR")]
      /\ byReqid' = byReqid \/ byReqid' = [byReqid EXCEPT !["in"] = @ \cup {r}]
      /\ Send("in", r, e, TRUE) \/ UNCHANGED wireVars
      /\ UNCHANGED <<type, job, updateId, requests, updateRequests, told>>
  BY DEF ParseUnhandled, Taken, tableVars
<1>2. state["in"][r] = "NEW"
  BY DEF ParseUnhandled, ValidAsked, AllTypes
<1>3. type[r] # None
  BY <1>0, <1>1, HeadSent, Made
<1>4. \A q \in Requests : q # r => (q \in byReqid'["in"] => q \in byReqid["in"])
  <2>1. byReqid' = [byReqid EXCEPT !["in"] = @ \cup {r}] => byReqid'["in"] = byReqid["in"] \cup {r}
    BY <1>0 DEF TypeOK, Sides
  <2>. QED  BY <1>1, <2>1
<1>5. e \in Messages /\ Verdict(e.kind) = "ERROR"
  <2>1. e \in Messages
    BY Sorts, MessageTypes
  <2>2. Verdict(e.kind) = "ERROR"
    BY DEF Msg, Verdict
  <2>. QED  BY <2>1, <2>2
<1> HIDE DEF e
<1>6. /\ \A q \in Requests : q # r => Still(q)
      /\ Shrinks(UpdatesSent(r)', UpdatesSent(r))
      /\ \E y : y[3] = e /\ \A x \in AnswersSent(r)' : x \in AnswersSent(r) \/ x = y
  <2>1. PICK k \in Messages : k = e
    BY <1>5
  <2>2. Send("in", r, k, TRUE) \/ UNCHANGED wireVars
    BY <1>1, <2>1
  <2>3. /\ \A q \in Requests : q # r => Still(q)
        /\ Shrinks(UpdatesSent(r)', UpdatesSent(r))
        /\ \E y : y[3] = k /\ \A x \in AnswersSent(r)' : x \in AnswersSent(r) \/ x = y
    BY <1>0, <1>1, <2>2, RejectedHead
  <2>. QED  BY <2>1, <2>3
<1>7. \E y : Verdict(y[3].kind) = "ERROR" /\ \A x \in AnswersSent(r)' : x \in AnswersSent(r) \/ x = y
  BY <1>5, <1>6
<1>8. \A u \in Callers : job'[u] = job[u]
  BY <1>1
<1>. QED  BY <1>1, <1>2, <1>3, <1>4, <1>6, <1>7, <1>8, RequestDecided

LEMMA AnswerUpdateStep ==
    ASSUME RequestInv, TypeOK', NEW t \in Answerers, NEW r \in Requests, NEW u \in Updates,
           NEW answer \in {"OK", "ERROR"}, AnswerUpdate(t, u, r, answer)
    PROVE  RequestInv' /\ Promise
<1>0. TypeOK /\ Asked(r) /\ Awaited(r) /\ Unmade(r) /\ DecidedOnce /\ OneRequestEach
  BY DEF RequestInv
<1> DEFINE j == Job(r, Msg(AnswerKind(answer), u), FALSE, {})
<1>1. /\ <<u, r>> \in updateRequests /\ updateRequests' = updateRequests \ {<<u, r>>}
      /\ UNCHANGED <<type, byReqid, updateId, requests, wire, buffer, told>>
  BY DEF AnswerUpdate, wireVars, loopVars
<1>2. CASE UNCHANGED <<state, decision, job>>
  <2>1. \A q \in Requests : Untouched(q)
    BY <1>1, <1>2 DEF Untouched
  <2>2. \A q \in Requests : Still(q)
    BY <1>1, <1>2, NothingMoves
  <2>. QED  BY <1>1, <1>2, <2>1, <2>2, QuietStep
<1>3. CASE /\ r \in byReqid["in"] /\ state["in"][r] = "UPDATE_SENT"
           /\ state' = [state EXCEPT !["in"][r] = "OK"]
           /\ decision' = [decision EXCEPT ![u] = Append(@, answer)]
           /\ job' = [job EXCEPT ![t] = j]
  <2>1. /\ state'["in"][r] = "OK" /\ state'["out"] = state["out"]
        /\ \A q \in Requests : q # r => state'["in"][q] = state["in"][q]
    <3>1. "OK" \in States
      BY DEF States
    <3>. QED  BY <1>0, <1>3, <3>1, InSet
  <2>2. u = updateId[r] /\ u # None /\ decision[u] = <<>> /\ UpdatesSent(r) = {}
    <3>1. u = updateId[r]
      BY <1>0, <1>1, <1>3 DEF Asked
    <3>. QED  BY <1>0, <1>3, <3>1 DEF Asked
  <2>3. state["out"][r] \notin {"NEW", "SENT", "OK"}
    BY <1>0, <1>3 DEF Asked
  <2>4. /\ DecidedOnce' /\ Promise
        /\ decision'[u] = <<answer>> /\ \A k \in Ids : k # u => decision'[k] = decision[k]
    BY <1>1, <1>3, <2>2, Sorts, DecidesOnce
  <2>5. \A p \in updateRequests' : p[2] # r
    <3>1. \A p \in updateRequests : p[2] = r => p[1] = u
      BY <1>0, <1>3, <2>2 DEF Asked
    <3>2. \A p \in updateRequests : p = <<p[1], p[2]>>
      BY <1>0 DEF TypeOK
    <3>. QED  BY <1>1, <3>1, <3>2
  <2>6. j \in Jobs /\ j.req = r /\ Verdict(j.msg.kind) = answer
    <3>1. j \in Jobs
      <4>1. Msg(AnswerKind(answer), u) \in Messages
        BY Sorts, MessageTypes DEF AnswerKind
      <4>. QED  BY <4>1, JobTypes
    <3>2. j.req = r /\ j.msg.kind = AnswerKind(answer)
      BY DEF Job, Msg
    <3>3. Verdict(AnswerKind(answer)) = answer
      BY DEF Verdict, AnswerKind
    <3>. QED  BY <3>1, <3>2, <3>3
  <2> HIDE DEF j
  <2>7. PICK k \in Jobs : k = j
    BY <2>6
  <2>8. k.req = r /\ job' = [job EXCEPT ![t] = k] /\ UNCHANGED <<wire, buffer>> /\ Verdict(k.msg.kind) = answer
    BY <1>1, <1>3, <2>6, <2>7
  <2>9. /\ \A c \in Callers : job'[c] = job[c]
        /\ \A q \in Requests : q # r => Still(q)
        /\ Shrinks(UpdatesSent(r)', UpdatesSent(r))
        /\ \E y : y[3] = k.msg /\ \A x \in AnswersSent(r)' : x \in AnswersSent(r) \/ x = y
    <3>1. OnlyAnswers(r, k.msg)
      BY <1>0, <2>8, AnswerDue
    <3>. QED  BY <3>1 DEF OnlyAnswers
  <2>10. ASSUME NEW q \in Requests, q # r PROVE Untouched(q)
    <3>1. decision'[q] = decision[q]
      BY <2>4, Sorts
    <3>2. updateId[q] # None => updateId[q] # u /\ updateId[q] \in Ids
      BY <1>0, <2>2, <2>10, Sorts DEF OneRequestEach, TypeOK
    <3>3. updateId[q] # None => decision'[updateId[q]] = decision[updateId[q]]
      BY <2>4, <3>2
    <3>. QED  BY <1>1, <2>1, <2>9, <2>10, <3>1, <3>3 DEF Untouched, Sides
  <2>11. type'[r] # None
    BY <1>1, <1>3, Made
  <2>12. Unmade(r)'
    BY <2>11 DEF Unmade
  <2>13. UpdatesSent(r)' = {}
    BY <2>2, <2>9, ShrinksKeeps
  <2>14. Asked(r)'
    BY <2>1, <2>3, <2>5, <2>13 DEF Asked, AtMostOne
  <2>15. Awaited(r)'
    <3>1. ASSUME state["out"][r] = "UPDATE_SENT"
          PROVE  told'[u] = <<>> /\ AtMostOne(AnswersSent(r)') /\ Says(r, u)'
      <4>1. AnswersSent(r) = {} /\ told[u] = <<>>
        BY <1>0, <2>2, <3>1 DEF Awaited, Says
      <4>2. PICK y : Verdict(y[3].kind) = answer /\ \A x \in AnswersSent(r)' : x = y
        BY <2>8, <2>9, <4>1
      <4>. QED  BY <1>1, <2>4, <4>1, <4>2 DEF AtMostOne, Says
    <3>2. state'["out"][r] = "UPDATE_SENT" =>
            told'[updateId'[r]] = <<>> /\ AtMostOne(AnswersSent(r)') /\ Says(r, updateId[r])'
      BY <1>1, <2>1, <2>2, <3>1 DEF Says
    <3>. QED  BY <1>1, <2>1, <2>2, <2>3, <3>2 DEF Awaited
  <2>16. OneRequestEach'
    BY <1>0, <1>1 DEF OneRequestEach
  <2>. QED  BY <2>4, <2>9, <2>10, <2>12, <2>14, <2>15, <2>16, OneTouched
<1>. QED  BY <1>2, <1>3 DEF AnswerUpdate

-----------------------------------------------------------------------------
(* Steps that tell.                                                          *)

LEMMA TellsOnce ==
    ASSUME RequestInv, NEW i \in Ids, NEW a \in {"OK", "ERROR"}, told[i] = <<>>, decision[i] = <<a>>,
           told' = [told EXCEPT ![i] = Append(@, a)] \/ told' = told, decision' = decision
    PROVE  DecidedOnce' /\ Promise /\ \A k \in Ids : k # i => told'[k] = told[k]
<1>1. decision \in [Ids -> Histories] /\ told \in [Ids -> Histories]
      /\ \A k \in Ids : told[k] = <<>> \/ told[k] = decision[k]
  BY DEF RequestInv, DecidedOnce
<1>2. CASE told' = told
  BY <1>1, <1>2 DEF DecidedOnce, Promise
<1>3. CASE told' = [told EXCEPT ![i] = Append(@, a)]
  <2>1. Append(told[i], a) = decision[i]
    OBVIOUS
  <2>2. told' = [told EXCEPT ![i] = decision[i]]
    BY <1>3, <2>1
  <2>3. Contract!Tell(i)
    BY <2>2 DEF Contract!Tell
  <2>4. told' \in [Ids -> Histories] /\ told'[i] = decision[i] /\ \A k \in Ids : k # i => told'[k] = told[k]
    BY <1>1, <2>2
  <2>5. DecidedOnce'
    BY <1>1, <2>4 DEF DecidedOnce
  <2>. QED  BY <2>3, <2>4, <2>5 DEF Promise, Contract!Next
<1>. QED  BY <1>2, <1>3

\* The answer that is taken is the one that is awaited.
LEMMA AnswerAwaited ==
    ASSUME RequestInv, NEW r \in Requests, NEW m, NEW i, Parsing("out", r, m), Taken("out", r, m),
           UNCHANGED <<wire, job>>, m.kind \in AnswerKinds,
           \/ state["out"][r] = "SENT" /\ i = r
           \/ state["out"][r] = "UPDATE_SENT" /\ i = updateId[r]
    PROVE  /\ i \in Ids /\ told[i] = <<>> /\ decision[i] = <<Verdict(m.kind)>>
           /\ \A q \in Requests : q # r => q # i /\ (updateId[q] # None => updateId[q] # i)
           /\ i = r => \A q \in Requests : updateId[q] # i
           /\ AnswersSent(r)' = {} /\ UpdatesSent(r) = {}
           /\ state["in"][r] \notin {"NEW", "SENT", "UPDATE_SENT"}
<1>0. TypeOK /\ Asked(r) /\ Awaited(r) /\ OneRequestEach /\ updateId \in [Requests -> Updates \cup {None}]
  BY DEF RequestInv, TypeOK
<1>1. AtMostOne(AnswersSent(r)) /\ Says(r, i) /\ told[i] = <<>>
  BY <1>0 DEF Awaited
<1>2. <<"flow", 1, m>> \in AnswersSent(r)
  BY <1>0, HeadSent
<1>3. decision[i] = <<Verdict(m.kind)>>
  BY <1>1, <1>2 DEF Says
<1>4. AnswersSent(r)' = {}
  <2>1. AnswersSent(r) \ {<<"flow", 1, m>>} = {}
    BY <1>1, <1>2 DEF AtMostOne
  <2>2. Shrinks(AnswersSent(r)', AnswersSent(r) \ {<<"flow", 1, m>>})
    BY <1>0, HeadTaken DEF Sides
  <2>. QED  BY <2>1, <2>2, ShrinksKeeps
<1>5. decision[i] # <<>>
  BY <1>3
<1>6. CASE state["out"][r] = "SENT" /\ i = r
  <2>1. i \in Ids /\ \A q \in Requests : updateId[q] # i
    BY <1>0, <1>6, RequestsAssumption DEF Ids
  <2>2. UpdatesSent(r) = {} /\ state["in"][r] \notin {"NEW", "SENT", "UPDATE_SENT"}
    BY <1>0, <1>5, <1>6 DEF Asked
  <2>. QED  BY <1>1, <1>3, <1>4, <1>6, <2>1, <2>2
<1>7. CASE state["out"][r] = "UPDATE_SENT" /\ i = updateId[r]
  <2>1. i # None /\ state["in"][r] \notin {"NEW", "SENT"}
    BY <1>0, <1>7 DEF Awaited
  <2>2. i \in Updates
    BY <1>0, <1>7, <2>1
  <2>3. i \in Ids /\ i \notin Requests
    BY <2>2, RequestsAssumption DEF Ids
  <2>4. \A q \in Requests : q # r /\ updateId[q] # None => updateId[q] # i
    BY <1>0, <1>7, <2>1 DEF OneRequestEach
  <2>5. UpdatesSent(r) = {} /\ state["in"][r] # "UPDATE_SENT"
    BY <1>0, <1>5, <1>7 DEF Asked
  <2>. QED  BY <1>1, <1>3, <1>4, <2>1, <2>3, <2>4, <2>5
<1>. QED  BY <1>6, <1>7

\* The answer about i, that of r or of an update of r, is taken.
LEMMA AnswerTaken ==
    ASSUME RequestInv, TypeOK', NEW r \in Requests, NEW m, NEW i, NEW st \in {"OK", "ERROR"},
           Parsing("out", r, m), Taken("out", r, m), m.kind \in AnswerKinds,
           \/ state["out"][r] = "SENT" /\ i = r /\ updateId' = updateId
           \/ state["out"][r] = "UPDATE_SENT" /\ i = updateId[r] /\ updateId' = [updateId EXCEPT ![r] = None],
           state' = [state EXCEPT !["out"][r] = st],
           told' = [told EXCEPT ![i] = Append(@, Verdict(m.kind))] \/ told' = told,
           \A k \in requests : k # i => k \in requests',
           UNCHANGED <<byReqid, updateRequests, wire, decision>>
    PROVE  RequestInv' /\ Promise
<1>0. TypeOK /\ Asked(r) /\ OneRequestEach /\ updateId \in [Requests -> Updates \cup {None}]
  BY DEF RequestInv, TypeOK
<1>1. UNCHANGED <<type, job>>
  BY DEF Taken
<1>2. /\ i \in Ids /\ told[i] = <<>> /\ decision[i] = <<Verdict(m.kind)>>
      /\ \A q \in Requests : q # r => q # i /\ (updateId[q] # None => updateId[q] # i)
      /\ i = r => \A q \in Requests : updateId[q] # i
      /\ AnswersSent(r)' = {} /\ UpdatesSent(r) = {}
      /\ state["in"][r] \notin {"NEW", "SENT", "UPDATE_SENT"}
  BY <1>1, AnswerAwaited
<1>3. /\ state'["out"][r] = st /\ state'["in"] = state["in"]
      /\ \A q \in Requests : q # r => state'["out"][q] = state["out"][q]
  <2>1. st \in States
    BY DEF States
  <2>. QED  BY <1>0, <2>1, OutSet
<1>4. DecidedOnce' /\ Promise /\ \A k \in Ids : k # i => told'[k] = told[k]
  <2>1. PICK a \in {"OK", "ERROR"} : a = Verdict(m.kind)
    BY DEF Verdict
  <2>. QED  BY <1>2, <2>1, TellsOnce
<1>5. \A q \in Requests : Still(q)
  BY <1>0, <1>1, HeadTaken DEF Sides
<1>6. \A q \in Requests : q # r => updateId'[q] = updateId[q]
  BY <1>0
<1>7. ASSUME NEW q \in Requests, q # r PROVE Untouched(q)
  <2>1. told'[q] = told[q] /\ (updateId[q] # None => told'[updateId[q]] = told[updateId[q]])
    BY <1>0, <1>2, <1>4, <1>7, Sorts
  <2>. QED  BY <1>1, <1>3, <1>6, <1>7, <2>1 DEF Untouched, Sides
<1>8. type'[r] # None
  BY <1>1, Made
<1>9. Unmade(r)'
  BY <1>8 DEF Unmade
<1>10. UpdatesSent(r)' = {}
  BY <1>2, <1>5, StillKeeps
<1>11. Asked(r)'
  BY <1>0, <1>2, <1>3, <1>10 DEF Asked, AtMostOne
<1>12. Awaited(r)'
  BY <1>2, <1>3 DEF Awaited
<1>13. OneRequestEach'
  <2>1. \A q \in Requests : updateId'[q] # None => updateId'[q] = updateId[q] /\ updateId[q] # i
    BY <1>0, <1>2, <1>6
  <2>. QED  BY <1>0, <2>1 DEF OneRequestEach
<1>. QED  BY <1>4, <1>5, <1>7, <1>9, <1>11, <1>12, <1>13, OneTouched

LEMMA ParseAnswerStep ==
    ASSUME RequestInv, TypeOK', NEW r \in Requests, NEW m, m.kind \in {"REQUEST_OK", "REQUEST_ERROR"}, ParseAnswer(r, m)
    PROVE  RequestInv' /\ Promise
<1>1. state["out"][r] \in {"SENT", "UPDATE_SENT"}
  BY DEF ParseAnswer, ValidAnswer, TypedOks
<1>2. PICK i : i = AnsweredId(r)
  OBVIOUS
<1>3. updateId \in [Requests -> Updates \cup {None}]
  BY DEF RequestInv, TypeOK
<1>4. \/ state["out"][r] = "SENT" /\ i = r /\ updateId' = updateId
      \/ state["out"][r] = "UPDATE_SENT" /\ i = updateId[r] /\ updateId' = [updateId EXCEPT ![r] = None]
  <2>1. updateId[r] # r
    BY <1>3, RequestsAssumption DEF Ids
  <2>2. updateId' = IF i = r THEN updateId ELSE [updateId EXCEPT ![r] = None]
    BY <1>2 DEF ParseAnswer
  <2>. QED  BY <1>1, <1>2, <2>1, <2>2 DEF AnsweredId
<1>5. PICK st \in {"OK", "ERROR"} : state' = [state EXCEPT !["out"][r] = st]
  BY DEF ParseAnswer
<1>6. told' = [told EXCEPT ![i] = Append(@, Verdict(m.kind))] \/ told' = told
  BY <1>2 DEF ParseAnswer, Verdict
<1>7. m.kind \in AnswerKinds
  BY DEF AnswerKinds
<1>8. /\ Parsing("out", r, m) /\ Taken("out", r, m) /\ requests' = requests \ {i}
      /\ UNCHANGED <<byReqid, updateRequests, wire, decision>>
  BY <1>2 DEF ParseAnswer, wireVars
<1>. QED  BY <1>4, <1>5, <1>6, <1>7, <1>8, AnswerTaken

LEMMA ParseTypedOkStep ==
    ASSUME RequestInv, TypeOK', NEW r \in Requests, NEW m, m.kind \in TypedOks, ParseTypedOk(r, m)
    PROVE  RequestInv' /\ Promise
<1>1. state["out"][r] = "SENT"
  BY DEF ParseTypedOk, ValidAnswer, TypedOks, Notes
<1>2. state' = [state EXCEPT !["out"][r] = "OK"]
  BY DEF ParseTypedOk
<1>3. told' = [told EXCEPT ![r] = Append(@, Verdict(m.kind))]
  BY DEF ParseTypedOk, Verdict, TypedOks
<1>4. m.kind \in AnswerKinds
  BY DEF AnswerKinds
<1>5. /\ Parsing("out", r, m) /\ Taken("out", r, m)
      /\ UNCHANGED <<updateId, requests, byReqid, updateRequests, wire, decision>>
  BY DEF ParseTypedOk, wireVars, tableVars
<1>. QED  BY <1>1, <1>2, <1>3, <1>4, <1>5, AnswerTaken

-----------------------------------------------------------------------------
(* The theorems.                                                             *)

LEMMA InitStep == ASSUME Init PROVE RequestInv /\ Contract!Init
<1>1. /\ type = [r \in Requests |-> None] /\ updateId = [r \in Requests |-> None]
      /\ state = [s \in Sides |-> [r \in Requests |-> "NEW"]]
      /\ byReqid = [s \in Sides |-> {}] /\ updateRequests = {}
      /\ wire = [s \in Sides |-> [r \in Requests |-> <<>>]]
      /\ buffer = [s \in Sides |-> [r \in Requests |-> <<>>]]
      /\ job = [t \in Threads |-> None]
      /\ decision = [i \in Ids |-> <<>>] /\ told = [i \in Ids |-> <<>>]
  BY DEF Init
<1>2. TypeOK
  <2>1. state \in [Sides -> [Requests -> States]]
    BY <1>1 DEF States
  <2>2. wire \in [Sides -> [Requests -> Seq(Messages)]] /\ buffer \in [Sides -> [Requests -> Seq(Messages)]]
    BY <1>1
  <2>3. decision \in [Ids -> Seq({"OK", "ERROR"})] /\ told \in [Ids -> Seq({"OK", "ERROR"})]
    BY <1>1
  <2>4. fin \in [Sides -> [Requests -> {"no", "sent", "read"}]]
    BY DEF Init
  <2>5. streams \in [Sides -> SUBSET Requests] /\ byReqid \in [Sides -> SUBSET Requests]
    BY DEF Init
  <2>6. type \in [Requests -> Types \cup {None}] /\ updateId \in [Requests -> Updates \cup {None}]
    BY DEF Init
  <2>7. reading \in [Sides -> Readings \cup {None}] /\ job \in [Threads -> Jobs \cup {None}]
    BY DEF Init
  <2>8. notes \in [Requests -> Nat] /\ ended \in [Requests -> Nat]
    BY DEF Init
  <2>9. /\ requests \subseteq Ids /\ updateRequests \subseteq Updates \X Requests /\ left \subseteq Requests
        /\ violated \in BOOLEAN /\ controlEnded \in BOOLEAN
    BY DEF Init
  <2>. QED  BY <2>1, <2>2, <2>3, <2>4, <2>5, <2>6, <2>7, <2>8, <2>9 DEF TypeOK
<1>3. DecidedOnce
  BY <1>1 DEF DecidedOnce, Histories
<1>4. OneRequestEach
  BY <1>1 DEF OneRequestEach
<1>5. ASSUME NEW r \in Requests
      PROVE  /\ Flow("in", r) = <<>> /\ AnswersSent(r) = {} /\ UpdatesSent(r) = {}
             /\ \A s \in Sides : state[s][r] = "NEW"
  <2>1. Flow("in", r) = <<>> /\ Flow("out", r) = <<>>
    BY <1>1 DEF Flow, Sides
  <2>2. Callers \subseteq Threads /\ Answerers \subseteq Threads
    BY Sorts
  <2>3. AnswersSent(r) = {}
    <3>1. \A t \in Answerers : job[t] = None
      BY <1>1, <2>2
    <3>2. Len(Flow("out", r)) = 0
      BY <2>1
    <3>. QED  BY <3>1, <3>2, WayIs DEF AnswersSent
  <2>4. UpdatesSent(r) = {}
    <3>1. \A t \in Callers : job[t] = None
      BY <1>1, <2>2
    <3>2. Len(Flow("in", r)) = 0
      BY <2>1
    <3>. QED  BY <3>1, <3>2, WayIs DEF UpdatesSent
  <2>. QED  BY <1>1, <2>1, <2>3, <2>4
<1>6. ASSUME NEW r \in Requests PROVE Unmade(r) /\ Asked(r) /\ Awaited(r)
  <2>1. state["in"][r] = "NEW" /\ state["out"][r] = "NEW"
    BY <1>5 DEF Sides
  <2>2. decision[r] = <<>> /\ r \notin byReqid["in"] /\ updateId[r] = None
        /\ \A t \in Callers : job[t] = None
    BY <1>1, Sorts
  <2>3. Unmade(r)
    BY <1>5, <2>1, <2>2 DEF Unmade
  <2>4. Asked(r)
    BY <1>1, <1>5, <2>1, <2>2 DEF Asked, AtMostOne
  <2>. QED  BY <2>1, <2>3, <2>4 DEF Awaited
<1>7. Contract!Init
  BY <1>1 DEF Contract!Init
<1>. QED  BY <1>2, <1>3, <1>4, <1>6, <1>7 DEF RequestInv

LEMMA TypesKept == ASSUME RequestInv, Step PROVE TypeOK'
<1>0. TypeOK
  BY DEF RequestInv
<1>1. CASE \E t \in Callers, r \in Requests : Call(t, r)
  BY <1>1, CallTypes
<1>2. CASE \E t \in Answerers, r \in Requests : CallBack(t, r)
  BY <1>2, CallBackTypes
<1>3. CASE \E t \in Threads : SendJob(t) \/ DropJob(t)
  BY <1>0, <1>3, JobStepTypes
<1>4. CASE \E s \in Sides, r \in Requests :
             \/ \E n \in 0 .. Len(wire[s][r]), final \in BOOLEAN : Arrive(s, r, n, final)
             \/ \E m \in Heads(s, r) : Violation(s, r, m)
             \/ FinishReading(s, r)
  BY <1>0, <1>4, ArriveTypes, ReadTypes
<1>5. CASE \E r \in Requests : \E m \in Heads("out", r) : ParseOut(r, m)
  BY <1>0, <1>5, ParseOutTypes
<1>6. CASE \E r \in Requests : \E m \in Heads("in", r) : ParseIn(r, m)
  BY <1>6, ParseInTypes
<1>. QED  BY <1>1, <1>2, <1>3, <1>4, <1>5, <1>6 DEF Step

LEMMA StepKeeps == ASSUME RequestInv, Step PROVE RequestInv' /\ Promise
<1>0. TypeOK'
  BY TypesKept
<1>1. ASSUME NEW t \in Callers, NEW r \in Requests, Call(t, r) PROVE RequestInv' /\ Promise
  BY <1>0, <1>1, Sorts, RequestStep, CancelStep, UpdateRequestStep, PublishDoneStep DEF Call
<1>2. ASSUME NEW t \in Answerers, NEW r \in Requests, CallBack(t, r) PROVE RequestInv' /\ Promise
  BY <1>0, <1>2, Sorts, AcceptStep, RejectStep, AnswerUpdateStep, NotifyStep, PublishDoneStep, RequestGoawayStep
     DEF CallBack
<1>3. ASSUME NEW t \in Threads, SendJob(t) \/ DropJob(t) PROVE RequestInv' /\ Promise
  BY <1>0, <1>3, SendJobStep, DropJobStep
<1>4. ASSUME NEW s \in Sides, NEW r \in Requests,
             \/ \E n \in 0 .. Len(wire[s][r]), final \in BOOLEAN : Arrive(s, r, n, final)
             \/ \E m \in Heads(s, r) : Violation(s, r, m)
             \/ FinishReading(s, r)
      PROVE  RequestInv' /\ Promise
  BY <1>0, <1>4, ArriveStep, ViolationStep, FinishReadingStep
<1>5. ASSUME NEW r \in Requests, NEW m, ParseOut(r, m) PROVE RequestInv' /\ Promise
  BY <1>0, <1>5, ParseAnswerStep, ParseTypedOkStep, ParseNoticeStep, ParseSubscriptionDoneStep DEF ParseOut
<1>6. ASSUME NEW r \in Requests, NEW m, ParseIn(r, m) PROVE RequestInv' /\ Promise
  BY <1>0, <1>6, ParseHandledStep, ParseUnhandledStep, ParseRequestUpdateStep, ParsePublishDoneStep DEF ParseIn
<1>. QED  BY <1>1, <1>2, <1>3, <1>4, <1>5, <1>6 DEF Step

LEMMA Stutters == ASSUME RequestInv, UNCHANGED vars PROVE RequestInv' /\ Promise
<1>1. UNCHANGED <<type, state, byReqid, updateId, requests, updateRequests, wire, buffer, job, decision, told>>
  BY DEF vars, requestVars, tableVars, wireVars, loopVars, historyVars
<1>2. TypeOK'
  <2>1. TypeOK
    BY DEF RequestInv
  <2>. QED  BY <2>1 DEF TypeOK, vars, requestVars, tableVars, wireVars, loopVars, historyVars
<1>3. \A q \in Requests : Untouched(q)
  BY <1>1 DEF Untouched
<1>4. \A q \in Requests : Still(q)
  BY <1>1, NothingMoves
<1>. QED  BY <1>1, <1>2, <1>3, <1>4, QuietStep

\* The invariant holds, for every number of requests, updates and threads, and
\* every step is a step of the contract: the responder decides (Accept...,
\* Reject..., the library's own rejection), the requester is told, or neither.
THEOREM RequestInvariant == Spec => []RequestInv
<1>1. Init => RequestInv
  BY InitStep
<1>2. RequestInv /\ [Next]_vars => RequestInv'
  BY NextSteps, StepKeeps, Stutters
<1>. QED  BY <1>1, <1>2, PTL DEF Spec

\* The variables of a request keep their types: what both endpoints write down
\* of a request and its updates never leaves the states the code knows.
THEOREM RequestTypes == Spec => []TypeOK
<1>1. RequestInv => TypeOK
  BY DEF RequestInv
<1>. QED  BY <1>1, RequestInvariant, PTL

\* The requester is told of a decision at most once, and only what was decided,
\* for a request and for each of its updates: MoqRequests implements
\* MoqRequestContract, whichever calls and messages interleave.
THEOREM AnswersImplemented == Spec => AnswersMatch
<1>1. Init => Contract!Init
  BY InitStep
<1>2. RequestInv /\ [Next]_vars => [Contract!Next]_(Contract!contractVars)
  <2>1. RequestInv /\ [Next]_vars => Promise
    BY NextSteps, StepKeeps, Stutters
  <2>. QED  BY <2>1 DEF Promise, Contract!contractVars
<1>. QED  BY <1>1, <1>2, RequestInvariant, PTL DEF Spec, AnswersMatch, Contract!Spec

-----------------------------------------------------------------------------
(* A request that the responder has no callback for.                         *)

\* What the responder has no callback for and the library rejects.  It rejects
\* neither a PUBLISH, which it keeps, nor, on the stream of the request, a
\* TRACK_STATUS.
Unrejected == {"PUBLISH", "TRACK_STATUS"}
Rejected == Types \ (Handled \cup Unrejected)

Reads(s, r) == reading[s] # None /\ reading[s].req = r
Calls(t, r) == job[t] # None /\ job[t].req = r

\* The request is the message that a call has to send, that is on the wire or
\* that is being read, and the responder says nothing of it.
Outbound(r) ==
    LET m == Msg(type[r], r) IN
    /\ r \notin byReqid["in"] /\ \A t \in Answerers : ~Calls(t, r)
    /\ wire["out"][r] = <<>> /\ buffer["out"][r] = <<>> /\ ~Reads("out", r)
    /\ \A s \in Sides : fin[s][r] = "no"
    /\ \/ /\ \E t \in Callers : Calls(t, r) /\ job[t] = Job(r, m, FALSE, {}) /\ \A u \in Callers : u # t => ~Calls(u, r)
          /\ wire["in"][r] = <<>> /\ buffer["in"][r] = <<>>
       \/ /\ \A t \in Callers : ~Calls(t, r)
          /\ wire["in"][r] = <<m>> /\ buffer["in"][r] = <<>>
       \/ /\ \A t \in Callers : ~Calls(t, r)
          /\ wire["in"][r] = <<>> /\ buffer["in"][r] = <<m>> /\ Reads("in", r)

\* The rejection is on the wire or is being read, and nothing else will be written.
Returning(r) ==
    LET m == Msg("REQUEST_ERROR", r) IN
    /\ fin["out"][r] # "no" /\ \A t \in Callers : ~Calls(t, r)
    /\ \/ wire["out"][r] = <<m>> /\ buffer["out"][r] = <<>> /\ ~Reads("out", r)
       \/ wire["out"][r] = <<>> /\ buffer["out"][r] = <<m>> /\ Reads("out", r)

Waits(r) ==
    /\ state["out"][r] = "SENT" /\ r \in streams["out"] /\ r \in requests
    /\ Outbound(r) \/ Returning(r)

\* Nothing was sent or kept of a request that was not made.
Blank(r) ==
    /\ r \notin byReqid["in"] /\ \A t \in Threads : ~Calls(t, r)
    /\ told[r] = <<>>
    /\ \A s \in Sides : wire[s][r] = <<>> /\ buffer[s][r] = <<>> /\ ~Reads(s, r) /\ fin[s][r] = "no"

Waiting(r) == type[r] \in Rejected /\ r \notin left /\ told[r] # <<"ERROR">>

Rejection(r) ==
    /\ type[r] = None => Blank(r)
    /\ Waiting(r) => Waits(r) /\ told[r] = <<>>
RejectInv == \A r \in Requests : Rejection(r)

\* A step leaves what is kept of r and on its way as it was.
Kept(r) ==
    /\ type'[r] = type[r] /\ told'[r] = told[r] /\ state'["out"][r] = state["out"][r]
    /\ r \in streams["out"] => r \in streams'["out"]
    /\ r \in requests => r \in requests'
    /\ r \in byReqid'["in"] => r \in byReqid["in"]
    /\ \A s \in Sides : /\ wire'[s][r] = wire[s][r] /\ buffer'[s][r] = buffer[s][r] /\ fin'[s][r] = fin[s][r]
                        /\ Reads(s, r)' <=> Reads(s, r)
    /\ \A t \in Callers : Calls(t, r) \/ Calls(t, r)' => job'[t] = job[t]
    /\ \A t \in Answerers : Calls(t, r)' => Calls(t, r) \/ r \in byReqid["in"]
    /\ left \subseteq left'

LEMMA KeptKeeps ==
    ASSUME NEW r \in Requests, Kept(r)
    PROVE  /\ Blank(r) => Blank(r)'
           /\ Waits(r) => Waits(r)'
           /\ Rejection(r) => Rejection(r)'
<1>1. /\ type'[r] = type[r] /\ told'[r] = told[r] /\ state'["out"][r] = state["out"][r]
      /\ r \in streams["out"] => r \in streams'["out"]
      /\ r \in requests => r \in requests'
      /\ r \in byReqid'["in"] => r \in byReqid["in"]
      /\ \A s \in Sides : /\ wire'[s][r] = wire[s][r] /\ buffer'[s][r] = buffer[s][r] /\ fin'[s][r] = fin[s][r]
                          /\ Reads(s, r)' <=> Reads(s, r)
      /\ \A t \in Callers : Calls(t, r) \/ Calls(t, r)' => job'[t] = job[t]
      /\ \A t \in Answerers : Calls(t, r)' => Calls(t, r) \/ r \in byReqid["in"]
      /\ left \subseteq left'
  BY DEF Kept
<1>2. \A t \in Callers : Calls(t, r)' <=> Calls(t, r)
  BY <1>1 DEF Calls
<1>3. Blank(r) => Blank(r)'
  BY <1>1, <1>2 DEF Blank, Threads
<1>4. Outbound(r) => Outbound(r)'
  <2> SUFFICES ASSUME Outbound(r) PROVE Outbound(r)'
    OBVIOUS
  <2>1. /\ r \notin byReqid'["in"] /\ \A t \in Answerers : ~Calls(t, r)'
        /\ wire'["out"][r] = <<>> /\ buffer'["out"][r] = <<>> /\ ~Reads("out", r)'
        /\ \A s \in Sides : fin'[s][r] = "no"
    BY <1>1, Sorts DEF Outbound
  <2> DEFINE m == Msg(type[r], r)
             j == Job(r, m, FALSE, {})
  <2>2. CASE /\ \E t \in Callers : Calls(t, r) /\ job[t] = j /\ \A u \in Callers : u # t => ~Calls(u, r)
             /\ wire["in"][r] = <<>> /\ buffer["in"][r] = <<>>
    <3>1. PICK t \in Callers : Calls(t, r) /\ job[t] = j /\ \A u \in Callers : u # t => ~Calls(u, r)
      BY <2>2
    <3>3. Calls(t, r)' /\ job'[t] = j /\ \A u \in Callers : u # t => ~Calls(u, r)'
      BY <1>1, <1>2, <3>1
    <3>4. wire'["in"][r] = <<>> /\ buffer'["in"][r] = <<>>
      BY <1>1, <2>2, Sorts
    <3>. QED  BY <1>1, <2>1, <3>3, <3>4 DEF Outbound
  <2>3. CASE /\ \A t \in Callers : ~Calls(t, r)
             /\ wire["in"][r] = <<m>> /\ buffer["in"][r] = <<>>
    <3>1. /\ \A t \in Callers : ~Calls(t, r)'
          /\ wire'["in"][r] = <<m>> /\ buffer'["in"][r] = <<>>
      BY <1>1, <1>2, <2>3, Sorts
    <3>. QED  BY <1>1, <2>1, <3>1 DEF Outbound
  <2>4. CASE /\ \A t \in Callers : ~Calls(t, r)
             /\ wire["in"][r] = <<>> /\ buffer["in"][r] = <<m>> /\ Reads("in", r)
    <3>1. /\ \A t \in Callers : ~Calls(t, r)'
          /\ wire'["in"][r] = <<>> /\ buffer'["in"][r] = <<m>> /\ Reads("in", r)'
      BY <1>1, <1>2, <2>4, Sorts
    <3>. QED  BY <1>1, <2>1, <3>1 DEF Outbound
  <2>. QED  BY <2>2, <2>3, <2>4 DEF Outbound
<1>5. Returning(r) => Returning(r)'
  <2>1. /\ wire'["out"][r] = wire["out"][r] /\ buffer'["out"][r] = buffer["out"][r] /\ fin'["out"][r] = fin["out"][r]
        /\ Reads("out", r)' <=> Reads("out", r)
    BY <1>1, Sorts
  <2>. QED  BY <1>2, <2>1 DEF Returning
<1>6. Waits(r) => Waits(r)'
  BY <1>1, <1>4, <1>5 DEF Waits
<1>7. Rejection(r) => Rejection(r)'
  BY <1>1, <1>3, <1>6 DEF Rejection, Waiting
<1>. QED  BY <1>3, <1>6, <1>7

\* What was told stays told.
LEMMA ToldStays ==
    ASSUME Promise, NEW r \in Ids, told \in [Ids -> Histories]
    PROVE  told[r] = <<"ERROR">> => told'[r] = <<"ERROR">>
<1>1. ASSUME NEW i \in Ids, Contract!Tell(i), told[r] = <<"ERROR">> PROVE told'[r] = <<"ERROR">>
  <2>1. told[i] = <<>> /\ told' = [told EXCEPT ![i] = decision[i]]
    BY <1>1 DEF Contract!Tell
  <2>2. i # r
    BY <1>1, <2>1
  <2>. QED  BY <1>1, <2>1, <2>2
<1>2. ASSUME NEW i \in Ids, Contract!Decide(i) PROVE told' = told
  BY <1>2 DEF Contract!Decide
<1>. QED  BY <1>1, <1>2 DEF Promise, Contract!Next

\* A step about r itself.
LEMMA OwnStep ==
    ASSUME RequestInv, Promise, NEW r \in Requests, Rejection(r), type[r] # None, type'[r] = type[r], left \subseteq left',
           Waiting(r) /\ Waits(r) => (Waits(r)' /\ told'[r] = told[r]) \/ ~Waiting(r)'
    PROVE  Rejection(r)'
<1>1. told[r] = <<"ERROR">> => told'[r] = <<"ERROR">>
  BY Sorts, ToldStays DEF RequestInv, DecidedOnce
<1>2. Waiting(r)' => Waiting(r)
  BY <1>1 DEF Waiting
<1>. QED  BY <1>2 DEF Rejection


LEMMA ReadsSame == ASSUME reading' = reading, NEW s, NEW r PROVE Reads(s, r)' <=> Reads(s, r)
BY DEF Reads

\* A call keeps r when its job, if any, is about another request or is an
\* answerer's about a request that it can look up.
LEMMA CallKept ==
    ASSUME TypeOK, NEW t \in Threads, NEW j, NEW r \in Requests,
           type'[r] = type[r], told' = told, state'["out"][r] = state["out"][r],
           r \in streams["out"] => r \in streams'["out"], requests \subseteq requests',
           r \in byReqid'["in"] => r \in byReqid["in"],
           UNCHANGED <<wireVars, loopVars>>, left \subseteq left',
           \/ job' = job
           \/ /\ job' = [job EXCEPT ![t] = j] /\ ~Calls(t, r)
              /\ j.req = r => t \in Answerers /\ r \in byReqid["in"]
    PROVE  Kept(r)
<1>1. UNCHANGED <<wire, fin, buffer, reading>>
  BY DEF wireVars, loopVars
<1>2. \A s \in Sides : Reads(s, r)' <=> Reads(s, r)
  BY <1>1, ReadsSame
<1>3. /\ \A u \in Callers : Calls(u, r) \/ Calls(u, r)' => job'[u] = job[u]
      /\ \A u \in Answerers : Calls(u, r)' => Calls(u, r) \/ r \in byReqid["in"]
  <2>1. CASE job' = job
    BY <2>1 DEF Calls
  <2>2. CASE /\ job' = [job EXCEPT ![t] = j] /\ ~Calls(t, r)
             /\ j.req = r => t \in Answerers /\ r \in byReqid["in"]
    <3>1. job'[t] = j /\ \A u \in Threads : u # t => job'[u] = job[u]
      BY <2>2, JobsKept
    <3>2. \A u \in Threads : u # t => (Calls(u, r)' <=> Calls(u, r))
      BY <3>1 DEF Calls
    <3>3. Calls(t, r)' => t \in Answerers /\ r \in byReqid["in"]
      BY <2>2, <3>1 DEF Calls
    <3>4. \A u \in Callers : Calls(u, r) \/ Calls(u, r)' => job'[u] = job[u]
      BY <2>2, <3>1, <3>3, Sorts
    <3>5. \A u \in Answerers : Calls(u, r)' => Calls(u, r) \/ r \in byReqid["in"]
      BY <3>2, <3>3, Sorts
    <3>. QED  BY <3>4, <3>5
  <2>. QED  BY <2>1, <2>2
<1>. QED  BY <1>1, <1>2, <1>3 DEF Kept

LEMMA FreeCalls == ASSUME NEW t, Free(t), NEW r PROVE ~Calls(t, r)
BY DEF Free, Calls

\* A request is made: it waits for its answer.
LEMMA RequestRejection ==
    ASSUME RequestInv, RejectInv, NEW t \in Callers, NEW q \in Requests, NEW ty \in AllTypes, Request(t, q, ty),
           NEW r \in Requests
    PROVE  Rejection(r)'
<1> DEFINE m == Msg(ty, q)
           j == Job(q, m, FALSE, {})
<1>0. TypeOK /\ t \in Threads /\ Rejection(r)
  BY Sorts DEF RequestInv, RejectInv
<1>1. /\ type[q] = None /\ type' = [type EXCEPT ![q] = ty] /\ Free(t)
      /\ state' = [state EXCEPT !["out"][q] = "SENT"]
      /\ streams' = [streams EXCEPT !["out"] = @ \cup {q}] /\ requests' = requests \cup {q}
      /\ byReqid' = [byReqid EXCEPT !["out"] = @ \cup {q}]
      /\ job' = [job EXCEPT ![t] = j]
      /\ UNCHANGED <<wireVars, loopVars, told, left>>
  BY DEF Request, historyVars
<1>2. /\ state'["out"][q] = "SENT" /\ \A p \in Requests : p # q => state'["out"][p] = state["out"][p]
  <2>1. "SENT" \in States
    BY DEF States
  <2>. QED  BY <1>0, <1>1, <2>1, OutSet
<1>3. streams'["out"] = streams["out"] \cup {q} /\ byReqid'["in"] = byReqid["in"]
  BY <1>0, <1>1, Sorts DEF TypeOK
<1>4. j \in Jobs /\ j.req = q /\ j # None
  <2>1. j \in Jobs
    BY Sorts, MessageTypes, JobTypes
  <2>. QED  BY <2>1, NoneIsNothing DEF Job
<1> HIDE DEF j
<1>5. CASE r # q
  <2>1. type'[r] = type[r]
    BY <1>0, <1>1, <1>5 DEF TypeOK
  <2>2. Kept(r)
    BY <1>0, <1>1, <1>2, <1>3, <1>4, <1>5, <2>1, FreeCalls, CallKept
  <2>. QED  BY <1>0, <2>2, KeptKeeps
<1>6. CASE r = q
  <2>1. Blank(q)
    BY <1>0, <1>1, <1>6 DEF Rejection
  <2>2. job'[t] = j /\ \A u \in Threads : u # t => job'[u] = job[u]
    BY <1>0, <1>1, JobsKept
  <2>3. Calls(t, q)' /\ \A u \in Threads : u # t => ~Calls(u, q)'
    BY <1>4, <2>1, <2>2 DEF Blank, Calls
  <2>4. type'[q] = ty /\ ty # None
    BY <1>0, <1>1, Sorts DEF TypeOK
  <2>5. UNCHANGED <<wire, fin, buffer, reading>>
    BY <1>1 DEF wireVars, loopVars
  <2>6. \A s \in Sides : wire'[s][q] = <<>> /\ buffer'[s][q] = <<>> /\ ~Reads(s, q)' /\ fin'[s][q] = "no"
    BY <2>1, <2>5, ReadsSame DEF Blank
  <2>7. /\ q \notin byReqid'["in"]
        /\ \A u \in Answerers : ~Calls(u, q)'
        /\ \E c \in Callers : Calls(c, q)' /\ job'[c] = j /\ \A u \in Callers : u # c => ~Calls(u, q)'
    <3>1. t \notin Answerers
      BY Sorts
    <3>. QED  BY <1>3, <2>1, <2>2, <2>3, <3>1, Sorts DEF Blank
  <2>8. Outbound(q)'
    BY <2>4, <2>6, <2>7, Sorts DEF Outbound, j
  <2>9. Waits(q)' /\ told'[q] = <<>>
    BY <1>1, <1>2, <1>3, <2>1, <2>8 DEF Waits, Blank
  <2>. QED  BY <1>6, <2>4, <2>9 DEF Rejection
<1>. QED  BY <1>5, <1>6

LEMMA CancelRejection ==
    ASSUME RequestInv, RejectInv, Promise, NEW t, NEW q \in Requests, NEW ty \in AllTypes, Cancel(t, q, ty),
           NEW r \in Requests
    PROVE  Rejection(r)'
<1>0. TypeOK /\ Rejection(r)
  BY DEF RequestInv, RejectInv
<1>1. /\ type[q] = ty /\ streams' = [streams EXCEPT !["out"] = @ \ {q}]
      /\ byReqid' = [byReqid EXCEPT !["out"] = @ \ {q}] /\ left' = left \cup {q}
      /\ UNCHANGED <<type, state, requests, wire, fin, buffer, reading, job, told>>
  BY DEF Cancel, tableVars, wireVars, loopVars
<1>2. CASE r # q
  <2>1. streams'["out"] = streams["out"] \ {q} /\ byReqid'["in"] = byReqid["in"]
    BY <1>0, <1>1, Sorts DEF TypeOK
  <2>2. \A s \in Sides : Reads(s, r)' <=> Reads(s, r)
    BY <1>1, ReadsSame
  <2>3. Kept(r)
    BY <1>1, <1>2, <2>1, <2>2 DEF Kept, Calls
  <2>. QED  BY <1>0, <2>3, KeptKeeps
<1>3. CASE r = q
  <2>1. type'[r] # None /\ r \in left'
    BY <1>1, <1>3, Sorts
  <2>. QED  BY <2>1 DEF Rejection, Waiting
<1>. QED  BY <1>2, <1>3

LEMMA PublishDoneRejection ==
    ASSUME RequestInv, RejectInv, NEW t \in Threads, NEW q \in Requests, PublishDone(t, q),
           NEW r \in Requests
    PROVE  Rejection(r)'
<1> DEFINE j == Job(q, Msg("PUBLISH_DONE", q), TRUE, Tables)
<1>0. TypeOK /\ Rejection(r)
  BY DEF RequestInv, RejectInv
<1>1. /\ Free(t) /\ q \in byReqid[SideOf(t)] /\ type[q] \in AllTypes
      /\ job' = [job EXCEPT ![t] = j]
      /\ left' = IF SideOf(t) = "out" THEN left \cup {q} ELSE left
      /\ UNCHANGED <<requestVars, tableVars, wireVars, loopVars, told>>
  BY DEF PublishDone, AllTypes
<1>2. j.req = q
  BY DEF Job
<1> HIDE DEF j
<1>3. CASE r # q \/ t \in Answerers
  <2>1. j.req = r => t \in Answerers /\ r \in byReqid["in"]
    BY <1>1, <1>2, <1>3, Sorts DEF SideOf
  <2>2. Kept(r)
    BY <1>0, <1>1, <2>1, FreeCalls, CallKept DEF requestVars, tableVars
  <2>. QED  BY <1>0, <2>2, KeptKeeps
<1>4. CASE r = q /\ t \notin Answerers
  <2>1. r \in left' /\ type'[r] # None
    BY <1>1, <1>4, Sorts DEF requestVars, SideOf, Threads
  <2>. QED  BY <2>1 DEF Rejection, Waiting
<1>. QED  BY <1>3, <1>4

LEMMA UpdateRejection ==
    ASSUME RequestInv, RejectInv, Promise, NEW t \in Callers, NEW u \in Updates, NEW q \in Requests,
           UpdateRequest(t, u, q), NEW r \in Requests
    PROVE  Rejection(r)'
<1> DEFINE j == Job(q, Msg("REQUEST_UPDATE", u), FALSE, {})
<1>0. TypeOK /\ Rejection(r) /\ t \in Threads
  BY Sorts DEF RequestInv, RejectInv
<1>1. /\ Free(t) /\ requests' = requests \cup {u}
      /\ UNCHANGED <<type, streams, byReqid, wireVars, loopVars, told, left>>
  BY DEF UpdateRequest, historyVars
<1>2. j.req = q
  BY DEF Job
<1>3. CASE CanUpdate(q) /\ state' = [state EXCEPT !["out"][q] = "UPDATE_SENT"] /\ job' = [job EXCEPT ![t] = j]
  <2>1. \A p \in Requests : p # q => state'["out"][p] = state["out"][p]
    <3>1. "UPDATE_SENT" \in States
      BY DEF States
    <3>. QED  BY <1>0, <1>3, <3>1, OutSet
  <2> HIDE DEF j
  <2>2. CASE r # q
    <3>1. Kept(r)
      BY <1>0, <1>1, <1>2, <1>3, <2>1, <2>2, FreeCalls, CallKept
    <3>. QED  BY <1>0, <3>1, KeptKeeps
  <2>3. CASE r = q
    <3>1. state["out"][r] = "OK"
      BY <1>3, <2>3 DEF CanUpdate
    <3>2. type[r] # None
      BY <3>1, Made
    <3>3. ~Waits(r)
      BY <3>1 DEF Waits
    <3>. QED  BY <1>0, <1>1, <3>2, <3>3, OwnStep
  <2>. QED  BY <2>2, <2>3
<1>4. CASE UNCHANGED <<state, job>>
  <2>1. Kept(r)
    BY <1>0, <1>1, <1>4, CallKept
  <2>. QED  BY <1>0, <2>1, KeptKeeps
<1>. QED  BY <1>3, <1>4 DEF UpdateRequest

\* An answer to r is a call about a request that has a callback.
LEMMA AnswerRejection ==
    ASSUME RequestInv, RejectInv, Promise, NEW t \in Answerers, NEW q \in Requests, NEW ty \in AllTypes,
           Accept(t, q, ty) \/ Reject(t, q, ty), NEW r \in Requests
    PROVE  Rejection(r)'
<1>0. TypeOK /\ Rejection(r) /\ t \in Threads
  BY Sorts DEF RequestInv, RejectInv
<1>1. /\ Free(t) /\ Answerable(q)
      /\ UNCHANGED <<type, streams, byReqid, tableVars, wireVars, loopVars, told, left>>
  BY DEF Accept, Reject
<1>2. \E j, st : /\ st \in {"OK", "ERROR"} /\ j.req = q
                 /\ job' = [job EXCEPT ![t] = j] /\ state' = [state EXCEPT !["in"][q] = st]
  <2>1. \A m, last, drop : Job(q, m, last, drop).req = q
    BY DEF Job
  <2>2. CASE Accept(t, q, ty)
    <3>1. /\ job' = [job EXCEPT ![t] = Job(q, Msg(OkKind(ty), q), FALSE, {})]
          /\ state' = [state EXCEPT !["in"][q] = "OK"]
      BY <2>2 DEF Accept
    <3>. QED  BY <2>1, <3>1
  <2>3. CASE Reject(t, q, ty)
    <3>1. /\ job' = [job EXCEPT ![t] = RejectJob(q, ty)]
          /\ state' = [state EXCEPT !["in"][q] = "ERROR"]
      BY <2>3 DEF Reject
    <3>. QED  BY <3>1, RejectJobTypes
  <2>. QED  BY <2>2, <2>3
<1>3. PICK j, st : /\ st \in {"OK", "ERROR"} /\ j.req = q
                   /\ job' = [job EXCEPT ![t] = j] /\ state' = [state EXCEPT !["in"][q] = st]
  BY <1>2
<1>4. state'["out"] = state["out"]
  <2>1. st \in States
    BY <1>3 DEF States
  <2>. QED  BY <1>0, <1>3, <2>1, InSet
<1>5. CASE r # q
  <2>1. Kept(r)
    BY <1>0, <1>1, <1>3, <1>4, <1>5, FreeCalls, CallKept DEF tableVars
  <2>. QED  BY <1>0, <2>1, KeptKeeps
<1>6. CASE r = q
  <2>1. type[r] # None /\ type[r] \in Handled
    BY <1>1, <1>6, RequestsAssumption DEF Answerable
  <2>2. ~Waiting(r)
    BY <2>1 DEF Waiting, Rejected
  <2>. QED  BY <1>0, <1>1, <2>1, <2>2, OwnStep
<1>. QED  BY <1>5, <1>6

\* The other calls of the responder are about requests that it can look up.
LEMMA LookupRejection ==
    ASSUME RequestInv, RejectInv, NEW t \in Answerers, NEW q \in Requests,
           \/ \E u \in Updates, answer \in {"OK", "ERROR"} : AnswerUpdate(t, u, q, answer)
           \/ \E note \in Notes : Notify(t, q, note)
           \/ RequestGoaway(t, q),
           NEW r \in Requests
    PROVE  Rejection(r)'
<1>0. TypeOK /\ Rejection(r) /\ t \in Threads
  BY Sorts DEF RequestInv, RejectInv
<1>1. CASE \E u \in Updates, answer \in {"OK", "ERROR"} : AnswerUpdate(t, u, q, answer)
  <2>1. PICK u \in Updates, answer \in {"OK", "ERROR"} : AnswerUpdate(t, u, q, answer)
    BY <1>1
  <2> DEFINE j == Job(q, Msg(AnswerKind(answer), u), FALSE, {})
  <2>2. /\ Free(t) /\ UNCHANGED <<type, streams, byReqid, requests, wireVars, loopVars, told, left>>
        /\ \/ UNCHANGED <<state, job>>
           \/ /\ q \in byReqid["in"] /\ state' = [state EXCEPT !["in"][q] = "OK"]
              /\ job' = [job EXCEPT ![t] = j]
    BY <2>1 DEF AnswerUpdate
  <2>3. j.req = q
    BY DEF Job
  <2>4. state'["out"] = state["out"]
    <3>1. "OK" \in States
      BY DEF States
    <3>. QED  BY <1>0, <2>2, <3>1, InSet
  <2> HIDE DEF j
  <2>5. Kept(r)
    BY <1>0, <2>2, <2>3, <2>4, FreeCalls, CallKept
  <2>. QED  BY <1>0, <2>5, KeptKeeps
<1>2. CASE \E note \in Notes : Notify(t, q, note)
  <2>1. PICK note \in Notes : Notify(t, q, note)
    BY <1>2
  <2> DEFINE j == Job(q, Msg(note, q), FALSE, {})
  <2>2. /\ Free(t) /\ q \in byReqid["in"] /\ job' = [job EXCEPT ![t] = j]
        /\ UNCHANGED <<requestVars, tableVars, wireVars, loopVars, told, left>>
    BY <2>1 DEF Notify
  <2>3. j.req = q
    BY DEF Job
  <2> HIDE DEF j
  <2>4. Kept(r)
    BY <1>0, <2>2, <2>3, FreeCalls, CallKept DEF requestVars, tableVars
  <2>. QED  BY <1>0, <2>4, KeptKeeps
<1>3. CASE RequestGoaway(t, q)
  <2> DEFINE j == Job(q, Msg("GOAWAY", q), TRUE, Tables)
  <2>1. /\ Free(t) /\ q \in byReqid["in"] /\ job' = [job EXCEPT ![t] = j]
        /\ state' = [state EXCEPT !["in"][q] = "DONE"]
        /\ UNCHANGED <<type, streams, byReqid, tableVars, wireVars, loopVars, told, left>>
    BY <1>3 DEF RequestGoaway, historyVars
  <2>2. j.req = q
    BY DEF Job
  <2>3. state'["out"] = state["out"]
    <3>1. "DONE" \in States
      BY DEF States
    <3>. QED  BY <1>0, <2>1, <3>1, InSet
  <2> HIDE DEF j
  <2>4. Kept(r)
    BY <1>0, <2>1, <2>2, <2>3, FreeCalls, CallKept DEF tableVars
  <2>. QED  BY <1>0, <2>4, KeptKeeps
<1>. QED  BY <1>1, <1>2, <1>3

\* What Send does to the other streams, and when it is refused.
LEMMA SendElse ==
    ASSUME TypeOK, NEW s \in Sides, NEW q \in Requests, NEW m \in Messages, NEW last \in BOOLEAN,
           Send(s, q, m, last) \/ UNCHANGED wireVars
    PROVE  /\ \A x \in Sides, r \in Requests : x # Peer(s) \/ r # q =>
                wire'[x][r] = wire[x][r] /\ fin'[x][r] = fin[x][r]
           /\ fin[Peer(s)][q] # "no" => UNCHANGED <<wire, fin>>
           /\ fin[Peer(s)][q] = "no" /\ Send(s, q, m, last) =>
                /\ wire'[Peer(s)][q] = Append(wire[Peer(s)][q], m)
                /\ fin'[Peer(s)][q] = IF last THEN "sent" ELSE "no"
<1> DEFINE p == Peer(s)
           v == IF last THEN "sent" ELSE fin[p][q]
           w == Append(wire[p][q], m)
           F == {"no", "sent", "read"}
<1>1. p \in Sides
  BY DEF Peer, Sides
<1>2. CASE UNCHANGED wireVars
  <2>1. UNCHANGED <<wire, fin>>
    BY <1>2 DEF wireVars
  <2>2. Send(s, q, m, last) => fin[p][q] # "no"
    <3> SUFFICES ASSUME Send(s, q, m, last), fin[p][q] = "no" PROVE FALSE
      OBVIOUS
    <3>1. wire' = [wire EXCEPT ![p][q] = Append(@, m)]
      BY DEF Send
    <3>2. wire'[p][q] = Append(wire[p][q], m)
      BY <1>1, <3>1 DEF TypeOK
    <3>3. Len(Append(wire[p][q], m)) = Len(wire[p][q]) + 1 /\ Len(wire[p][q]) \in Nat
      <4>1. wire[p][q] \in Seq(Messages)
        BY <1>1, FlowTypes
      <4>. QED  BY <4>1
    <3>4. wire'[p][q] = wire[p][q]
      BY <2>1
    <3>. QED  BY <3>2, <3>3, <3>4
  <2>. QED  BY <2>1, <2>2
<1>3. CASE Send(s, q, m, last) /\ fin[p][q] # "no"
  <2>1. UNCHANGED <<wire, fin>>
    BY <1>3 DEF Send, wireVars
  <2>. QED  BY <1>3, <2>1
<1>4. CASE Send(s, q, m, last) /\ fin[p][q] = "no"
  <2>1. wire' = [wire EXCEPT ![p][q] = w] /\ fin' = [fin EXCEPT ![p][q] = v]
    BY <1>4 DEF Send
  <2>2. w \in Seq(Messages) /\ v \in F
    <3>1. wire[p][q] \in Seq(Messages) /\ fin[p][q] \in F
      BY <1>1, FlowTypes DEF TypeOK
    <3>. QED  BY <3>1
  <2>3. wire \in [Sides -> [Requests -> Seq(Messages)]] /\ fin \in [Sides -> [Requests -> F]]
    BY DEF TypeOK
  <2>4. v = IF last THEN "sent" ELSE "no"
    BY <1>4
  <2> HIDE DEF w, v, F, p
  <2>5. /\ wire'[p][q] = w /\ \A r \in Requests : r # q => wire'[p][r] = wire[p][r]
        /\ \A x \in Sides : x # p => wire'[x] = wire[x]
    BY <1>1, <2>1, <2>2, <2>3, OneChanged
  <2>6. /\ fin'[p][q] = v /\ \A r \in Requests : r # q => fin'[p][r] = fin[p][r]
        /\ \A x \in Sides : x # p => fin'[x] = fin[x]
    BY <1>1, <2>1, <2>2, <2>3, OneChanged
  <2>7. \A x \in Sides, r \in Requests : x # p \/ r # q => wire'[x][r] = wire[x][r] /\ fin'[x][r] = fin[x][r]
    BY <2>5, <2>6
  <2>8. wire'[p][q] = Append(wire[p][q], m) /\ fin'[p][q] = IF last THEN "sent" ELSE "no"
    BY <2>4, <2>5, <2>6 DEF w
  <2>. QED  BY <1>4, <2>7, <2>8 DEF p
<1>. QED  BY <1>2, <1>3, <1>4

\* A call sends: a request that waits is on the wire.
LEMMA SendJobRejection ==
    ASSUME RequestInv, RejectInv, Promise, NEW t \in Threads, SendJob(t), NEW r \in Requests
    PROVE  Rejection(r)'
<1> DEFINE q == job[t].req
           s == SideOf(t)
           j == IF job[t].drop = {} THEN None ELSE [job[t] EXCEPT !.msg = None]
<1>0. TypeOK /\ Rejection(r)
  BY DEF RequestInv, RejectInv
<1>1. /\ job[t] # None /\ job[t] \in Jobs /\ job[t].msg # None /\ job' = [job EXCEPT ![t] = j]
      /\ UNCHANGED <<requestVars, tableVars, loopVars, told, left>>
  BY <1>0 DEF SendJob, historyVars, TypeOK
<1>2. /\ q \in Requests /\ job[t].msg \in Messages /\ job[t].last \in BOOLEAN
      /\ Calls(t, q) /\ (Calls(t, r) => r = q)
  BY <1>1 DEF Jobs, Calls
<1>3. (j = None \/ j.req = q) /\ (job[t].drop = {} => j = None)
  BY <1>1 DEF Jobs
<1> HIDE DEF j
<1>4. job'[t] = j /\ \A u \in Threads : u # t => job'[u] = job[u]
  BY <1>0, <1>1, JobsKept
<1>5. \A u \in Threads : u # t => (Calls(u, r)' <=> Calls(u, r))
  BY <1>4 DEF Calls
<1>6. Calls(t, r)' => Calls(t, r)
  BY <1>1, <1>2, <1>3, <1>4 DEF Calls
<1>7. /\ s \in Sides /\ Peer(s) \in Sides
      /\ s = IF t \in Callers THEN "out" ELSE "in"
      /\ Peer(s) = IF t \in Callers THEN "in" ELSE "out"
  BY DEF SideOf, Peer, Sides
<1>8. /\ \A x \in Sides : x # Peer(s) \/ r # q => wire'[x][r] = wire[x][r] /\ fin'[x][r] = fin[x][r]
      /\ fin[Peer(s)][q] # "no" => UNCHANGED <<wire, fin>>
  <2> DEFINE m == job[t].msg
             l == job[t].last
  <2>1. Send(s, q, m, l) \/ UNCHANGED wireVars
    BY DEF SendJob
  <2> HIDE DEF m, l, q, s
  <2>2. m \in Messages /\ l \in BOOLEAN /\ q \in Requests
    BY <1>2 DEF m, l, q
  <2>. QED  BY <1>0, <1>7, <2>1, <2>2, SendElse
<1>9. UNCHANGED <<type, state, streams, byReqid, requests, buffer, reading>>
  BY <1>1 DEF requestVars, tableVars, loopVars
<1>10. ASSUME \A x \in Sides : wire'[x][r] = wire[x][r] /\ fin'[x][r] = fin[x][r],
              t \in Answerers \/ ~Calls(t, r)
       PROVE  Rejection(r)'
  <2>1. \A x \in Sides : Reads(x, r)' <=> Reads(x, r)
    BY <1>9, ReadsSame
  <2>2. \A u \in Callers : Calls(u, r) \/ Calls(u, r)' => job'[u] = job[u]
    BY <1>4, <1>6, <1>10, Sorts
  <2>3. \A u \in Answerers : Calls(u, r)' => Calls(u, r)
    BY <1>5, <1>6, Sorts
  <2>4. Kept(r)
    BY <1>1, <1>9, <1>10, <2>1, <2>2, <2>3 DEF Kept
  <2>. QED  BY <1>0, <2>4, KeptKeeps
<1>11. CASE r # q
  BY <1>2, <1>8, <1>10, <1>11
<1>12. CASE r = q /\ fin[Peer(s)][q] # "no" /\ t \in Answerers
  BY <1>8, <1>10, <1>12
<1>13. CASE r = q /\ t \in Answerers /\ fin[Peer(s)][q] = "no"
  <2>1. Peer(s) = "out" /\ Calls(t, r)
    BY <1>2, <1>7, <1>13, Sorts
  <2>2. ~Outbound(r) /\ ~Returning(r)
    BY <1>13, <2>1 DEF Outbound, Returning
  <2>3. type[r] # None
    BY <1>0, <2>1 DEF Rejection, Blank
  <2>. QED  BY <1>0, <1>1, <1>9, <2>2, <2>3, OwnStep DEF Waits
<1>14. CASE r = q /\ t \in Callers
  <2>1. type[r] # None
    BY <1>0, <1>2, <1>14 DEF Rejection, Blank
  <2>2. ASSUME Waiting(r), Waits(r) PROVE Waits(r)'
    <3> DEFINE m == Msg(type[r], r)
    <3>1. ~Returning(r)
      BY <1>2, <1>14 DEF Returning
    <3>2. Outbound(r)
      BY <2>2, <3>1 DEF Waits
    <3>3. /\ job[t] = Job(r, m, FALSE, {}) /\ \A u \in Callers : u # t => ~Calls(u, r)
          /\ wire["in"][r] = <<>> /\ buffer["in"][r] = <<>>
      BY <1>2, <1>14, <3>2 DEF Outbound
    <3>4. type[r] \in AllTypes
      BY <2>2, Sorts DEF Waiting, Rejected
    <3>5. job[t].msg = m /\ job[t].last = FALSE /\ job[t].drop = {} /\ job[t].control = FALSE
      BY <3>3 DEF Job
    <3>6. ~job[t].control
      BY <3>5
    <3>7. Send("out", r, m, FALSE) /\ Peer("out") = "in" /\ m \in Messages
      <4>1. Send("out", r, m, FALSE)
        BY <1>7, <1>14, <3>5, <3>6 DEF SendJob
      <4>2. m \in Messages
        BY <3>4, Sorts, MessageTypes
      <4>. QED  BY <4>1, <4>2 DEF Peer
    <3>8. fin["in"][r] = "no"
      BY <3>2, Sorts DEF Outbound
    <3>9. /\ wire'["in"][r] = Append(wire["in"][r], m) /\ fin'["in"][r] = "no"
          /\ wire'["out"][r] = wire["out"][r] /\ fin'["out"][r] = fin["out"][r]
      <4>1. PICK l \in BOOLEAN : l = FALSE
        OBVIOUS
      <4>2. Send("out", r, m, l)
        BY <3>7, <4>1
      <4> HIDE DEF m
      <4>3. /\ \A x \in Sides, p \in Requests : x # Peer("out") \/ p # r =>
                 wire'[x][p] = wire[x][p] /\ fin'[x][p] = fin[x][p]
            /\ wire'[Peer("out")][r] = Append(wire[Peer("out")][r], m)
            /\ fin'[Peer("out")][r] = IF l THEN "sent" ELSE "no"
        BY <1>0, <3>7, <3>8, <4>2, Sorts, SendElse
      <4>. QED  BY <3>7, <4>1, <4>3, Sorts
    <3>10. wire'["in"][r] = <<m>>
      BY <3>3, <3>9
    <3>11. \A u \in Callers : ~Calls(u, r)'
      <4>1. ~Calls(t, r)'
        BY <1>3, <1>4, <3>5 DEF Calls
      <4>. QED  BY <1>5, <3>3, <4>1, Sorts
    <3>12. \A u \in Answerers : ~Calls(u, r)'
      <4>1. \A u \in Answerers : u \in Threads /\ u # t /\ ~Calls(u, r)
        BY <1>14, <3>2, Sorts DEF Outbound
      <4>. QED  BY <1>5, <4>1
    <3>13. ~Reads("out", r)'
      BY <1>9, <3>2, ReadsSame DEF Outbound
    <3>14. /\ wire'["out"][r] = <<>> /\ buffer'["out"][r] = <<>> /\ buffer'["in"][r] = <<>>
           /\ r \notin byReqid'["in"] /\ \A x \in Sides : fin'[x][r] = "no"
      BY <1>9, <3>2, <3>3, <3>9 DEF Outbound, Sides
    <3>15. Outbound(r)'
      BY <1>9, <3>10, <3>11, <3>12, <3>13, <3>14 DEF Outbound
    <3>. QED  BY <1>9, <2>2, <3>15 DEF Waits
  <2>. QED  BY <1>0, <1>1, <1>9, <2>1, <2>2, OwnStep
<1>. QED  BY <1>11, <1>12, <1>13, <1>14 DEF Threads

LEMMA DropJobRejection ==
    ASSUME RequestInv, RejectInv, Promise, NEW t \in Threads, DropJob(t), NEW r \in Requests
    PROVE  Rejection(r)'
<1> DEFINE q == job[t].req
           s == SideOf(t)
<1>0. TypeOK /\ Rejection(r) /\ s \in Sides
  BY DEF RequestInv, RejectInv, SideOf, Sides
<1>1. /\ job[t] # None /\ job[t].msg = None /\ job' = [job EXCEPT ![t] = None]
      /\ streams' = [streams EXCEPT ![s] = @ \ {q}]
      /\ byReqid' = byReqid \/ byReqid' = [byReqid EXCEPT ![s] = @ \ {q}]
      /\ UNCHANGED <<type, state, requests, wire, fin, buffer, reading, told, left>>
  BY DEF DropJob, tableVars, wireVars, loopVars, historyVars
<1>2. job'[t] = None /\ \A u \in Threads : u # t => job'[u] = job[u]
  BY <1>0, <1>1, JobsKept
<1>3. /\ r \in byReqid'["in"] => r \in byReqid["in"]
      /\ r \in streams["out"] /\ (r # q \/ t \notin Callers) => r \in streams'["out"]
  <2>1. streams \in [Sides -> SUBSET Requests] /\ byReqid \in [Sides -> SUBSET Requests]
    BY <1>0 DEF TypeOK
  <2>2. streams'["out"] = IF s = "out" THEN streams["out"] \ {q} ELSE streams["out"]
    BY <1>1, <2>1, Sorts
  <2>3. byReqid'["in"] = byReqid["in"] \/ byReqid'["in"] = byReqid["in"] \ {q}
    BY <1>0, <1>1, <2>1, Sorts
  <2>. QED  BY <2>2, <2>3 DEF SideOf
<1>4. CASE r # q \/ t \notin Callers
  <2>1. \A u \in Callers : Calls(u, r) \/ Calls(u, r)' => job'[u] = job[u]
    BY <1>2, <1>4, Sorts DEF Calls
  <2>2. \A u \in Answerers : Calls(u, r)' => Calls(u, r)
    BY <1>2, Sorts DEF Calls
  <2>3. \A x \in Sides : Reads(x, r)' <=> Reads(x, r)
    BY <1>1, ReadsSame
  <2>4. Kept(r)
    BY <1>1, <1>3, <1>4, <2>1, <2>2, <2>3 DEF Kept
  <2>. QED  BY <1>0, <2>4, KeptKeeps
<1>5. CASE r = q /\ t \in Callers
  <2>1. Calls(t, r)
    BY <1>1, <1>5 DEF Calls
  <2>2. type[r] # None
    BY <1>0, <2>1 DEF Rejection, Blank
  <2>3. ~(Waiting(r) /\ Waits(r))
    <3> SUFFICES ASSUME Waiting(r), Waits(r) PROVE FALSE
      OBVIOUS
    <3>1. job[t] = Job(r, Msg(type[r], r), FALSE, {})
      BY <1>5, <2>1 DEF Waits, Outbound, Returning
    <3>2. Msg(type[r], r) \in Messages
      BY Sorts, MessageTypes DEF Waiting, Rejected
    <3>3. job[t].msg = Msg(type[r], r)
      BY <3>1 DEF Job
    <3>. QED  BY <1>1, <3>2, <3>3, NoneIsNothing
  <2>. QED  BY <1>0, <1>1, <2>2, <2>3, OwnStep
<1>. QED  BY <1>4, <1>5

LEMMA ArriveChanges ==
    ASSUME TypeOK, NEW s \in Sides, NEW q \in Requests, NEW n \in 0 .. Len(wire[s][q]), NEW final \in BOOLEAN,
           Arrive(s, q, n, final)
    PROVE  /\ \A x \in Sides, r \in Requests : x # s \/ r # q =>
                /\ wire'[x][r] = wire[x][r] /\ buffer'[x][r] = buffer[x][r] /\ fin'[x][r] = fin[x][r]
                /\ Reads(x, r)' <=> Reads(x, r)
           /\ wire'[s][q] = SubSeq(wire[s][q], n + 1, Len(wire[s][q]))
           /\ fin'[s][q] = IF final THEN "read" ELSE fin[s][q]
           /\ ~Reads(s, q)
           /\ q \in streams[s] \/ IsRequest(s, q, n) =>
                buffer'[s][q] = buffer[s][q] \o SubSeq(wire[s][q], 1, n) /\ Reads(s, q)'
           /\ streams["out"] \subseteq streams'["out"]
<1> DEFINE w == wire[s][q]
           w2 == SubSeq(w, n + 1, Len(w))
           b2 == buffer[s][q] \o SubSeq(w, 1, n)
           f2 == IF final THEN "read" ELSE fin[s][q]
           R == [req |-> q, size |-> 0, final |-> final]
           Known == q \in streams[s] \/ IsRequest(s, q, n)
           F == {"no", "sent", "read"}
<1>1. /\ wire' = [wire EXCEPT ![s][q] = w2] /\ fin' = [fin EXCEPT ![s][q] = f2]
      /\ IF Known THEN /\ streams' = [streams EXCEPT ![s] = @ \cup {q}] /\ buffer' = [buffer EXCEPT ![s][q] = b2]
                       /\ reading' = [reading EXCEPT ![s] = R]
                  ELSE UNCHANGED <<streams, buffer, reading>>
      /\ reading[s] = None
  BY DEF Arrive, loopVars
<1>2. /\ wire \in [Sides -> [Requests -> Seq(Messages)]] /\ buffer \in [Sides -> [Requests -> Seq(Messages)]]
      /\ fin \in [Sides -> [Requests -> F]] /\ streams \in [Sides -> SUBSET Requests]
      /\ reading \in [Sides -> Readings \cup {None}]
  BY DEF TypeOK
<1>3. R \in Readings /\ R # None /\ R.req = q
  <2>1. R \in Readings
    BY DEF Readings
  <2>. QED  BY <2>1, NoneIsNothing
<1>4. w2 \in Seq(Messages) /\ b2 \in Seq(Messages) /\ f2 \in F
  <2>1. w \in Seq(Messages) /\ buffer[s][q] \in Seq(Messages)
    BY FlowTypes
  <2>2. (\A i \in 1 .. n : w[i] \in Messages) /\ (\A i \in n + 1 .. Len(w) : w[i] \in Messages) /\ n \in Int /\ Len(w) \in Int
    BY <2>1
  <2>3. SubSeq(w, 1, n) \in Seq(Messages) /\ w2 \in Seq(Messages)
    BY <2>2, SubSeqProperties
  <2>4. f2 \in F
    BY <1>2
  <2>. QED  BY <2>1, <2>3, <2>4, ConcatProperties
<1> HIDE DEF w2, b2, f2, R, F, w
<1>5. /\ wire'[s][q] = w2 /\ \A r \in Requests : r # q => wire'[s][r] = wire[s][r]
      /\ \A x \in Sides : x # s => wire'[x] = wire[x]
  BY <1>1, <1>2, <1>4, OneChanged
<1>6. /\ fin'[s][q] = f2 /\ \A r \in Requests : r # q => fin'[s][r] = fin[s][r]
      /\ \A x \in Sides : x # s => fin'[x] = fin[x]
  BY <1>1, <1>2, <1>4, OneChanged
<1>7. /\ \A r \in Requests : r # q => buffer'[s][r] = buffer[s][r]
      /\ \A x \in Sides : x # s => buffer'[x] = buffer[x]
      /\ Known => buffer'[s][q] = b2
  <2> HIDE DEF Known
  <2>1. CASE Known
    <3>1. buffer' = [buffer EXCEPT ![s][q] = b2]
      BY <1>1, <2>1
    <3>. QED  BY <1>2, <1>4, <3>1, OneChanged
  <2>2. CASE ~Known
    BY <1>1, <2>2
  <2>. QED  BY <2>1, <2>2
<1>8. /\ \A x \in Sides : x # s => reading'[x] = reading[x]
      /\ IF Known THEN reading'[s] = R ELSE reading'[s] = None
      /\ streams["out"] \subseteq streams'["out"]
  <2> HIDE DEF Known
  <2>1. CASE Known
    <3>1. reading' = [reading EXCEPT ![s] = R] /\ streams' = [streams EXCEPT ![s] = @ \cup {q}]
      BY <1>1, <2>1
    <3>2. reading'[s] = R /\ \A x \in Sides : x # s => reading'[x] = reading[x]
      BY <1>2, <3>1
    <3>3. streams["out"] \subseteq streams'["out"]
      BY <1>2, <3>1, Sorts
    <3>. QED  BY <2>1, <3>2, <3>3
  <2>2. CASE ~Known
    BY <1>1, <2>2
  <2>. QED  BY <2>1, <2>2
<1>9. /\ ~Reads(s, q) /\ (Known => Reads(s, q)')
      /\ \A x \in Sides, r \in Requests : x # s \/ r # q => (Reads(x, r)' <=> Reads(x, r))
  <2> HIDE DEF Known
  <2>1. ~Reads(s, q) /\ (Known => Reads(s, q)')
    BY <1>1, <1>3, <1>8 DEF Reads
  <2>2. \A x \in Sides, r \in Requests : x # s => (Reads(x, r)' <=> Reads(x, r))
    BY <1>8 DEF Reads
  <2>3. \A r \in Requests : r # q => ~Reads(s, r)' /\ ~Reads(s, r)
    BY <1>1, <1>3, <1>8 DEF Reads
  <2>. QED  BY <2>1, <2>2, <2>3
<1>10. \A x \in Sides, r \in Requests : x # s \/ r # q =>
         /\ wire'[x][r] = wire[x][r] /\ buffer'[x][r] = buffer[x][r] /\ fin'[x][r] = fin[x][r]
         /\ Reads(x, r)' <=> Reads(x, r)
  BY <1>5, <1>6, <1>7, <1>9
<1>. QED  BY <1>5, <1>6, <1>7, <1>8, <1>9, <1>10 DEF w, w2, b2, f2

LEMMA OneMessage ==
    ASSUME NEW S, NEW m \in S, NEW n \in 0 .. Len(<<m>>), n > 0
    PROVE  /\ n = 1 /\ <<m>>[1] = m /\ Len(<<m>>) = 1
           /\ SubSeq(<<m>>, n + 1, Len(<<m>>)) = <<>> /\ <<>> \o SubSeq(<<m>>, 1, n) = <<m>>
<1>1. n = 1 /\ Len(<<m>>) = 1
  OBVIOUS
<1> DEFINE w == <<m>>
<1>2. w \in Seq(S) /\ w[1] = m /\ Len(w) = 1
  OBVIOUS
<1> HIDE DEF w
<1>3. SubSeq(w, 2, 1) = <<>>
  <2>1. SubSeq(w, 2, 1) \in Seq(S) /\ Len(SubSeq(w, 2, 1)) = 0
    BY <1>2, SubSeqProperties
  <2>. QED  BY <2>1, EmptySeq
<1>4. SubSeq(w, 1, 1) = w
  <2>1. /\ SubSeq(w, 1, 1) \in Seq(S) /\ Len(SubSeq(w, 1, 1)) = 1
        /\ SubSeq(w, 1, 1)[1] = w[1]
    BY <1>2, SubSeqProperties
  <2>. QED  BY <1>2, <2>1, SeqEqual
<1>. QED  BY <1>1, <1>2, <1>3, <1>4, ConcatEmptySeq DEF w

\* A piece of r arrives: the request is being read, or its rejection.
LEMMA ArriveRejection ==
    ASSUME RequestInv, RejectInv, Promise, NEW s \in Sides, NEW q \in Requests, NEW n \in 0 .. Len(wire[s][q]),
           NEW final \in BOOLEAN, Arrive(s, q, n, final), NEW r \in Requests
    PROVE  Rejection(r)'
<1>0. TypeOK /\ Rejection(r)
  BY DEF RequestInv, RejectInv
<1>1. /\ UNCHANGED <<type, state, byReqid, requests, job, told, left>>
      /\ n > 0 \/ final
      /\ final => n = Len(wire[s][q]) /\ fin[s][q] = "sent"
  BY DEF Arrive, tableVars, historyVars
<1>2. /\ \A x \in Sides, p \in Requests : x # s \/ p # q =>
           /\ wire'[x][p] = wire[x][p] /\ buffer'[x][p] = buffer[x][p] /\ fin'[x][p] = fin[x][p]
           /\ Reads(x, p)' <=> Reads(x, p)
      /\ wire'[s][q] = SubSeq(wire[s][q], n + 1, Len(wire[s][q]))
      /\ fin'[s][q] = IF final THEN "read" ELSE fin[s][q]
      /\ ~Reads(s, q)
      /\ q \in streams[s] \/ IsRequest(s, q, n) =>
           buffer'[s][q] = buffer[s][q] \o SubSeq(wire[s][q], 1, n) /\ Reads(s, q)'
      /\ streams["out"] \subseteq streams'["out"]
  BY <1>0, ArriveChanges
<1>3. \A t \in Threads : Calls(t, r)' <=> Calls(t, r)
  BY <1>1 DEF Calls
<1>4. CASE r # q
  <2>1. Kept(r)
    BY <1>1, <1>2, <1>3, <1>4, Sorts DEF Kept
  <2>. QED  BY <1>0, <2>1, KeptKeeps
<1>5. CASE r = q
  <2>1. ASSUME wire[s][q] = <<>> PROVE n = 0 /\ fin[s][q] = "sent"
    <3>1. n = 0
      BY <2>1
    <3>. QED  BY <1>1, <3>1
  <2>2. type[r] # None
    BY <1>0, <1>5, <2>1 DEF Rejection, Blank
  <2>3. ASSUME Waiting(r), Outbound(r) PROVE Outbound(r)'
    <3> DEFINE m == Msg(type[r], r)
    <3>1. s = "in"
      <4>1. s # "out"
        BY <1>5, <2>1, <2>3 DEF Outbound
      <4>. QED  BY <4>1 DEF Sides
    <3>2. /\ \A t \in Callers : ~Calls(t, r)
          /\ wire["in"][r] = <<m>> /\ buffer["in"][r] = <<>> /\ fin["in"][r] = "no"
      BY <1>2, <1>5, <2>1, <2>3, <3>1, Sorts DEF Outbound
    <3>3. m \in Messages /\ m.kind \in AllTypes
      <4>1. type[r] \in AllTypes
        BY <2>3, Sorts DEF Waiting, Rejected
      <4>. QED  BY <4>1, Sorts, MessageTypes DEF Msg
    <3>4. final = FALSE /\ n > 0
      BY <1>1, <1>5, <3>1, <3>2
    <3> HIDE DEF m
    <3>5. n \in 0 .. Len(<<m>>)
      BY <1>5, <3>1, <3>2
    <3>6. <<m>>[1] = m /\ SubSeq(<<m>>, n + 1, Len(<<m>>)) = <<>> /\ <<>> \o SubSeq(<<m>>, 1, n) = <<m>>
      BY <3>3, <3>4, <3>5, OneMessage
    <3>7. IsRequest(s, q, n)
      BY <1>5, <3>1, <3>2, <3>3, <3>4, <3>6 DEF IsRequest
    <3>8. wire'["in"][r] = <<>> /\ buffer'["in"][r] = <<m>> /\ Reads("in", r)' /\ fin'["in"][r] = "no"
      BY <1>2, <1>5, <3>1, <3>2, <3>4, <3>6, <3>7
    <3>9. /\ wire'["out"][r] = wire["out"][r] /\ buffer'["out"][r] = buffer["out"][r]
          /\ fin'["out"][r] = fin["out"][r] /\ (Reads("out", r)' <=> Reads("out", r))
      BY <1>2, <3>1, Sorts
    <3>10. /\ r \notin byReqid'["in"] /\ \A t \in Answerers : ~Calls(t, r)'
           /\ wire'["out"][r] = <<>> /\ buffer'["out"][r] = <<>> /\ ~Reads("out", r)'
           /\ \A x \in Sides : fin'[x][r] = "no"
           /\ \A t \in Callers : ~Calls(t, r)'
      BY <1>1, <1>3, <2>3, <3>2, <3>8, <3>9, Sorts DEF Outbound, Sides
    <3>. QED  BY <1>1, <3>8, <3>10 DEF Outbound, m
  <2>4. ASSUME Waits(r), Returning(r) PROVE Returning(r)'
    <3> DEFINE m == Msg("REQUEST_ERROR", r)
    <3>0. m \in Messages
      BY Sorts, MessageTypes
    <3> HIDE DEF m
    <3>1. fin'["out"][r] # "no"
      BY <1>2, <2>4, Sorts DEF Returning
    <3>2. \A t \in Callers : ~Calls(t, r)'
      BY <1>3, <2>4, Sorts DEF Returning
    <3>3. CASE s = "in"
      <4>1. /\ wire'["out"][r] = wire["out"][r] /\ buffer'["out"][r] = buffer["out"][r]
            /\ (Reads("out", r)' <=> Reads("out", r))
        BY <1>2, <3>3, Sorts
      <4>. QED  BY <2>4, <3>1, <3>2, <4>1 DEF Returning
    <3>4. CASE s = "out"
      <4>1. wire["out"][r] = <<m>> /\ buffer["out"][r] = <<>>
        BY <1>2, <1>5, <2>4, <3>4 DEF Returning, m
      <4>2. n > 0
        BY <1>1, <1>5, <3>4, <4>1
      <4>3. n \in 0 .. Len(<<m>>)
        BY <1>5, <3>4, <4>1
      <4>4. SubSeq(<<m>>, n + 1, Len(<<m>>)) = <<>> /\ <<>> \o SubSeq(<<m>>, 1, n) = <<m>>
        BY <3>0, <4>2, <4>3, OneMessage
      <4>5. r \in streams["out"]
        BY <2>4 DEF Waits
      <4>6. wire'["out"][r] = <<>> /\ buffer'["out"][r] = <<m>> /\ Reads("out", r)'
        BY <1>2, <1>5, <3>4, <4>1, <4>4, <4>5
      <4>. QED  BY <3>1, <3>2, <4>6 DEF Returning, m
    <3>. QED  BY <3>3, <3>4 DEF Sides
  <2>5. Waiting(r) /\ Waits(r) => Waits(r)'
    BY <1>1, <1>2, <2>3, <2>4 DEF Waits
  <2>. QED  BY <1>0, <1>1, <2>2, <2>5, OwnStep
<1>. QED  BY <1>4, <1>5

LEMMA ViolationRejection ==
    ASSUME RejectInv, NEW s, NEW q, NEW m, Violation(s, q, m), NEW r \in Requests
    PROVE  Rejection(r)'
<1>1. /\ UNCHANGED <<type, state, streams, byReqid, requests, wire, fin, buffer, reading, job, told, left>>
  BY DEF Violation, requestVars, tableVars, wireVars, loopVars, historyVars
<1>2. \A x \in Sides : Reads(x, r)' <=> Reads(x, r)
  BY <1>1, ReadsSame
<1>3. Kept(r)
  BY <1>1, <1>2 DEF Kept, Calls
<1>. QED  BY <1>3, KeptKeeps DEF RejectInv

LEMMA FinishReadingRejection ==
    ASSUME RequestInv, RejectInv, Promise, NEW s \in Sides, NEW q \in Requests, FinishReading(s, q),
           NEW r \in Requests
    PROVE  Rejection(r)'
<1>0. TypeOK /\ Rejection(r)
  BY DEF RequestInv, RejectInv
<1>1. /\ reading[s] # None /\ q = reading[s].req /\ buffer[s][q] = <<>>
      /\ reading' = [reading EXCEPT ![s] = None]
      /\ streams' = streams \/ streams' = [streams EXCEPT ![s] = @ \ {q}]
      /\ byReqid' = byReqid \/ byReqid' = [byReqid EXCEPT ![s] = @ \ {q}]
      /\ UNCHANGED <<type, state, requests, wire, fin, buffer, job, told, left>>
  BY DEF FinishReading, tableVars, wireVars
<1>2. Reads(s, q)
  BY <1>1 DEF Reads
<1>3. /\ r \in byReqid'["in"] => r \in byReqid["in"]
      /\ r \in streams["out"] /\ (r # q \/ s # "out") => r \in streams'["out"]
      /\ reading'[s] = None /\ \A x \in Sides : x # s => reading'[x] = reading[x]
  <2>1. /\ streams \in [Sides -> SUBSET Requests] /\ byReqid \in [Sides -> SUBSET Requests]
        /\ reading \in [Sides -> Readings \cup {None}]
    BY <1>0 DEF TypeOK
  <2>2. streams'["out"] = streams["out"] \/ (s = "out" /\ streams'["out"] = streams["out"] \ {q})
    BY <1>1, <2>1, Sorts
  <2>3. byReqid'["in"] = byReqid["in"] \/ byReqid'["in"] = byReqid["in"] \ {q}
    BY <1>1, <2>1, Sorts
  <2>4. reading'[s] = None /\ \A x \in Sides : x # s => reading'[x] = reading[x]
    BY <1>1, <2>1
  <2>. QED  BY <2>2, <2>3, <2>4
<1>4. \A x \in Sides : x # s \/ r # q => (Reads(x, r)' <=> Reads(x, r))
  BY <1>1, <1>3 DEF Reads
<1>5. \A t \in Threads : Calls(t, r)' <=> Calls(t, r)
  BY <1>1 DEF Calls
<1>6. CASE r # q
  <2>1. Kept(r)
    BY <1>1, <1>3, <1>4, <1>5, <1>6, Sorts DEF Kept
  <2>. QED  BY <1>0, <2>1, KeptKeeps
<1>7. CASE r = q
  <2>1. type[r] # None
    BY <1>0, <1>2, <1>7 DEF Rejection, Blank
  <2>2. ASSUME Waits(r) PROVE Waits(r)'
    <3>1. s = "in"
      <4>1. s # "out"
        <5> SUFFICES ASSUME s = "out" PROVE FALSE
          OBVIOUS
        <5>1. Reads("out", r) /\ buffer["out"][r] # <<Msg("REQUEST_ERROR", r)>>
          BY <1>1, <1>2, <1>7
        <5>. QED  BY <2>2, <5>1 DEF Waits, Outbound, Returning
      <4>. QED  BY <4>1 DEF Sides
    <3>2. Reads("out", r)' <=> Reads("out", r)
      BY <1>4, <3>1, Sorts
    <3>3. Outbound(r) => Outbound(r)'
      <4> SUFFICES ASSUME Outbound(r) PROVE Outbound(r)'
        OBVIOUS
      <4>1. buffer["in"][r] = <<>>
        BY <1>1, <1>7, <3>1
      <4>2. /\ r \notin byReqid'["in"] /\ \A t \in Answerers : ~Calls(t, r)'
            /\ ~Reads("out", r)'
        BY <1>3, <1>5, <3>2, Sorts DEF Outbound
      <4> DEFINE m == Msg(type[r], r)
      <4>3. \/ /\ \E t \in Callers : Calls(t, r)' /\ job'[t] = Job(r, m, FALSE, {}) /\ \A u \in Callers : u # t => ~Calls(u, r)'
               /\ wire["in"][r] = <<>>
            \/ (\A t \in Callers : ~Calls(t, r)') /\ wire["in"][r] = <<m>>
        <5>1. buffer["in"][r] # <<m>>
          BY <4>1
        <5>2. \/ /\ \E t \in Callers : Calls(t, r) /\ job[t] = Job(r, m, FALSE, {}) /\ \A u \in Callers : u # t => ~Calls(u, r)
                 /\ wire["in"][r] = <<>>
              \/ (\A t \in Callers : ~Calls(t, r)) /\ wire["in"][r] = <<m>>
          BY <5>1 DEF Outbound
        <5>3. job' = job
          BY <1>1
        <5>. QED  BY <1>5, <5>2, <5>3, Sorts
      <4>. QED  BY <1>1, <4>1, <4>2, <4>3 DEF Outbound
    <3>4. Returning(r) => Returning(r)'
      BY <1>1, <1>5, <3>2, Sorts DEF Returning
    <3>. QED  BY <1>1, <1>3, <2>2, <3>1, <3>3, <3>4 DEF Waits
  <2>. QED  BY <1>0, <1>1, <2>1, <2>2, OwnStep
<1>. QED  BY <1>6, <1>7

\* A message of q is parsed.
LEMMA ParseChanges ==
    ASSUME TypeOK, NEW s \in Sides, NEW q \in Requests, NEW m, Parsing(s, q, m), Taken(s, q, m)
    PROVE  /\ \A x \in Sides, r \in Requests : x # s \/ r # q =>
                buffer'[x][r] = buffer[x][r] /\ (Reads(x, r)' <=> Reads(x, r))
           /\ Reads(s, q) /\ buffer[s][q] # <<>> /\ m = Head(buffer[s][q])
           /\ UNCHANGED <<type, job, left>> /\ \A t \in Threads, r \in Requests : Calls(t, r)' <=> Calls(t, r)
<1>1. /\ reading[s] # None /\ q = reading[s].req /\ buffer[s][q] # <<>> /\ m = Head(buffer[s][q])
      /\ UNCHANGED <<type, job, left>>
  BY DEF Parsing, Taken
<1>2. \A x \in Sides, r \in Requests : x # s \/ r # q => buffer'[x][r] = buffer[x][r]
  BY TakenBuffer
<1> DEFINE R == IF Size[m.kind] = reading[s].size THEN None ELSE [reading[s] EXCEPT !.size = Size[m.kind]]
<1>3. R = None \/ R.req = q
  <2>1. reading[s] \in Readings
    BY ParsingTypes
  <2>. QED  BY <1>1, <2>1 DEF Readings
<1>4. reading' = [reading EXCEPT ![s] = R]
  BY DEF Taken
<1> HIDE DEF R
<1>5. reading'[s] = R /\ \A x \in Sides : x # s => reading'[x] = reading[x]
  BY <1>4 DEF TypeOK
<1>6. \A x \in Sides, r \in Requests : x # s => (Reads(x, r)' <=> Reads(x, r))
  BY <1>5 DEF Reads
<1>7. \A r \in Requests : r # q => ~Reads(s, r)' /\ ~Reads(s, r)
  BY <1>1, <1>3, <1>5 DEF Reads
<1>8. Reads(s, q) /\ \A t \in Threads, r \in Requests : Calls(t, r)' <=> Calls(t, r)
  BY <1>1 DEF Reads, Calls
<1>. QED  BY <1>1, <1>2, <1>6, <1>7, <1>8

\* The requester parses: it hears of the rejection it waits for.
LEMMA ParseOutRejection ==
    ASSUME RequestInv, RejectInv, Promise, NEW q \in Requests, NEW m, ParseOut(q, m), NEW r \in Requests
    PROVE  Rejection(r)'
<1>0. TypeOK /\ Rejection(r) /\ updateId[q] \in Updates \cup {None} /\ requests \subseteq Ids
  BY DEF RequestInv, RejectInv, TypeOK
<1>1. /\ Parsing("out", q, m) /\ Taken("out", q, m)
      /\ UNCHANGED <<streams, byReqid, wire, fin>>
  BY DEF ParseOut, ParseAnswer, ParseTypedOk, ParseNotice, ParseSubscriptionDone, wireVars
<1>2. /\ \A x \in Sides, p \in Requests : x # "out" \/ p # q =>
           buffer'[x][p] = buffer[x][p] /\ (Reads(x, p)' <=> Reads(x, p))
      /\ Reads("out", q) /\ buffer["out"][q] # <<>> /\ m = Head(buffer["out"][q])
      /\ UNCHANGED <<type, job, left>> /\ \A t \in Threads, p \in Requests : Calls(t, p)' <=> Calls(t, p)
  BY <1>0, <1>1, Sorts, ParseChanges
<1>3. CASE r # q
  <2>1. state'["out"][r] = state["out"][r]
    <3>1. state' = state \/ \E st \in States : state' = [state EXCEPT !["out"][q] = st]
      <4>1. CASE ParseAnswer(q, m)
        <5> DEFINE st == IF m.kind = "REQUEST_OK" \/ state["out"][q] = "UPDATE_SENT" THEN "OK" ELSE "ERROR"
        <5>1. state' = [state EXCEPT !["out"][q] = st]
          BY <4>1 DEF ParseAnswer
        <5>2. st \in States
          BY DEF States
        <5>. QED  BY <5>1, <5>2
      <4>2. CASE ParseTypedOk(q, m)
        BY <4>2 DEF ParseTypedOk, States
      <4>3. CASE ParseNotice(q, m)
        BY <4>3 DEF ParseNotice
      <4>4. CASE ParseSubscriptionDone(q, m)
        BY <4>4 DEF ParseSubscriptionDone, States
      <4>. QED  BY <4>1, <4>2, <4>3, <4>4 DEF ParseOut
    <3>. QED  BY <1>0, <1>3, <3>1, OutSet
  <2>2. told'[r] = told[r] /\ (r \in requests => r \in requests')
    <3>1. CASE ParseAnswer(q, m)
      <4> DEFINE id == AnsweredId(q)
                 a == IF m.kind = "REQUEST_OK" THEN "OK" ELSE "ERROR"
      <4>1. r # id
        BY <1>0, <1>3, Sorts DEF AnsweredId
      <4>2. told' = told \/ told' = [told EXCEPT ![id] = Append(@, a)]
        BY <3>1 DEF ParseAnswer
      <4>3. requests' = requests \ {id}
        BY <3>1 DEF ParseAnswer
      <4> HIDE DEF id, a
      <4>4. told'[r] = told[r]
        <5>1. CASE told' = told
          BY <5>1
        <5>2. CASE told' = [told EXCEPT ![id] = Append(@, a)]
          <6>1. r \in DOMAIN told
            BY <1>0, Sorts DEF TypeOK
          <6>. QED  BY <4>1, <5>2, <6>1
        <5>. QED  BY <4>2, <5>1, <5>2
      <4>5. r \in requests => r \in requests'
        BY <4>1, <4>3
      <4>. QED  BY <4>4, <4>5
    <3>2. CASE ParseTypedOk(q, m)
      BY <1>3, <3>2 DEF ParseTypedOk, tableVars
    <3>3. CASE ParseNotice(q, m) \/ ParseSubscriptionDone(q, m)
      BY <3>3 DEF ParseNotice, ParseSubscriptionDone, tableVars
    <3>. QED  BY <3>1, <3>2, <3>3 DEF ParseOut
  <2>3. Kept(r)
    BY <1>1, <1>2, <1>3, <2>1, <2>2, Sorts DEF Kept
  <2>. QED  BY <1>0, <2>3, KeptKeeps
<1>4. CASE r = q
  <2>1. type[r] # None
    BY <1>0, <1>2, <1>4, Sorts DEF Rejection, Blank
  <2>2. ASSUME Waiting(r), Waits(r) PROVE told'[r] = <<"ERROR">>
    <3>1. buffer["out"][r] = <<Msg("REQUEST_ERROR", r)>>
      BY <1>2, <1>4, <2>2 DEF Waits, Outbound, Returning
    <3>2. m.kind = "REQUEST_ERROR"
      BY <1>2, <1>4, <3>1 DEF Msg
    <3>3. ParseAnswer(q, m)
      BY <3>2 DEF ParseOut, TypedOks, Notes, ParseSubscriptionDone
    <3>4. AnsweredId(q) = q /\ q \in requests /\ told[q] = <<>>
      BY <1>0, <1>4, <2>2 DEF Waits, AnsweredId, Rejection
    <3>5. told' = [told EXCEPT ![q] = Append(@, "ERROR")]
      BY <3>2, <3>3, <3>4 DEF ParseAnswer
    <3>6. told'[q] = Append(<<>>, "ERROR")
      BY <1>0, <3>4, <3>5, Sorts DEF TypeOK
    <3>. QED  BY <1>4, <3>6
  <2>3. Waiting(r) /\ Waits(r) => ~Waiting(r)'
    BY <2>2 DEF Waiting
  <2>. QED  BY <1>0, <1>2, <2>1, <2>3, OwnStep
<1>. QED  BY <1>3, <1>4

\* The responder parses: without a callback, it rejects.
LEMMA ParseInRejection ==
    ASSUME RequestInv, RejectInv, Promise, NEW q \in Requests, NEW m, ParseIn(q, m), NEW r \in Requests
    PROVE  Rejection(r)'
<1> DEFINE e == Msg("REQUEST_ERROR", q)
<1>0. TypeOK /\ Rejection(r) /\ e \in Messages /\ Peer("in") = "out"
  BY Sorts, MessageTypes DEF RequestInv, RejectInv, Peer
<1> HIDE DEF e
<1>1. /\ Parsing("in", q, m) /\ Taken("in", q, m)
      /\ Send("in", q, e, TRUE) \/ UNCHANGED wireVars
      /\ UNCHANGED <<told, requests>>
  BY DEF ParseIn, ParseHandled, ParseUnhandled, ParseRequestUpdate, ParsePublishDone, tableVars, e
<1>2. /\ \A x \in Sides, p \in Requests : x # "in" \/ p # q =>
           buffer'[x][p] = buffer[x][p] /\ (Reads(x, p)' <=> Reads(x, p))
      /\ Reads("in", q) /\ buffer["in"][q] # <<>> /\ m = Head(buffer["in"][q])
      /\ UNCHANGED <<type, job, left>> /\ \A t \in Threads, p \in Requests : Calls(t, p)' <=> Calls(t, p)
  BY <1>0, <1>1, Sorts, ParseChanges
<1>3. /\ \A x \in Sides, p \in Requests : x # "out" \/ p # q =>
           wire'[x][p] = wire[x][p] /\ fin'[x][p] = fin[x][p]
      /\ fin["out"][q] # "no" => UNCHANGED <<wire, fin>>
      /\ fin["out"][q] = "no" /\ Send("in", q, e, TRUE) =>
           wire'["out"][q] = Append(wire["out"][q], e) /\ fin'["out"][q] = "sent"
  <2>1. PICK l \in BOOLEAN : l = TRUE
    OBVIOUS
  <2>2. Send("in", q, e, l) \/ UNCHANGED wireVars
    BY <1>1, <2>1
  <2>3. /\ \A x \in Sides, p \in Requests : x # Peer("in") \/ p # q =>
             wire'[x][p] = wire[x][p] /\ fin'[x][p] = fin[x][p]
        /\ fin[Peer("in")][q] # "no" => UNCHANGED <<wire, fin>>
        /\ fin[Peer("in")][q] = "no" /\ Send("in", q, e, l) =>
             /\ wire'[Peer("in")][q] = Append(wire[Peer("in")][q], e)
             /\ fin'[Peer("in")][q] = IF l THEN "sent" ELSE "no"
    BY <1>0, <2>2, Sorts, SendElse
  <2>. QED  BY <1>0, <2>1, <2>3
<1>4. /\ state'["out"] = state["out"] /\ streams'["out"] = streams["out"]
      /\ \A p \in Requests : p # q /\ p \in byReqid'["in"] => p \in byReqid["in"]
  <2>1. \E st \in States : state' = [state EXCEPT !["in"][q] = st]
    BY DEF ParseIn, ParseHandled, ParseUnhandled, ParseRequestUpdate, ParsePublishDone, States
  <2>2. state'["out"] = state["out"]
    BY <1>0, <2>1, InSet
  <2>3. streams' = streams \/ streams' = [streams EXCEPT !["in"] = @ \ {q}]
    BY DEF ParseIn, ParseHandled, ParseUnhandled, ParseRequestUpdate, ParsePublishDone
  <2>4. byReqid' = byReqid \/ byReqid' = [byReqid EXCEPT !["in"] = @ \cup {q}]
    BY DEF ParseIn, ParseHandled, ParseUnhandled, ParseRequestUpdate, ParsePublishDone
  <2>5. streams \in [Sides -> SUBSET Requests] /\ byReqid \in [Sides -> SUBSET Requests]
    BY <1>0 DEF TypeOK
  <2>6. streams'["out"] = streams["out"]
    BY <2>3, <2>5, Sorts
  <2>7. byReqid'["in"] \subseteq byReqid["in"] \cup {q}
    BY <2>4, <2>5, Sorts
  <2>. QED  BY <2>2, <2>6, <2>7
<1>5. CASE r # q
  <2>1. Kept(r)
    BY <1>1, <1>2, <1>3, <1>4, <1>5, Sorts DEF Kept
  <2>. QED  BY <1>0, <2>1, KeptKeeps
<1>6. CASE r = q
  <2>1. type[r] # None
    BY <1>0, <1>2, <1>6, Sorts DEF Rejection, Blank
  <2>2. /\ buffer'["out"][r] = buffer["out"][r] /\ (Reads("out", r)' <=> Reads("out", r))
        /\ \A t \in Callers : Calls(t, r)' <=> Calls(t, r)
    BY <1>2, Sorts
  <2>3. ASSUME Waiting(r), Outbound(r) PROVE Returning(r)'
    <3> DEFINE k == Msg(type[r], r)
    <3>1. /\ \A t \in Callers : ~Calls(t, r)
          /\ buffer["in"][r] = <<k>> /\ fin["out"][r] = "no"
          /\ wire["out"][r] = <<>> /\ buffer["out"][r] = <<>> /\ ~Reads("out", r)
      BY <1>2, <1>6, <2>3, Sorts DEF Outbound
    <3>2. m.kind = type[r]
      BY <1>2, <1>6, <3>1 DEF Msg
    <3>3. m.kind \in AllTypes /\ m.kind \notin Handled /\ m.kind # "PUBLISH" /\ m.kind # "TRACK_STATUS"
      BY <2>3, <3>2, Sorts DEF Waiting, Rejected, Unrejected
    <3>4. ParseUnhandled(q, m)
      BY <3>3 DEF ParseIn, ParseHandled, Rejectable, Rejects, ParseRequestUpdate, ParsePublishDone, AllTypes
    <3>5. Send("in", q, e, TRUE)
      BY <3>3, <3>4 DEF ParseUnhandled, ErrorOnControl, e
    <3>6. wire'["out"][r] = Append(<<>>, e) /\ fin'["out"][r] = "sent"
      BY <1>3, <1>6, <3>1, <3>5
    <3>7. wire'["out"][r] = <<e>>
      BY <3>6
    <3>. QED  BY <1>6, <2>2, <3>1, <3>6, <3>7 DEF Returning, e
  <2>4. ASSUME Returning(r) PROVE Returning(r)'
    <3>1. UNCHANGED <<wire, fin>>
      BY <1>3, <1>6, <2>4 DEF Returning
    <3>. QED  BY <2>2, <2>4, <3>1 DEF Returning
  <2>5. Waiting(r) /\ Waits(r) => Waits(r)'
    BY <1>1, <1>4, <2>3, <2>4 DEF Waits
  <2>. QED  BY <1>0, <1>1, <1>2, <2>1, <2>5, OwnStep
<1>. QED  BY <1>5, <1>6

LEMMA RejectionStep ==
    ASSUME RequestInv, RejectInv, Promise, Step
    PROVE  RejectInv'
<1> SUFFICES ASSUME NEW r \in Requests PROVE Rejection(r)'
  BY DEF RejectInv
<1>1. ASSUME NEW t \in Callers, NEW q \in Requests, Call(t, q) PROVE Rejection(r)'
  <2>1. t \in Threads
    BY Sorts
  <2>. QED  BY <1>1, <2>1, RequestRejection, CancelRejection, UpdateRejection, PublishDoneRejection DEF Call
<1>2. ASSUME NEW t \in Answerers, NEW q \in Requests, CallBack(t, q) PROVE Rejection(r)'
  <2>1. t \in Threads
    BY Sorts
  <2>. QED  BY <1>2, <2>1, AnswerRejection, LookupRejection, PublishDoneRejection DEF CallBack
<1>3. ASSUME NEW t \in Threads, SendJob(t) \/ DropJob(t) PROVE Rejection(r)'
  BY <1>3, SendJobRejection, DropJobRejection
<1>4. ASSUME NEW s \in Sides, NEW q \in Requests,
             \/ \E n \in 0 .. Len(wire[s][q]), final \in BOOLEAN : Arrive(s, q, n, final)
             \/ \E m \in Heads(s, q) : Violation(s, q, m)
             \/ FinishReading(s, q)
      PROVE  Rejection(r)'
  BY <1>4, ArriveRejection, ViolationRejection, FinishReadingRejection
<1>5. ASSUME NEW q \in Requests, NEW m, ParseOut(q, m) PROVE Rejection(r)'
  BY <1>5, ParseOutRejection
<1>6. ASSUME NEW q \in Requests, NEW m, ParseIn(q, m) PROVE Rejection(r)'
  BY <1>6, ParseInRejection
<1>. QED  BY <1>1, <1>2, <1>3, <1>4, <1>5, <1>6 DEF Step

LEMMA RejectStutters == ASSUME RejectInv, UNCHANGED vars PROVE RejectInv'
<1> SUFFICES ASSUME NEW r \in Requests PROVE Rejection(r)'
  BY DEF RejectInv
<1>1. UNCHANGED <<type, state, streams, byReqid, requests, wire, fin, buffer, reading, job, told, left>>
  BY DEF vars, requestVars, tableVars, wireVars, loopVars, historyVars
<1>2. \A x \in Sides : Reads(x, r)' <=> Reads(x, r)
  BY <1>1, ReadsSame
<1>3. Kept(r)
  BY <1>1, <1>2 DEF Kept, Calls
<1>. QED  BY <1>3, KeptKeeps DEF RejectInv

LEMMA RejectInit == ASSUME Init PROVE RejectInv
<1> SUFFICES ASSUME NEW r \in Requests PROVE Rejection(r)
  BY DEF RejectInv
<1>1. type[r] = None /\ told[r] = <<>> /\ r \notin byReqid["in"]
  BY Sorts DEF Init
<1>2. \A t \in Threads : ~Calls(t, r)
  BY DEF Init, Calls
<1>3. \A s \in Sides : wire[s][r] = <<>> /\ buffer[s][r] = <<>> /\ ~Reads(s, r) /\ fin[s][r] = "no"
  BY DEF Init, Reads
<1>. QED  BY <1>1, <1>2, <1>3, Sorts DEF Rejection, Blank, Waiting, Rejected

\* When nothing is on its way no request waits for the library's rejection.
RejectionsHeard ==
    Quiet => \A r \in Requests \ left : type[r] \in Rejected => told[r] = <<"ERROR">>

LEMMA NobodyWaits == ASSUME RejectInv PROVE RejectionsHeard
<1> SUFFICES ASSUME Quiet, NEW r \in Requests \ left, type[r] \in Rejected
             PROVE  told[r] = <<"ERROR">>
  BY DEF RejectionsHeard
<1>1. /\ \A t \in Threads : ~Calls(t, r)
      /\ \A s \in Sides : ~Reads(s, r) /\ wire[s][r] = <<>>
  BY DEF Quiet, Calls, Reads
<1>2. ~Outbound(r)
  <2>1. wire["in"][r] # <<Msg(type[r], r)>>
    BY <1>1, Sorts
  <2>. QED  BY <1>1, <2>1, Sorts DEF Outbound
<1>3. ~Returning(r)
  <2>1. wire["out"][r] # <<Msg("REQUEST_ERROR", r)>>
    BY <1>1, Sorts
  <2>. QED  BY <1>1, <2>1, Sorts DEF Returning
<1>. QED  BY <1>2, <1>3 DEF RejectInv, Rejection, Waiting, Waits

\* The requester of what the library rejects is told of the rejection once
\* nothing is on its way, unless it gave the request up: neither the request nor
\* the answer is lost between the call, the wire and the two loop threads.
THEOREM RejectionsAreHeard == Spec => []RejectionsHeard
<1>1. Init => RequestInv /\ RejectInv
  BY InitStep, RejectInit
<1>2. RequestInv /\ RejectInv /\ [Next]_vars => RequestInv' /\ RejectInv'
  <2>1. ASSUME RequestInv, RejectInv, Next PROVE RequestInv' /\ RejectInv'
    <3>1. Step
      BY <2>1, NextSteps
    <3>2. RequestInv' /\ Promise
      BY <2>1, <3>1, StepKeeps
    <3>. QED  BY <2>1, <3>1, <3>2, RejectionStep
  <2>. QED  BY <2>1, Stutters, RejectStutters
<1>3. RejectInv => RejectionsHeard
  BY NobodyWaits
<1>. QED  BY <1>1, <1>2, <1>3, PTL DEF Spec

\* So no request without a callback is left waiting, where the application has
\* the two callbacks that the library does not reject for.
THEOREM UnhandledTold ==
    ASSUME Types \cap Unrejected \subseteq Handled
    PROVE  Spec => []UnhandledRejected
<1>1. Types \ Handled = Rejected
  BY DEF Rejected
<1>2. RejectionsHeard => UnhandledRejected
  BY <1>1 DEF RejectionsHeard, UnhandledRejected
<1>. QED  BY <1>2, RejectionsAreHeard, PTL

=============================================================================
