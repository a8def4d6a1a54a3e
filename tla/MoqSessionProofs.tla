--------------------------- MODULE MoqSessionProofs ---------------------------
(***************************************************************************)
(* What arrives in a MoQ session is parsed in the order it was sent,        *)
(* whatever was held back meanwhile, for every number of threads, calls and *)
(* versions; and no end refuses what the API of the other end wrote, nor is *)
(* left with an old limit on its requests, for every number of calls.       *)
(***************************************************************************)
EXTENDS MoqSession, SequenceTheorems, TLAPS

LEMMA TheEnds ==
    /\ \A e \in Ends : Peer(e) \in Ends /\ Peer(e) # e /\ Peer(Peer(e)) = e
    /\ \A e, f \in Ends : f # e => f = Peer(e)
BY DEF Ends, Peer

LEMMA TheStreams ==
    /\ \A e \in Ends : \A k \in 0 .. MaxCalls[e] + 1 : <<e, k>> \in Streams
    /\ \A e \in Ends : DataStream(e) \in Streams /\ Control(e) \in Streams /\ RemoteControl(e) \in Streams
    /\ \A e \in Ends : Control(e) # DataStream(e) /\ Control(e) # DataStream(Peer(e))
    /\ \A e \in Ends : MaxCalls[e] \in Nat
<1>1. \A e \in Ends : MaxCalls[e] \in Nat
  BY SessionAssumption
<1>2. ASSUME NEW e \in Ends, NEW k \in 0 .. MaxCalls[e] + 1 PROVE <<e, k>> \in Streams
  BY DEF Streams
<1>3. "client" \in Ends
  BY DEF Ends
<1>4. ASSUME NEW e \in Ends
      PROVE  /\ DataStream(e) \in Streams /\ Control(e) \in Streams /\ RemoteControl(e) \in Streams
             /\ Control(e) # DataStream(e) /\ Control(e) # DataStream(Peer(e))
  <2>1. MaxCalls[e] + 1 \in 0 .. MaxCalls[e] + 1 /\ MaxCalls[e] + 1 # 0
    BY <1>1
  <2>2. \A f \in Ends : 0 \in 0 .. MaxCalls[f] + 1 /\ MaxCalls[f] + 1 # 0
    BY <1>1
  <2>3. \A f \in Ends : Control(f) \in Streams
    BY <1>2, <1>3, <2>2 DEF Control
  <2>. QED  BY <1>2, <2>1, <2>2, <2>3, TheEnds DEF DataStream, RemoteControl, Control
<1>. QED  BY <1>1, <1>2, <1>4

\* A function of ends and streams in which one place has changed.
Changed(F, G, e, s, v, S) ==
    /\ G \in [Ends -> [Streams -> S]]
    /\ G[e][s] = v
    /\ \A r \in Streams : r # s => G[e][r] = F[e][r]
    /\ \A f \in Ends : f # e => G[f] = F[f]

LEMMA OneChanged ==
    ASSUME NEW S, NEW F \in [Ends -> [Streams -> S]], NEW e \in Ends, NEW s \in Streams, NEW v \in S
    PROVE  Changed(F, [F EXCEPT ![e][s] = v], e, s, v, S)
<1> DEFINE R == [F[e] EXCEPT ![s] = v]
           G == [F EXCEPT ![e][s] = v]
<1>1. R \in [Streams -> S] /\ R[s] = v /\ \A r \in Streams : r # s => R[r] = F[e][r]
  OBVIOUS
<1>2. G = [F EXCEPT ![e] = R]
  OBVIOUS
<1> HIDE DEF R
<1>3. G \in [Ends -> [Streams -> S]] /\ G[e] = R /\ \A f \in Ends : f # e => G[f] = F[f]
  BY <1>1, <1>2
<1> HIDE DEF G
<1>4. Changed(F, G, e, s, v, S)
  BY <1>1, <1>3 DEF Changed
<1>. QED  BY <1>4 DEF G

-----------------------------------------------------------------------------
(* The way of the data of a stream.                                          *)

Types == {"SETUP", "SERVER_SETUP", "REQUEST", "MAX_REQUEST_ID", "REQUESTS_BLOCKED", "GOAWAY", "OBJECT"}
Msgs == [type : Types, value : Nat]
Pieces == Msgs \X {1, 2}

(* Of the data w that was written the part p has been parsed, the part b of  *)
(* which is in the buffer; while the session runs the rest is in the table   *)
(* that is being replayed, in the table of what is held back, and on its     *)
(* way, in this order.                                                       *)
Kept(w, p, b, st, pe, wi, run) ==
    /\ w \in Seq(Pieces) /\ p \in Seq(Pieces) /\ b \in Seq(Pieces)
    /\ st \in Seq(Pieces) /\ pe \in Seq(Pieces) /\ wi \in Seq(Pieces)
    /\ Len(b) <= Len(p)
    /\ \E z \in Seq(Pieces) : w = p \o z
    /\ run => w = p \o (st \o (pe \o wi))

Joins(a, b, c) == (a \o b) \o c = a \o (b \o c)

LEMMA Assoc == \A a, b, c \in Seq(Pieces) : Joins(a, b, c)
<1> SUFFICES ASSUME NEW a \in Seq(Pieces), NEW b \in Seq(Pieces), NEW c \in Seq(Pieces)
             PROVE  (a \o b) \o c = a \o (b \o c)
  BY DEF Joins
<1>. QED  BY ConcatAssociative

LEMMA Cat ==
    /\ \A a, b \in Seq(Pieces) : a \o b \in Seq(Pieces) /\ Len(a \o b) = Len(a) + Len(b)
    /\ \A a \in Seq(Pieces) : <<>> \o a = a /\ Len(a) \in Nat
    /\ <<>> \in Seq(Pieces)
<1>1. ASSUME NEW a \in Seq(Pieces), NEW b \in Seq(Pieces)
      PROVE  a \o b \in Seq(Pieces) /\ Len(a \o b) = Len(a) + Len(b)
  BY ConcatProperties
<1>2. ASSUME NEW a \in Seq(Pieces) PROVE <<>> \o a = a /\ Len(a) \in Nat
  BY ConcatEmptySeq, LenProperties
<1>. QED  BY <1>1, <1>2

LEMMA KeptSent ==
    ASSUME NEW w, NEW p, NEW b, NEW st, NEW pe, NEW wi, NEW run, NEW d \in Seq(Pieces),
           Kept(w, p, b, st, pe, wi, run)
    PROVE  Kept(w \o d, p, b, st, pe, wi \o d, run)
<1>1. /\ w \in Seq(Pieces) /\ p \in Seq(Pieces) /\ b \in Seq(Pieces)
      /\ st \in Seq(Pieces) /\ pe \in Seq(Pieces) /\ wi \in Seq(Pieces) /\ d \in Seq(Pieces)
      /\ Len(b) <= Len(p) /\ (run => w = p \o (st \o (pe \o wi)))
  BY DEF Kept
<1>2. PICK z \in Seq(Pieces) : w = p \o z
  BY DEF Kept
<1>3. w \o d \in Seq(Pieces) /\ wi \o d \in Seq(Pieces) /\ z \o d \in Seq(Pieces) /\ pe \o wi \in Seq(Pieces)
      /\ st \o (pe \o wi) \in Seq(Pieces)
  BY <1>1, <1>2, Cat
<1>4. w \o d = p \o (z \o d)
  <2>1. Joins(p, z, d)
    BY <1>1, <1>2, Assoc
  <2>. QED  BY <1>2, <2>1 DEF Joins
<1>5. run => w \o d = p \o (st \o (pe \o (wi \o d)))
  <2>1. Joins(p, st \o (pe \o wi), d) /\ Joins(st, pe \o wi, d) /\ Joins(pe, wi, d)
    BY <1>1, <1>3, Assoc
  <2>2. run => w = p \o (st \o (pe \o wi))
    BY <1>1
  <2>. QED  BY ONLY <2>1, <2>2 DEF Joins
<1>. QED  BY <1>1, <1>3, <1>4, <1>5 DEF Kept

LEMMA KeptParsed ==
    ASSUME NEW w, NEW p, NEW b, NEW wi, NEW d \in Seq(Pieces), NEW b2 \in {b, b \o d}, NEW run,
           Kept(w, p, b, <<>>, <<>>, d \o wi, TRUE), wi \in Seq(Pieces)
    PROVE  Kept(w, p \o d, b2, <<>>, <<>>, wi, run)
<1>1. /\ w \in Seq(Pieces) /\ p \in Seq(Pieces) /\ b \in Seq(Pieces) /\ wi \in Seq(Pieces) /\ d \in Seq(Pieces)
      /\ Len(b) <= Len(p) /\ w = p \o (<<>> \o (<<>> \o (d \o wi)))
  BY DEF Kept
<1>2. d \o wi \in Seq(Pieces) /\ p \o d \in Seq(Pieces) /\ b2 \in Seq(Pieces) /\ <<>> \in Seq(Pieces)
      /\ Len(p \o d) = Len(p) + Len(d) /\ Len(b \o d) = Len(b) + Len(d)
  BY <1>1, Cat
<1>3. <<>> \o (d \o wi) = d \o wi /\ <<>> \o wi = wi
  BY <1>1, <1>2, Cat
<1>4. p \o (d \o wi) = (p \o d) \o wi
  <2>1. Joins(p, d, wi)
    BY <1>1, Assoc
  <2>. QED  BY <2>1 DEF Joins
<1>5. w = (p \o d) \o (<<>> \o (<<>> \o wi)) /\ w = (p \o d) \o wi
  BY <1>1, <1>3, <1>4
<1>6. Len(b2) <= Len(p \o d)
  <2>1. Len(b) \in Nat /\ Len(p) \in Nat /\ Len(d) \in Nat
    BY <1>1, LenProperties
  <2>. QED  BY <1>1, <1>2, <2>1
<1>. QED  BY <1>1, <1>2, <1>5, <1>6 DEF Kept

\* What was in the table is parsed, or held back again.
LEMMA KeptReplayed ==
    ASSUME NEW w, NEW p, NEW b, NEW st, NEW wi, NEW run,
           Kept(w, p, b, st, <<>>, wi, TRUE), NEW b2 \in {b, b \o st}
    PROVE  /\ Kept(w, p \o st, b2, <<>>, <<>>, wi, run)
           /\ Kept(w, p, b, <<>>, <<>> \o st, wi, run)
<1>1. /\ w \in Seq(Pieces) /\ p \in Seq(Pieces) /\ b \in Seq(Pieces) /\ wi \in Seq(Pieces) /\ st \in Seq(Pieces)
      /\ Len(b) <= Len(p) /\ w = p \o (st \o (<<>> \o wi)) /\ <<>> \in Seq(Pieces)
  BY DEF Kept
<1>2. <<>> \o wi = wi /\ st \o wi \in Seq(Pieces) /\ <<>> \o st = st
  BY <1>1, Cat
<1>3. w = p \o (st \o wi) /\ <<>> \o (st \o wi) = st \o wi
  BY <1>1, <1>2, Cat
<1>4. Kept(w, p, b, <<>>, <<>>, st \o wi, TRUE)
  BY <1>1, <1>2, <1>3 DEF Kept
<1>5. Kept(w, p \o st, b2, <<>>, <<>>, wi, run)
  BY ONLY <1>1, <1>4, b2 \in {b, b \o st}, KeptParsed
<1>6. Kept(w, p, b, <<>>, st, wi, run)
  BY <1>1, <1>2, <1>3 DEF Kept
<1>. QED  BY <1>2, <1>5, <1>6

\* What arrives is held back, and what is held back is taken for a replay.
LEMMA KeptTracked ==
    ASSUME NEW w, NEW p, NEW b, NEW pe, NEW wi \in Seq(Pieces), NEW d \in Seq(Pieces), NEW run,
           Kept(w, p, b, <<>>, pe, d \o wi, TRUE)
    PROVE  Kept(w, p, b, <<>>, pe \o d, wi, run)
<1>1. /\ w \in Seq(Pieces) /\ p \in Seq(Pieces) /\ b \in Seq(Pieces) /\ pe \in Seq(Pieces)
      /\ wi \in Seq(Pieces) /\ d \in Seq(Pieces) /\ <<>> \in Seq(Pieces)
      /\ Len(b) <= Len(p) /\ w = p \o (<<>> \o (pe \o (d \o wi)))
  BY DEF Kept
<1>2. pe \o (d \o wi) = (pe \o d) \o wi
  <2>1. Joins(pe, d, wi)
    BY <1>1, Assoc
  <2>. QED  BY <2>1 DEF Joins
<1>3. pe \o d \in Seq(Pieces) /\ (pe \o d) \o wi \in Seq(Pieces)
  BY <1>1, Cat
<1>4. \E z \in Seq(Pieces) : w = p \o z
  BY DEF Kept
<1>. QED  BY <1>1, <1>2, <1>3, <1>4 DEF Kept

LEMMA KeptStolen ==
    ASSUME NEW w, NEW p, NEW b, NEW pe, NEW wi, NEW run, Kept(w, p, b, <<>>, pe, wi, run)
    PROVE  Kept(w, p, b, pe, <<>>, wi, run)
<1>1. /\ w \in Seq(Pieces) /\ p \in Seq(Pieces) /\ b \in Seq(Pieces) /\ pe \in Seq(Pieces)
      /\ wi \in Seq(Pieces) /\ <<>> \in Seq(Pieces) /\ pe \o wi \in Seq(Pieces)
  BY Cat DEF Kept
<1>2. <<>> \o (pe \o wi) = pe \o wi /\ <<>> \o wi = wi
  BY <1>1, Cat
<1>. QED  BY <1>1, <1>2 DEF Kept

\* A message is taken from the buffer.
LEMMA KeptConsumed ==
    ASSUME NEW w, NEW p, NEW b, NEW st, NEW pe, NEW wi, NEW run, NEW run2, run2 => run,
           Kept(w, p, b, st, pe, wi, run), Len(b) >= 2
    PROVE  Kept(w, p, Tail(Tail(b)), st, pe, wi, run2)
<1>1. b \in Seq(Pieces) /\ p \in Seq(Pieces) /\ Len(b) <= Len(p)
  BY DEF Kept
<1>2. b # <<>> /\ Tail(b) \in Seq(Pieces) /\ Len(Tail(b)) = Len(b) - 1 /\ Len(b) \in Nat /\ Len(p) \in Nat
  BY <1>1, HeadTailProperties, LenProperties, EmptySeq
<1>3. Tail(b) # <<>> /\ Tail(Tail(b)) \in Seq(Pieces) /\ Len(Tail(Tail(b))) = Len(b) - 2
  <2>1. Len(Tail(b)) # 0
    BY <1>2
  <2>2. Tail(b) # <<>>
    BY <1>2, <2>1, EmptySeq
  <2>3. Tail(Tail(b)) \in Seq(Pieces) /\ Len(Tail(Tail(b))) = Len(Tail(b)) - 1
    BY <1>2, <2>2, HeadTailProperties
  <2>. QED  BY <1>2, <2>2, <2>3
<1>4. Len(Tail(Tail(b))) <= Len(p)
  BY <1>1, <1>2, <1>3
<1>. QED  BY <1>3, <1>4 DEF Kept

LEMMA KeptRunning ==
    ASSUME NEW w, NEW p, NEW b, NEW st, NEW pe, NEW wi, NEW run, Kept(w, p, b, st, pe, wi, TRUE)
    PROVE  Kept(w, p, b, st, pe, wi, run)
BY DEF Kept

\* Once the session is over nothing is said of what was not parsed.
LEMMA KeptDown ==
    ASSUME NEW w, NEW p, NEW b, NEW st, NEW pe, NEW wi, NEW run,
           Kept(w, p, b, st, pe, wi, run), NEW st2 \in Seq(Pieces), NEW pe2 \in Seq(Pieces), NEW wi2 \in Seq(Pieces)
    PROVE  Kept(w, p, b, st2, pe2, wi2, FALSE)
BY DEF Kept

-----------------------------------------------------------------------------
(* The invariant.                                                            *)

Stages == {"idle", "opening", "replay", "parsing", "accepted"}
Tables == [Ends -> [Streams -> Seq(Pieces)]]

SessionTypes ==
    /\ version \in Versions
    /\ moq \in [Ends -> Context]
    /\ pending \in Tables /\ stolen \in Tables /\ buffer \in Tables
    /\ wire \in Tables /\ written \in Tables /\ parsed \in Tables
    /\ loop \in [Ends -> [pc : Stages, stream : Streams]]
    /\ pc \in [Ends -> [Threads -> [pc : {"idle", "has_id", "reserved", "raised"}, value : Nat]]]
    /\ requested \in [Ends -> SUBSET Nat]
    /\ closed \in [Ends -> {"open", "rejected", "protocol_violation", "invalid_request_id"}]

Flow(e) ==
    \A s \in Streams : Kept(written[e][s], parsed[e][s], buffer[e][s], stolen[e][s], pending[e][s],
                            wire[e][s], Running(e))

\* The data starts with the whole SETUP.
SetupHeads(q) ==
    /\ Len(q) >= 2 /\ q[1][1].type = "SETUP"
    /\ q[1][2] = 1 /\ q[2][2] = 2 /\ q[2][1] = q[1][1]

\* The loop thread is about to parse the SETUP, or has just done it: what is held back is next.
Opening(e) ==
    /\ loop[e].pc = "parsing" /\ loop[e].stream = RemoteControl(e)
    /\ moq[e].check \/ SetupHeads(buffer[e][RemoteControl(e)])

\* What is held back, when, and of which streams.
Held(e) ==
    /\ loop[e].pc \in {"idle", "opening"} => stolen[e] = Empty
    /\ \A s \in Streams : stolen[e][s] # <<>> => pending[e][s] = <<>>
    /\ \A s \in Streams : (stolen[e][s] # <<>> \/ pending[e][s] # <<>>) => version >= 17 /\ Bidirectional(s)
    /\ (version >= 17 /\ loop[e].pc = "parsing" /\ loop[e].stream = RemoteControl(e)) => stolen[e] = Empty
    /\ moq[e].check => version >= 17 /\ moq[e].recvd /\ loop[e].pc = "parsing" /\ loop[e].stream = RemoteControl(e)
    /\ (version >= 17 /\ moq[e].control) => (pending[e] = Empty /\ moq[e].recvd) \/ Opening(e)
    /\ ~moq[e].control => \A s \in Streams : parsed[e][s] = <<>>
    /\ loop[e].pc \in {"parsing", "accepted"} => moq[e].control

Stage(e) ==
    /\ moq[e].state = "new" <=> loop[e].pc = "opening"
    /\ moq[e].state = "none" => loop[e].pc = "idle" /\ ~moq[e].control
    /\ version >= 17 /\ moq[e].connected => moq[e].control
    /\ (Running(e) /\ version >= 17 /\ moq[e].state # "none") => moq[e].sent
    /\ version >= 17 => loop[e].pc # "accepted" /\ \A t \in Threads : pc[e][t].pc # "raised"
    /\ requested[e] # {} => moq[e].recvd \/ version = 16

\* On versions 17 and 18 the SETUP comes first on the control stream.
Starts(e) ==
    /\ (version >= 17 /\ written[e][RemoteControl(e)] # <<>>) => SetupHeads(written[e][RemoteControl(e)])
    /\ written[e][DataStream(e)] = <<>>

Announced(e) ==
    (version >= 17 /\ \/ loop[e].pc \in {"replay", "parsing", "accepted"}
                      \/ moq[e].state = "up" \/ moq[e].connected)
       => written[Peer(e)][Control(e)] # <<>>

EndInv(e) == Flow(e) /\ (Running(e) => Held(e)) /\ Stage(e) /\ Starts(e) /\ Announced(e)

SessionInv == SessionTypes /\ \A e \in Ends : EndInv(e)

Own(e) == <<moq[e], pending[e], stolen[e], buffer[e], loop[e], pc[e], parsed[e], requested[e], closed[e]>>
Numbers(e) == <<moq[e].next, moq[e].expected, moq[e].max, moq[e].local, moq[e].goaway>>
Fields(e) == <<moq[e].state, moq[e].control, moq[e].sent, moq[e].recvd, moq[e].connected, moq[e].check>>

-----------------------------------------------------------------------------
LEMMA Versions3 == ASSUME SessionTypes PROVE version \in {16, 17, 18}
BY SessionAssumption DEF SessionTypes

\* A step of one end leaves the other one as it was.
LEMMA OtherEnd ==
    ASSUME SessionInv, NEW e \in Ends, version' = version, Own(Peer(e))' = Own(Peer(e)),
           wire'[Peer(e)] = wire[Peer(e)], written' = written
    PROVE  EndInv(Peer(e))'
<1> DEFINE f == Peer(e)
<1>1. f \in Ends /\ Peer(f) = e
  BY TheEnds
<1> HIDE DEF f
<1>2. EndInv(f)
  BY <1>1 DEF SessionInv
<1>3. /\ moq'[f] = moq[f] /\ pending'[f] = pending[f] /\ stolen'[f] = stolen[f] /\ buffer'[f] = buffer[f]
      /\ loop'[f] = loop[f] /\ pc'[f] = pc[f] /\ parsed'[f] = parsed[f] /\ requested'[f] = requested[f]
      /\ closed'[f] = closed[f] /\ wire'[f] = wire[f]
  BY DEF Own, f
<1>4. RemoteControl(f)' = RemoteControl(f) /\ Control(f)' = Control(f)
      /\ \A s \in Streams : Bidirectional(s)' = Bidirectional(s)
  BY DEF RemoteControl, Control, Bidirectional
<1>5. Running(f)' = Running(f) /\ Opening(f)' = Opening(f)
  BY <1>3, <1>4 DEF Running, Opening
<1>6. Flow(f)'
  BY <1>2, <1>3, <1>5 DEF EndInv, Flow
<1>7. Held(f)' = Held(f)
  BY <1>3, <1>4, <1>5 DEF Held
<1>8. Stage(f)' /\ Starts(f)' /\ Announced(f)'
  BY <1>2, <1>3, <1>4, <1>5 DEF EndInv, Stage, Starts, Announced
<1>9. EndInv(f)'
  BY <1>2, <1>5, <1>6, <1>7, <1>8 DEF EndInv
<1>. QED  BY <1>9 DEF f

-----------------------------------------------------------------------------
(* A message is sent.                                                        *)

LEMMA HalvesOf ==
    ASSUME NEW m \in Msgs
    PROVE  /\ Halves(m) \in Seq(Pieces) /\ Len(Halves(m)) = 2 /\ <<>> \o Halves(m) = Halves(m)
           /\ m.type = "SETUP" => SetupHeads(Halves(m))
<1>1. <<m, 1>> \in Pieces /\ <<m, 2>> \in Pieces
  BY DEF Pieces
<1>2. Halves(m) \in Seq(Pieces) /\ Len(Halves(m)) = 2 /\ Halves(m)[1] = <<m, 1>> /\ Halves(m)[2] = <<m, 2>>
  BY <1>1 DEF Halves
<1>3. <<>> \o Halves(m) = Halves(m)
  BY <1>2, Cat
<1>. QED  BY <1>2, <1>3 DEF SetupHeads

LEMMA HeadsKept ==
    ASSUME NEW w \in Seq(Pieces), NEW d \in Seq(Pieces)
    PROVE  /\ SetupHeads(w) => SetupHeads(w \o d)
           /\ w # <<>> => w \o d # <<>>
           /\ d # <<>> => w \o d # <<>>
<1>1. Len(w \o d) = Len(w) + Len(d) /\ \A i \in 1 .. Len(w) : (w \o d)[i] = w[i]
  BY ConcatProperties
<1>2. Len(w) \in Nat /\ Len(d) \in Nat /\ (w = <<>> <=> Len(w) = 0) /\ (d = <<>> <=> Len(d) = 0)
  BY LenProperties, EmptySeq
<1>3. ASSUME SetupHeads(w) PROVE SetupHeads(w \o d)
  <2>1. 1 \in 1 .. Len(w) /\ 2 \in 1 .. Len(w)
    BY <1>2, <1>3 DEF SetupHeads
  <2>2. (w \o d)[1] = w[1] /\ (w \o d)[2] = w[2] /\ Len(w \o d) >= 2
    BY <1>1, <1>2, <1>3, <2>1 DEF SetupHeads
  <2>. QED  BY <1>3, <2>2 DEF SetupHeads
<1>4. Len(w \o d) = 0 => Len(w) = 0 /\ Len(d) = 0
  BY <1>1, <1>2
<1>. QED  BY <1>2, <1>3, <1>4

\* The other end has more on its way, and the SETUP comes first.
LEMMA SendStep ==
    ASSUME SessionInv, NEW e \in Ends, NEW s \in Streams, NEW m \in Msgs, Send(e, s, m),
           version' = version, Own(Peer(e))' = Own(Peer(e)), s # DataStream(Peer(e)),
           version >= 17 /\ s = Control(e) => m.type = "SETUP" \/ written[Peer(e)][Control(e)] # <<>>
    PROVE  /\ EndInv(Peer(e))'
           /\ wire' \in Tables /\ written' \in Tables
           /\ wire'[e] = wire[e] /\ written'[e] = written[e]
           /\ written'[Peer(e)][s] # <<>>
           /\ \A r \in Streams : written[Peer(e)][r] # <<>> => written'[Peer(e)][r] # <<>>
<1> DEFINE f == Peer(e)
           d == Halves(m)
<1>1. f \in Ends /\ Peer(f) = e /\ f # e
  BY TheEnds
<1>2. wire' = [wire EXCEPT ![f][s] = wire[f][s] \o d] /\ written' = [written EXCEPT ![f][s] = written[f][s] \o d]
  BY DEF Send
<1>a. s # DataStream(f) /\ Own(f)' = Own(f)
      /\ (version >= 17 /\ s = Control(e) => m.type = "SETUP" \/ written[f][Control(e)] # <<>>)
  OBVIOUS
<1>3. d \in Seq(Pieces) /\ Len(d) = 2 /\ <<>> \o d = d /\ d # <<>> /\ (m.type = "SETUP" => SetupHeads(d))
  BY HalvesOf
<1> HIDE DEF f, d
<1>4. EndInv(f) /\ wire \in Tables /\ written \in Tables /\ \A r \in Streams : written[f][r] \in Seq(Pieces)
  <2>1. EndInv(f) /\ wire \in Tables /\ written \in Tables
    BY <1>1 DEF SessionInv, SessionTypes
  <2>. QED  BY <1>1, <2>1 DEF Tables
<1>5. wire[f][s] \o d \in Seq(Pieces) /\ written[f][s] \o d \in Seq(Pieces)
  BY <1>1, <1>3, <1>4, Cat DEF Tables
<1>6. Changed(wire, wire', f, s, wire[f][s] \o d, Seq(Pieces))
      /\ Changed(written, written', f, s, written[f][s] \o d, Seq(Pieces))
  BY <1>1, <1>2, <1>4, <1>5, OneChanged DEF Tables
<1>7. /\ wire' \in Tables /\ written' \in Tables
      /\ wire'[e] = wire[e] /\ written'[e] = written[e]
      /\ written'[f][s] = written[f][s] \o d /\ wire'[f][s] = wire[f][s] \o d
      /\ \A r \in Streams : r # s => written'[f][r] = written[f][r] /\ wire'[f][r] = wire[f][r]
  BY <1>1, <1>6 DEF Changed, Tables
<1>8. written'[f][s] # <<>> /\ \A r \in Streams : written[f][r] # <<>> => written'[f][r] # <<>>
  BY <1>3, <1>4, <1>7, HeadsKept
<1>9. /\ moq'[f] = moq[f] /\ pending'[f] = pending[f] /\ stolen'[f] = stolen[f] /\ buffer'[f] = buffer[f]
      /\ loop'[f] = loop[f] /\ pc'[f] = pc[f] /\ parsed'[f] = parsed[f] /\ requested'[f] = requested[f]
      /\ closed'[f] = closed[f]
  BY <1>a DEF Own
<1>10. RemoteControl(f)' = RemoteControl(f) /\ Control(f)' = Control(f)
      /\ \A r \in Streams : Bidirectional(r)' = Bidirectional(r)
  BY DEF RemoteControl, Control, Bidirectional
<1>11. Running(f)' = Running(f) /\ Opening(f)' = Opening(f)
  BY <1>9, <1>10 DEF Running, Opening
<1>12. Flow(f)'
  <2>1. ASSUME NEW r \in Streams
        PROVE  Kept(written'[f][r], parsed[f][r], buffer[f][r], stolen[f][r], pending[f][r], wire'[f][r], Running(f))
    <3>1. Kept(written[f][r], parsed[f][r], buffer[f][r], stolen[f][r], pending[f][r], wire[f][r], Running(f))
      BY <1>4 DEF EndInv, Flow
    <3>2. CASE r = s
      <4>1. Kept(written[f][s] \o d, parsed[f][s], buffer[f][s], stolen[f][s], pending[f][s], wire[f][s] \o d, Running(f))
        BY <1>3, <3>1, <3>2, KeptSent
      <4>. QED  BY <1>7, <3>2, <4>1
    <3>3. CASE r # s
      BY <1>7, <3>1, <3>3
    <3>. QED  BY <3>2, <3>3
  <2>. QED  BY <1>9, <1>11, <2>1 DEF Flow
<1>13. Held(f)' = Held(f)
  BY <1>9, <1>10, <1>11 DEF Held
<1>14. Starts(f)'
  <2>1. version >= 17 => RemoteControl(f) = Control(e)
    BY <1>1, Versions3 DEF RemoteControl, SessionInv
  <2>2. Starts(f)
    BY <1>4 DEF EndInv
  <2>3. RemoteControl(f) \in Streams /\ DataStream(f) \in Streams
    BY <1>1, TheStreams
  <2>4. written'[f][DataStream(f)] = <<>>
    BY <1>7, <1>a, <2>2, <2>3 DEF Starts
  <2>5. ASSUME version >= 17 PROVE SetupHeads(written'[f][RemoteControl(f)]) \/ written'[f][RemoteControl(f)] = <<>>
    <3>1. CASE s # RemoteControl(f)
      BY <1>7, <2>2, <2>3, <2>5, <3>1 DEF Starts
    <3>2. CASE s = RemoteControl(f) /\ written[f][s] # <<>>
      BY <1>3, <1>4, <1>7, <2>2, <2>5, <3>2, HeadsKept DEF Starts
    <3>3. CASE s = RemoteControl(f) /\ written[f][s] = <<>>
      <4>1. m.type = "SETUP"
        BY <1>a, <2>1, <2>5, <3>3
      <4>2. written'[f][s] = d
        BY <1>3, <1>7, <3>3
      <4>. QED  BY <1>3, <3>3, <4>1, <4>2
    <3>. QED  BY <3>1, <3>2, <3>3
  <2>6. DataStream(f)' = DataStream(f)
    BY DEF DataStream
  <2>. QED  BY <1>10, <2>4, <2>5, <2>6 DEF Starts
<1>15. Stage(f)' /\ Announced(f)'
  BY <1>1, <1>4, <1>7, <1>9, <1>10, <1>11 DEF EndInv, Stage, Announced
<1>16. EndInv(f)'
  BY <1>4, <1>11, <1>12, <1>13, <1>14, <1>15 DEF EndInv
<1>. QED  BY <1>7, <1>8, <1>16 DEF f

\* What the application's calls leave alone decides over the rest.
LEMMA SameStage ==
    ASSUME SessionInv, NEW e \in Ends, version' = version, Fields(e)' = Fields(e),
           pending'[e] = pending[e], stolen'[e] = stolen[e], buffer'[e] = buffer[e], loop'[e] = loop[e],
           parsed'[e] = parsed[e], requested'[e] = requested[e], closed'[e] = closed[e],
           wire'[e] = wire[e], written'[e] = written[e],
           written[Peer(e)][Control(e)] # <<>> => written'[Peer(e)][Control(e)] # <<>>,
           version >= 17 => \A t \in Threads : pc'[e][t].pc # "raised"
    PROVE  EndInv(e)'
<1>1. EndInv(e)
  BY DEF SessionInv
<1>2. /\ moq'[e].state = moq[e].state /\ moq'[e].control = moq[e].control /\ moq'[e].sent = moq[e].sent
      /\ moq'[e].recvd = moq[e].recvd /\ moq'[e].connected = moq[e].connected /\ moq'[e].check = moq[e].check
  BY DEF Fields
<1>3. /\ RemoteControl(e)' = RemoteControl(e) /\ Control(e)' = Control(e) /\ DataStream(e)' = DataStream(e)
      /\ \A s \in Streams : Bidirectional(s)' = Bidirectional(s)
  BY DEF RemoteControl, Control, Bidirectional, DataStream
<1>4. Running(e)' = Running(e) /\ Opening(e)' = Opening(e)
  BY <1>2, <1>3 DEF Running, Opening
<1>5. Flow(e)' = Flow(e)
  BY <1>4 DEF Flow
<1>6. Held(e)' = Held(e)
  BY <1>2, <1>3, <1>4 DEF Held
<1>7. Stage(e)'
  BY <1>1, <1>2, <1>4 DEF EndInv, Stage
<1>8. Starts(e)' /\ Announced(e)'
  BY <1>1, <1>2, <1>3 DEF EndInv, Starts, Announced
<1>. QED  BY <1>1, <1>4, <1>5, <1>6, <1>7, <1>8 DEF EndInv

LEMMA BothEnds ==
    ASSUME NEW e \in Ends, SessionTypes', EndInv(e)', EndInv(Peer(e))'
    PROVE  SessionInv'
<1>1. ASSUME NEW f \in Ends PROVE EndInv(f)'
  <2>1. f = e \/ f = Peer(e)
    BY TheEnds
  <2>. QED  BY <2>1
<1>. QED  BY <1>1 DEF SessionInv

-----------------------------------------------------------------------------
(* The API.                                                                  *)

\* What a call may leave behind in the table of threads.
LEMMA ThreadGoes ==
    ASSUME SessionInv, NEW e \in Ends, NEW t \in Threads,
           NEW what \in {"idle", "has_id", "reserved", "raised"}, NEW value \in Nat, Goes(e, t, what, value)
    PROVE  /\ pc' \in [Ends -> [Threads -> [pc : {"idle", "has_id", "reserved", "raised"}, value : Nat]]]
           /\ \A u \in Threads : u # t => pc'[e][u] = pc[e][u]
           /\ pc'[e][t].pc = what
           /\ pc'[Peer(e)] = pc[Peer(e)]
<1>1. pc \in [Ends -> [Threads -> [pc : {"idle", "has_id", "reserved", "raised"}, value : Nat]]]
  BY DEF SessionInv, SessionTypes
<1>2. pc' = [pc EXCEPT ![e][t] = [pc |-> what, value |-> value]]
  BY DEF Goes
<1>. QED  BY <1>1, <1>2, TheEnds

LEMMA NeverRaised ==
    ASSUME SessionInv, NEW e \in Ends, NEW t \in Threads,
           NEW what \in {"idle", "has_id", "reserved", "raised"}, NEW value \in Nat, Goes(e, t, what, value),
           what = "raised" => version = 16
    PROVE  version >= 17 => \A u \in Threads : pc'[e][u].pc # "raised"
<1>1. version >= 17 => \A u \in Threads : pc[e][u].pc # "raised"
  BY DEF SessionInv, EndInv, Stage
<1>2. (\A u \in Threads : u # t => pc'[e][u] = pc[e][u]) /\ pc'[e][t].pc = what
  BY ThreadGoes
<1>3. version = 16 => ~(version >= 17)
  OBVIOUS
<1>. QED  BY <1>1, <1>2, <1>3

LEMMA GetNextRequestIdStep ==
    ASSUME SessionInv, NEW e \in Ends, NEW t \in Threads, GetNextRequestId(e, t)
    PROVE  SessionInv'
<1>1. /\ version' = version /\ moq' = moq /\ pending' = pending /\ stolen' = stolen /\ buffer' = buffer
      /\ loop' = loop /\ wire' = wire /\ written' = written /\ parsed' = parsed
      /\ requested' = requested /\ closed' = closed /\ Goes(e, t, "has_id", moq[e].next)
  BY DEF GetNextRequestId
<1>2. moq[e].next \in Nat
  BY DEF SessionInv, SessionTypes, Context
<1>3. SessionTypes'
  <2>1. pc' \in [Ends -> [Threads -> [pc : {"idle", "has_id", "reserved", "raised"}, value : Nat]]]
    BY <1>1, <1>2, ThreadGoes
  <2>. QED  BY <1>1, <2>1 DEF SessionInv, SessionTypes
<1>4. EndInv(e)'
  <2>1. version >= 17 => \A u \in Threads : pc'[e][u].pc # "raised"
    BY <1>1, <1>2, NeverRaised
  <2>. QED  BY <1>1, <2>1, SameStage DEF Fields
<1>5. EndInv(Peer(e))'
  BY <1>1, <1>2, ThreadGoes, OtherEnd DEF Own
<1>. QED  BY <1>3, <1>4, <1>5, BothEnds

LEMMA ReserveStep ==
    ASSUME SessionInv, NEW e \in Ends, NEW t \in Threads, Reserve(e, t)
    PROVE  SessionInv'
<1>1. /\ version' = version /\ pending' = pending /\ stolen' = stolen /\ buffer' = buffer
      /\ loop' = loop /\ wire' = wire /\ written' = written /\ parsed' = parsed
      /\ requested' = requested /\ closed' = closed
  BY DEF Reserve
<1>2. pc[e][t].value \in Nat
  BY DEF SessionInv, SessionTypes
<1>3. \/ moq' = [moq EXCEPT ![e].next = pc[e][t].value + 2] /\ Goes(e, t, "reserved", pc[e][t].value)
      \/ Goes(e, t, "idle", 0) /\ moq' = moq
  BY DEF Reserve
<1>4. moq' \in [Ends -> Context] /\ Fields(e)' = Fields(e) /\ moq'[Peer(e)] = moq[Peer(e)]
  <2>1. moq \in [Ends -> Context] /\ Peer(e) # e /\ Peer(e) \in Ends
    BY TheEnds DEF SessionInv, SessionTypes
  <2>. QED  BY <1>2, <1>3, <2>1 DEF Context, Fields
<1>5. PICK what \in {"reserved", "idle"}, value \in Nat : Goes(e, t, what, value)
  BY <1>2, <1>3
<1>6. SessionTypes'
  <2>1. pc' \in [Ends -> [Threads -> [pc : {"idle", "has_id", "reserved", "raised"}, value : Nat]]]
    BY <1>5, ThreadGoes
  <2>. QED  BY <1>1, <1>4, <2>1 DEF SessionInv, SessionTypes
<1>7. EndInv(e)'
  <2>1. version >= 17 => \A u \in Threads : pc'[e][u].pc # "raised"
    BY <1>5, NeverRaised
  <2>. QED  BY <1>1, <1>4, <2>1, SameStage
<1>8. EndInv(Peer(e))'
  BY <1>1, <1>4, <1>5, ThreadGoes, OtherEnd DEF Own
<1>. QED  BY <1>6, <1>7, <1>8, BothEnds

LEMMA SetMaxRequestIdStep ==
    ASSUME SessionInv, NEW e \in Ends, NEW t \in Threads, SetMaxRequestId(e, t)
    PROVE  SessionInv'
<1>1. /\ version' = version /\ pending' = pending /\ stolen' = stolen /\ buffer' = buffer
      /\ loop' = loop /\ wire' = wire /\ written' = written /\ parsed' = parsed
      /\ requested' = requested /\ closed' = closed
  BY DEF SetMaxRequestId
<1>2. PICK max \in NewLimits :
         IF version >= 17 \/ moq[e].local >= max
         THEN UNCHANGED <<moq, pc>>
         ELSE /\ moq' = [moq EXCEPT ![e].local = max]
              /\ Goes(e, t, "raised", max - 1)
  BY DEF SetMaxRequestId
<1>3. max \in Nat /\ max - 1 \in Nat
  BY SessionAssumption
<1>4. \/ UNCHANGED <<moq, pc>>
      \/ moq' = [moq EXCEPT ![e].local = max] /\ Goes(e, t, "raised", max - 1) /\ version = 16
  BY <1>2, Versions3 DEF SessionInv
<1>5. moq' \in [Ends -> Context] /\ Fields(e)' = Fields(e) /\ moq'[Peer(e)] = moq[Peer(e)]
  <2>1. moq \in [Ends -> Context] /\ Peer(e) # e /\ Peer(e) \in Ends
    BY TheEnds DEF SessionInv, SessionTypes
  <2>. QED  BY <1>3, <1>4, <2>1 DEF Context, Fields
<1>6. /\ pc' \in [Ends -> [Threads -> [pc : {"idle", "has_id", "reserved", "raised"}, value : Nat]]]
      /\ pc'[Peer(e)] = pc[Peer(e)]
      /\ version >= 17 => \A u \in Threads : pc'[e][u].pc # "raised"
  <2>1. CASE pc' = pc
    BY <2>1 DEF SessionInv, SessionTypes, EndInv, Stage
  <2>2. CASE Goes(e, t, "raised", max - 1) /\ version = 16
    BY <1>3, <2>2, ThreadGoes, NeverRaised
  <2>. QED  BY <1>4, <2>1, <2>2
<1>7. SessionTypes'
  BY <1>1, <1>5, <1>6 DEF SessionInv, SessionTypes
<1>8. EndInv(e)'
  BY <1>1, <1>5, <1>6, SameStage
<1>9. EndInv(Peer(e))'
  BY <1>1, <1>5, <1>6, OtherEnd DEF Own
<1>. QED  BY <1>7, <1>8, <1>9, BothEnds

\* A thread sends a message, and nothing else of its end changes but the threads.
LEMMA ThreadSends ==
    ASSUME SessionInv, NEW e \in Ends, NEW s \in Streams, NEW m \in Msgs, Send(e, s, m),
           UNCHANGED <<version, moq, pending, stolen, buffer, loop, parsed, requested, closed>>,
           s # DataStream(Peer(e)),
           version >= 17 /\ s = Control(e) => written[Peer(e)][Control(e)] # <<>>,
           pc' \in [Ends -> [Threads -> [pc : {"idle", "has_id", "reserved", "raised"}, value : Nat]]],
           pc'[Peer(e)] = pc[Peer(e)],
           version >= 17 => \A u \in Threads : pc'[e][u].pc # "raised"
    PROVE  SessionInv'
<1>1. Own(Peer(e))' = Own(Peer(e)) /\ version' = version /\ Fields(e)' = Fields(e)
  BY DEF Own, Fields
<1>2. /\ EndInv(Peer(e))'
      /\ wire' \in Tables /\ written' \in Tables
      /\ wire'[e] = wire[e] /\ written'[e] = written[e]
      /\ \A r \in Streams : written[Peer(e)][r] # <<>> => written'[Peer(e)][r] # <<>>
  BY <1>1, SendStep
<1>3. EndInv(e)'
  BY <1>1, <1>2, TheStreams, SameStage
<1>4. SessionTypes'
  BY <1>2 DEF SessionInv, SessionTypes
<1>. QED  BY <1>2, <1>3, <1>4, BothEnds

LEMMA SendRequestStep ==
    ASSUME SessionInv, NEW e \in Ends, NEW t \in Threads, SendRequest(e, t)
    PROVE  SessionInv'
<1>1. UNCHANGED <<version, moq, pending, stolen, buffer, loop, parsed, requested, closed>> /\ Goes(e, t, "idle", 0)
  BY DEF SendRequest
<1>2. PICK s \in RequestStreams(e) : Send(e, s, Msg("REQUEST", pc[e][t].value))
  BY DEF SendRequest
<1>3. Msg("REQUEST", pc[e][t].value) \in Msgs
  BY DEF SessionInv, SessionTypes, Msg, Msgs, Types
<1>4. s \in Streams /\ s # DataStream(Peer(e)) /\ (version >= 17 => s # Control(e))
  <2>1. CASE version = 16
    BY <1>2, <2>1, TheStreams DEF RequestStreams
  <2>2. CASE version # 16
    <3>1. PICK k \in 1 .. MaxCalls[e] : s = <<e, k>>
      BY <1>2, <2>2 DEF RequestStreams
    <3>2. k \in 0 .. MaxCalls[e] + 1 /\ k # 0
      BY TheStreams
    <3>3. e # Peer(e)
      BY TheEnds
    <3>. QED  BY <2>2, <3>1, <3>2, <3>3, TheStreams DEF DataStream, Control
  <2>. QED  BY <2>1, <2>2
<1>5. /\ pc' \in [Ends -> [Threads -> [pc : {"idle", "has_id", "reserved", "raised"}, value : Nat]]]
      /\ pc'[Peer(e)] = pc[Peer(e)]
      /\ version >= 17 => \A u \in Threads : pc'[e][u].pc # "raised"
  BY <1>1, ThreadGoes, NeverRaised
<1>. QED  BY <1>1, <1>2, <1>3, <1>4, <1>5, ThreadSends

LEMMA AnnounceLimitStep ==
    ASSUME SessionInv, NEW e \in Ends, NEW t \in Threads, AnnounceLimit(e, t)
    PROVE  SessionInv'
<1>1. UNCHANGED <<version, moq, pending, stolen, buffer, loop, parsed, requested, closed>> /\ Goes(e, t, "idle", 0)
      /\ pc[e][t].pc = "raised"
  BY DEF AnnounceLimit
<1>2. Msg("MAX_REQUEST_ID", pc[e][t].value) \in Msgs
  BY DEF SessionInv, SessionTypes, Msg, Msgs, Types
<1>3. ~(version >= 17)
  BY <1>1 DEF SessionInv, EndInv, Stage
<1>4. /\ pc' \in [Ends -> [Threads -> [pc : {"idle", "has_id", "reserved", "raised"}, value : Nat]]]
      /\ pc'[Peer(e)] = pc[Peer(e)]
      /\ version >= 17 => \A u \in Threads : pc'[e][u].pc # "raised"
  BY <1>1, ThreadGoes, NeverRaised
<1>5. CASE Send(e, Control(e), Msg("MAX_REQUEST_ID", pc[e][t].value))
  BY <1>1, <1>2, <1>3, <1>4, <1>5, TheStreams, ThreadSends
<1>6. CASE UNCHANGED <<wire, written>>
  <2>1. SessionTypes'
    BY <1>1, <1>4, <1>6 DEF SessionInv, SessionTypes
  <2>2. EndInv(e)'
    BY <1>1, <1>4, <1>6, SameStage DEF Fields
  <2>3. EndInv(Peer(e))'
    BY <1>1, <1>4, <1>6, OtherEnd DEF Own
  <2>. QED  BY <2>1, <2>2, <2>3, BothEnds
<1>. QED  BY <1>5, <1>6 DEF AnnounceLimit

LEMMA SendControlStep ==
    ASSUME SessionInv, NEW e \in Ends, NEW t \in Threads, NEW m \in Msgs, SendControl(e, t, m)
    PROVE  SessionInv'
<1>1. /\ UNCHANGED <<version, moq, pending, stolen, buffer, loop, parsed, requested, closed>> /\ pc' = pc
      /\ moq[e].connected /\ Send(e, Control(e), m)
  BY DEF SendControl
<1>2. version >= 17 => written[Peer(e)][Control(e)] # <<>>
  BY <1>1 DEF SessionInv, EndInv, Announced
<1>3. /\ pc' \in [Ends -> [Threads -> [pc : {"idle", "has_id", "reserved", "raised"}, value : Nat]]]
      /\ version >= 17 => \A u \in Threads : pc'[e][u].pc # "raised"
  BY <1>1 DEF SessionInv, SessionTypes, EndInv, Stage
<1>4. Control(e) \in Streams /\ Control(e) # DataStream(Peer(e))
  BY TheStreams
<1>. QED  BY <1>1, <1>2, <1>3, <1>4, ThreadSends

LEMMA SendObjectStep ==
    ASSUME SessionInv, NEW e \in Ends, NEW t \in Threads, SendObject(e, t)
    PROVE  SessionInv'
<1>1. /\ UNCHANGED <<version, moq, pending, stolen, buffer, loop, parsed, requested, closed>> /\ pc' = pc
      /\ Send(e, DataStream(e), Msg("OBJECT", 0))
  BY DEF SendObject
<1>2. DataStream(e) # DataStream(Peer(e)) /\ DataStream(e) # Control(e) /\ DataStream(e) \in Streams
  BY TheEnds, TheStreams DEF DataStream
<1>3. /\ pc' \in [Ends -> [Threads -> [pc : {"idle", "has_id", "reserved", "raised"}, value : Nat]]]
      /\ version >= 17 => \A u \in Threads : pc'[e][u].pc # "raised"
  BY <1>1 DEF SessionInv, SessionTypes, EndInv, Stage
<1>4. Msg("OBJECT", 0) \in Msgs
  BY DEF Msg, Msgs, Types
<1>. QED  BY <1>1, <1>2, <1>3, <1>4, ThreadSends

LEMMA ApiStep ==
    ASSUME SessionInv, NEW e \in Ends, NEW t \in Threads, CallStep(e, t) \/ Call(e, t)
    PROVE  SessionInv'
<1>1. ASSUME RequestsBlocked(e, t) PROVE SessionInv'
  <2>1. Msg("REQUESTS_BLOCKED", moq[e].max) \in Msgs
    BY DEF SessionInv, SessionTypes, Context, Msg, Msgs, Types
  <2>. QED  BY <1>1, <2>1, SendControlStep DEF RequestsBlocked
<1>2. ASSUME Goaway(e, t) PROVE SessionInv'
  <2> DEFINE value == IF version = 18 THEN moq[e].expected ELSE 0
  <2>1. value \in Nat
    BY DEF SessionInv, SessionTypes, Context
  <2>2. Msg("GOAWAY", value) \in Msgs
    BY <2>1 DEF Msg, Msgs, Types
  <2>. QED  BY <1>2, <2>2, SendControlStep DEF Goaway
<1>. QED  BY <1>1, <1>2, GetNextRequestIdStep, ReserveStep, SetMaxRequestIdStep, SendRequestStep, AnnounceLimitStep,
             SendObjectStep DEF CallStep, Call

-----------------------------------------------------------------------------
(* The loop thread opens the session.                                        *)

LEMMA Nothing ==
    /\ Empty \in [Streams -> Seq(Pieces)]
    /\ \A s \in Streams : Empty[s] = <<>>
    /\ \A F \in [Streams -> Seq(Pieces)] : (\A s \in Streams : F[s] = <<>>) => F = Empty
<1>1. <<>> \in Seq(Pieces)
  BY Cat
<1>. QED  BY <1>1 DEF Empty

LEMMA SameStreams ==
    ASSUME version' = version, NEW e \in Ends
    PROVE  /\ RemoteControl(e)' = RemoteControl(e) /\ Control(e)' = Control(e) /\ DataStream(e)' = DataStream(e)
           /\ \A s \in Streams : Bidirectional(s)' = Bidirectional(s)
BY DEF RemoteControl, Control, Bidirectional, DataStream

\* The two tables change hands.
LEMMA Stolen ==
    ASSUME SessionInv, NEW e \in Ends, HandlePending(e)
    PROVE  /\ stolen' \in Tables /\ pending' \in Tables
           /\ stolen'[e] = pending[e] /\ pending'[e] = Empty
           /\ stolen'[Peer(e)] = stolen[Peer(e)] /\ pending'[Peer(e)] = pending[Peer(e)]
<1>1. pending \in Tables /\ stolen \in Tables /\ Empty \in [Streams -> Seq(Pieces)] /\ pending[e] \in [Streams -> Seq(Pieces)]
  BY Nothing DEF SessionInv, SessionTypes, Tables
<1>2. Peer(e) \in Ends /\ Peer(e) # e
  BY TheEnds
<1>. QED  BY <1>1, <1>2 DEF HandlePending, Tables

\* What is held back is replayed from now on.
LEMMA FlowStolen ==
    ASSUME SessionInv, NEW e \in Ends, stolen'[e] = pending[e], pending'[e] = Empty,
           Running(e) => stolen[e] = Empty, Running(e)' => Running(e),
           parsed'[e] = parsed[e], buffer'[e] = buffer[e], wire'[e] = wire[e], written'[e] = written[e]
    PROVE  Flow(e)'
<1>1. ASSUME NEW s \in Streams
      PROVE  Kept(written[e][s], parsed[e][s], buffer[e][s], pending[e][s], <<>>, wire[e][s], Running(e)')
  <2>1. Kept(written[e][s], parsed[e][s], buffer[e][s], stolen[e][s], pending[e][s], wire[e][s], Running(e))
    BY DEF SessionInv, EndInv, Flow
  <2>2. CASE Running(e)
    <3>1. stolen[e][s] = <<>>
      BY <2>2, Nothing
    <3>2. Kept(written[e][s], parsed[e][s], buffer[e][s], pending[e][s], <<>>, wire[e][s], Running(e))
      BY <2>1, <3>1, KeptStolen
    <3>. QED  BY <2>2, <3>2 DEF Kept
  <2>3. CASE ~Running(e)
    <3>1. pending[e][s] \in Seq(Pieces) /\ <<>> \in Seq(Pieces) /\ wire[e][s] \in Seq(Pieces)
      BY Cat DEF SessionInv, SessionTypes, Tables
    <3>2. Kept(written[e][s], parsed[e][s], buffer[e][s], pending[e][s], <<>>, wire[e][s], FALSE)
      BY <2>1, <3>1, KeptDown
    <3>. QED  BY <2>3, <3>2 DEF Kept
  <2>. QED  BY <2>2, <2>3
<1>2. \A s \in Streams : pending'[e][s] = <<>>
  BY Nothing
<1>. QED  BY <1>1, <1>2 DEF Flow

NewContext(F, e, next, expected, control, sent, local) ==
    [F EXCEPT ![e].state = "new", ![e].next = next, ![e].expected = expected,
              ![e].control = control, ![e].sent = sent, ![e].local = local]

Created(F, G, e, control, sent) ==
    /\ G \in [Ends -> Context] /\ G[Peer(e)] = F[Peer(e)]
    /\ G[e].state = "new" /\ G[e].control = control /\ G[e].sent = sent
    /\ G[e].recvd = F[e].recvd /\ G[e].connected = F[e].connected /\ G[e].check = F[e].check

LEMMA ContextCreated ==
    ASSUME NEW F \in [Ends -> Context], NEW e \in Ends, NEW next \in Nat, NEW expected \in Nat,
           NEW control \in BOOLEAN, NEW sent \in BOOLEAN, NEW local \in Nat
    PROVE  Created(F, NewContext(F, e, next, expected, control, sent, local), e, control, sent)
<1>1. Peer(e) \in Ends /\ Peer(e) # e
  BY TheEnds
<1> DEFINE r == [F[e] EXCEPT !.state = "new", !.next = next, !.expected = expected,
                             !.control = control, !.sent = sent, !.local = local]
<1>2. /\ r \in Context
      /\ r.state = "new" /\ r.control = control /\ r.sent = sent
      /\ r.recvd = F[e].recvd /\ r.connected = F[e].connected /\ r.check = F[e].check
  <2> DEFINE q == [F[e] EXCEPT !.state = "new", !.next = next, !.expected = expected]
  <2>1. /\ q \in Context /\ q.state = "new"
        /\ q.recvd = F[e].recvd /\ q.connected = F[e].connected /\ q.check = F[e].check
    BY DEF Context
  <2>2. r = [q EXCEPT !.control = control, !.sent = sent, !.local = local]
    BY DEF Context
  <2> HIDE DEF q, r
  <2>3. /\ r \in Context /\ r.state = q.state /\ r.control = control /\ r.sent = sent
        /\ r.recvd = q.recvd /\ r.connected = q.connected /\ r.check = q.check
    BY <2>1, <2>2 DEF Context
  <2>. QED  BY <2>1, <2>3
<1>3. NewContext(F, e, next, expected, control, sent, local) = [F EXCEPT ![e] = r]
  BY DEF Context, NewContext
<1> HIDE DEF r
<1>. QED  BY <1>1, <1>2, <1>3 DEF Created

LEMMA CreateContextStep ==
    ASSUME SessionInv, NEW e \in Ends, CreateContext(e)
    PROVE  SessionInv'
<1>1. UNCHANGED <<version, stolen, buffer, pc, wire, written, parsed, requested, closed>>
      /\ moq[e].state = "none" /\ loop' = [loop EXCEPT ![e] = Loop("opening", Control(e))]
      /\ pending' = IF version = 16 THEN [pending EXCEPT ![e] = Empty] ELSE pending
  BY DEF CreateContext
<1>2. PICK limit \in IF version = 16 THEN Limits ELSE {0} :
         moq' = [moq EXCEPT ![e].state = "new",
                   ![e].next = IF e = "server" THEN 1 ELSE 0,
                   ![e].expected = IF e = "server" THEN 0 ELSE 1,
                   ![e].control = HasControl(e),
                   ![e].sent = (version >= 17),
                   ![e].local = limit]
  BY DEF CreateContext
<1>3. limit \in Nat /\ HasControl(e) \in BOOLEAN
  BY SessionAssumption DEF HasControl
<1>4. moq \in [Ends -> Context] /\ Peer(e) \in Ends /\ Peer(e) # e
  BY TheEnds DEF SessionInv, SessionTypes
<1>5. /\ moq' \in [Ends -> Context] /\ moq'[Peer(e)] = moq[Peer(e)]
      /\ moq'[e].state = "new" /\ moq'[e].control = HasControl(e) /\ moq'[e].sent = (version >= 17)
      /\ moq'[e].recvd = moq[e].recvd /\ moq'[e].connected = moq[e].connected /\ moq'[e].check = moq[e].check
  <2> DEFINE next == IF e = "server" THEN 1 ELSE 0
             expected == IF e = "server" THEN 0 ELSE 1
             control == HasControl(e)
             sent == version >= 17
  <2>1. next \in Nat /\ expected \in Nat /\ control \in BOOLEAN /\ sent \in BOOLEAN
    BY <1>3
  <2> HIDE DEF next, expected, control, sent
  <2>2. moq' = NewContext(moq, e, next, expected, control, sent, limit)
    BY <1>2 DEF next, expected, control, sent, NewContext
  <2>3. Created(moq, moq', e, control, sent)
    BY <1>3, <1>4, <2>1, <2>2, ContextCreated
  <2>. QED  BY <2>3 DEF control, sent, Created
<1>6. /\ loop' \in [Ends -> [pc : Stages, stream : Streams]] /\ loop'[Peer(e)] = loop[Peer(e)]
      /\ loop'[e].pc = "opening"
  BY <1>1, <1>4, TheStreams DEF SessionInv, SessionTypes, Loop, Stages
<1>7. pending' \in Tables /\ pending'[Peer(e)] = pending[Peer(e)]
  BY <1>1, <1>4, Nothing DEF SessionInv, SessionTypes, Tables
<1>8. SessionTypes'
  BY <1>1, <1>5, <1>6, <1>7 DEF SessionInv, SessionTypes
<1>9. EndInv(Peer(e))'
  BY <1>1, <1>4, <1>5, <1>6, <1>7, OtherEnd DEF Own
<1>10. Flow(e) /\ (Running(e) => Held(e)) /\ Stage(e) /\ Starts(e) /\ Announced(e)
  BY DEF SessionInv, EndInv
<1>11. Running(e)' = Running(e)
  BY <1>1, <1>5 DEF Running
<1>12. Running(e) => pending'[e] = pending[e]
  <2>1. CASE version # 16
    BY <1>1, <2>1
  <2>2. ASSUME version = 16, Running(e) PROVE pending'[e] = pending[e]
    <3>1. \A s \in Streams : pending[e][s] = <<>>
      BY <1>10, <2>2 DEF Held
    <3>2. pending \in Tables /\ pending[e] \in [Streams -> Seq(Pieces)]
      BY DEF SessionInv, SessionTypes, Tables
    <3>3. pending[e] = Empty
      BY <3>1, <3>2, Nothing
    <3>. QED  BY <1>1, <3>2, <3>3 DEF Tables
  <2>. QED  BY <2>1, <2>2
<1>13. Flow(e)'
  <2>1. CASE Running(e)
    BY <1>1, <1>10, <1>11, <1>12, <2>1 DEF Flow
  <2>2. CASE ~Running(e)
    <3>1. ASSUME NEW s \in Streams
          PROVE  Kept(written[e][s], parsed[e][s], buffer[e][s], stolen[e][s], pending'[e][s], wire[e][s], FALSE)
      <4>1. Kept(written[e][s], parsed[e][s], buffer[e][s], stolen[e][s], pending[e][s], wire[e][s], Running(e))
        BY <1>10 DEF Flow
      <4>2. stolen[e][s] \in Seq(Pieces) /\ pending'[e][s] \in Seq(Pieces) /\ wire[e][s] \in Seq(Pieces)
        BY <1>7 DEF SessionInv, SessionTypes, Tables
      <4>. QED  BY <4>1, <4>2, KeptDown
    <3>2. Running(e)' = FALSE
      BY <1>11, <2>2 DEF Running
    <3>. QED  BY <1>1, <3>1, <3>2 DEF Flow
  <2>. QED  BY <2>1, <2>2
<1>14. loop[e].pc = "idle" /\ ~moq[e].control
  BY <1>1, <1>10 DEF Stage
<1>15. Running(e)' => Held(e)'
  <2> SUFFICES ASSUME Running(e)' PROVE Held(e)'
    OBVIOUS
  <2>1. Held(e) /\ pending'[e] = pending[e] /\ stolen' = stolen /\ parsed' = parsed /\ ~moq'[e].check
    BY <1>1, <1>5, <1>10, <1>11, <1>12, <1>14 DEF Held
  <2>2. version >= 17 => ~moq'[e].control
    <3>1. version >= 17 => version # 16
      OBVIOUS
    <3>. QED  BY <1>5, <3>1 DEF HasControl
  <2>. QED  BY <1>1, <1>5, <1>6, <1>14, <2>1, <2>2, SameStreams DEF Held
<1>16. Stage(e)' /\ Starts(e)' /\ Announced(e)'
  BY <1>1, <1>5, <1>6, <1>10, <1>14, SameStreams DEF Stage, Starts, Announced
<1>17. EndInv(e)'
  BY <1>13, <1>15, <1>16 DEF EndInv
<1>. QED  BY <1>8, <1>9, <1>17, BothEnds

LEMMA SendSetupStep ==
    ASSUME SessionInv, NEW e \in Ends, SendSetup(e)
    PROVE  SessionInv'
<1>1. /\ UNCHANGED <<version, buffer, pc, parsed, requested, closed>>
      /\ loop[e].pc = "opening" /\ HandlePending(e)
      /\ moq' = [moq EXCEPT ![e].state = "up"] /\ loop' = [loop EXCEPT ![e] = Loop("replay", Control(e))]
  BY DEF SendSetup
<1>2. moq \in [Ends -> Context] /\ Peer(e) \in Ends /\ Peer(e) # e
  BY TheEnds DEF SessionInv, SessionTypes
<1>3. /\ moq' \in [Ends -> Context] /\ moq'[Peer(e)] = moq[Peer(e)] /\ moq'[e].state = "up"
      /\ moq'[e].control = moq[e].control /\ moq'[e].sent = moq[e].sent /\ moq'[e].recvd = moq[e].recvd
      /\ moq'[e].connected = moq[e].connected /\ moq'[e].check = moq[e].check
  BY <1>1, <1>2 DEF Context
<1>4. /\ loop' \in [Ends -> [pc : Stages, stream : Streams]] /\ loop'[Peer(e)] = loop[Peer(e)]
      /\ loop'[e].pc = "replay"
  BY <1>1, <1>2, TheStreams DEF SessionInv, SessionTypes, Loop, Stages
<1>5. /\ stolen' \in Tables /\ pending' \in Tables
      /\ stolen'[e] = pending[e] /\ pending'[e] = Empty
      /\ stolen'[Peer(e)] = stolen[Peer(e)] /\ pending'[Peer(e)] = pending[Peer(e)]
  BY <1>1, Stolen
<1>6. version' = version /\ Own(Peer(e))' = Own(Peer(e))
  BY <1>1, <1>3, <1>4, <1>5 DEF Own
<1>7. /\ EndInv(Peer(e))' /\ wire' \in Tables /\ written' \in Tables
      /\ wire'[e] = wire[e] /\ written'[e] = written[e]
      /\ version >= 17 => written'[Peer(e)][Control(e)] # <<>>
  <2>1. CASE Send(e, Control(e), Msg("SETUP", moq[e].local))
    <3>1. Msg("SETUP", moq[e].local) \in Msgs /\ Msg("SETUP", moq[e].local).type = "SETUP"
      BY <1>2 DEF Context, Msg, Msgs, Types
    <3>2. Control(e) \in Streams /\ Control(e) # DataStream(Peer(e))
      BY TheStreams
    <3>. QED  BY <1>6, <2>1, <3>1, <3>2, SendStep
  <2>2. CASE version = 16 /\ UNCHANGED <<wire, written>>
    <3>1. EndInv(Peer(e))'
      BY <1>6, <2>2, OtherEnd
    <3>. QED  BY <2>2, <3>1 DEF SessionInv, SessionTypes
  <2>. QED  BY <2>1, <2>2 DEF SendSetup
<1>8. SessionTypes'
  BY <1>1, <1>3, <1>4, <1>5, <1>7 DEF SessionInv, SessionTypes
<1>9. Flow(e) /\ (Running(e) => Held(e)) /\ Stage(e) /\ Starts(e) /\ Announced(e)
  BY DEF SessionInv, EndInv
<1>10. moq[e].state = "new" /\ Running(e)' = Running(e)
  BY <1>1, <1>3, <1>9 DEF Stage, Running
<1>11. Flow(e)'
  <2>1. Running(e) => stolen[e] = Empty
    BY <1>1, <1>9 DEF Held
  <2>. QED  BY <1>1, <1>5, <1>7, <1>10, <2>1, FlowStolen
<1>12. Running(e)' => Held(e)'
  <2> SUFFICES ASSUME Running(e)' PROVE Held(e)'
    OBVIOUS
  <2>1. Held(e) /\ ~moq'[e].check
    BY <1>1, <1>3, <1>9, <1>10 DEF Held
  <2>2. version >= 17 /\ moq[e].control => moq[e].recvd
    BY <1>1, <2>1 DEF Held, Opening
  <2>3. /\ \A s \in Streams : pending'[e][s] = <<>>
        /\ \A s \in Streams : stolen'[e][s] # <<>> => version >= 17 /\ Bidirectional(s)
    BY <1>5, <2>1, Nothing DEF Held
  <2>4. ~moq[e].control => \A s \in Streams : parsed[e][s] = <<>>
    BY <2>1 DEF Held
  <2>. QED  BY <1>1, <1>3, <1>4, <1>5, <2>1, <2>2, <2>3, <2>4, SameStreams DEF Held
<1>13. Stage(e)' /\ Starts(e)' /\ Announced(e)'
  BY <1>1, <1>3, <1>4, <1>7, <1>9, <1>10, SameStreams DEF Stage, Starts, Announced
<1>14. EndInv(e)'
  BY <1>11, <1>12, <1>13 DEF EndInv
<1>. QED  BY <1>7, <1>8, <1>14, BothEnds

LEMMA ReplayDoneStep ==
    ASSUME SessionInv, NEW e \in Ends, ReplayDone(e)
    PROVE  SessionInv'
<1>1. /\ UNCHANGED <<version, moq, pending, stolen, buffer, pc, wire, written, parsed, requested, closed>>
      /\ Running(e) /\ loop[e].pc = "replay" /\ stolen[e] = Empty /\ loop' = [loop EXCEPT ![e] = Idle]
  BY DEF ReplayDone
<1>2. Idle \in [pc : Stages, stream : Streams] /\ Idle.pc = "idle"
  <2>1. "client" \in Ends /\ 0 \in 0 .. MaxCalls["client"] + 1
    BY TheStreams DEF Ends
  <2>2. <<"client", 0>> \in Streams
    BY <2>1, TheStreams
  <2>. QED  BY <2>2 DEF Idle, Stages
<1>3. /\ loop' \in [Ends -> [pc : Stages, stream : Streams]] /\ loop'[Peer(e)] = loop[Peer(e)]
      /\ loop'[e].pc = "idle"
  BY <1>1, <1>2, TheEnds DEF SessionInv, SessionTypes
<1>4. SessionTypes'
  BY <1>1, <1>3 DEF SessionInv, SessionTypes
<1>5. EndInv(Peer(e))'
  BY <1>1, <1>3, OtherEnd DEF Own
<1>6. Flow(e) /\ Held(e) /\ Stage(e) /\ Starts(e) /\ Announced(e)
  BY <1>1 DEF SessionInv, EndInv
<1>7. Running(e)' = Running(e)
  BY <1>1 DEF Running
<1>8. Flow(e)'
  BY <1>1, <1>6, <1>7 DEF Flow
<1>9. Held(e)'
  <2>1. (version >= 17 /\ moq[e].control) => pending[e] = Empty /\ moq[e].recvd
    BY <1>1, <1>6 DEF Held, Opening
  <2>2. ~moq[e].check
    BY <1>1, <1>6 DEF Held
  <2>. QED  BY <1>1, <1>3, <1>6, <2>1, <2>2, SameStreams DEF Held
<1>10. Stage(e)' /\ Starts(e)' /\ Announced(e)'
  BY <1>1, <1>3, <1>6, <1>7, SameStreams DEF Stage, Starts, Announced
<1>11. EndInv(e)'
  BY <1>8, <1>9, <1>10 DEF EndInv
<1>. QED  BY <1>4, <1>5, <1>11, BothEnds

LEMMA ConnectedStep ==
    ASSUME SessionInv, NEW e \in Ends, Connected(e)
    PROVE  SessionInv'
<1>1. /\ UNCHANGED <<version, pending, stolen, buffer, pc, wire, written, parsed, requested, closed>>
      /\ loop[e].pc = "accepted" /\ moq' = [moq EXCEPT ![e].connected = TRUE]
      /\ loop' = [loop EXCEPT ![e].pc = "parsing"]
  BY DEF Connected
<1>2. moq \in [Ends -> Context] /\ Peer(e) \in Ends /\ Peer(e) # e
  BY TheEnds DEF SessionInv, SessionTypes
<1>3. /\ moq' \in [Ends -> Context] /\ moq'[Peer(e)] = moq[Peer(e)] /\ moq'[e].state = moq[e].state
      /\ moq'[e].control = moq[e].control /\ moq'[e].sent = moq[e].sent /\ moq'[e].recvd = moq[e].recvd
      /\ moq'[e].check = moq[e].check
  <2> DEFINE r == [moq[e] EXCEPT !.connected = TRUE]
  <2>1. moq' = [moq EXCEPT ![e] = r]
    BY <1>1, <1>2 DEF Context
  <2>2. /\ r \in Context /\ r.state = moq[e].state /\ r.control = moq[e].control /\ r.sent = moq[e].sent
        /\ r.recvd = moq[e].recvd /\ r.check = moq[e].check
    <3>1. moq[e] \in Context
      BY <1>2
    <3>. QED  BY ONLY <3>1 DEF Context
  <2> HIDE DEF r
  <2>. QED  BY <1>2, <2>1, <2>2
<1>4. /\ loop' \in [Ends -> [pc : Stages, stream : Streams]] /\ loop'[Peer(e)] = loop[Peer(e)]
      /\ loop'[e].pc = "parsing" /\ loop'[e].stream = loop[e].stream
  BY <1>1, <1>2 DEF SessionInv, SessionTypes, Stages
<1>5. SessionTypes'
  BY <1>1, <1>3, <1>4 DEF SessionInv, SessionTypes
<1>6. EndInv(Peer(e))'
  BY <1>1, <1>3, <1>4, OtherEnd DEF Own
<1>7. Flow(e) /\ (Running(e) => Held(e)) /\ Stage(e) /\ Starts(e) /\ Announced(e) /\ ~(version >= 17)
  BY <1>1 DEF SessionInv, EndInv, Stage
<1>8. Running(e)' = Running(e)
  BY <1>1, <1>3 DEF Running
<1>9. Flow(e)'
  BY <1>1, <1>7, <1>8 DEF Flow
<1>10. Running(e)' => Held(e)'
  BY <1>1, <1>3, <1>4, <1>7, <1>8, SameStreams DEF Held
<1>11. Stage(e)' /\ Starts(e)' /\ Announced(e)'
  BY <1>1, <1>3, <1>4, <1>7, <1>8, SameStreams DEF Stage, Starts, Announced
<1>12. EndInv(e)'
  BY <1>9, <1>10, <1>11 DEF EndInv
<1>. QED  BY <1>5, <1>6, <1>12, BothEnds

LEMMA ParseDoneStep ==
    ASSUME SessionInv, NEW e \in Ends, ParseDone(e)
    PROVE  SessionInv'
<1>1. /\ UNCHANGED <<version, buffer, pc, wire, written, parsed, requested, closed>>
      /\ Running(e) /\ loop[e].pc = "parsing" /\ ~Complete(buffer[e][loop[e].stream])
      /\ loop' = [loop EXCEPT ![e].pc = "replay"]
  BY DEF ParseDone
<1>2. moq \in [Ends -> Context] /\ Peer(e) \in Ends /\ Peer(e) # e
  BY TheEnds DEF SessionInv, SessionTypes
<1>3. /\ loop' \in [Ends -> [pc : Stages, stream : Streams]] /\ loop'[Peer(e)] = loop[Peer(e)]
      /\ loop'[e].pc = "replay"
  BY <1>1, <1>2 DEF SessionInv, SessionTypes, Stages
<1>4. Flow(e) /\ Held(e) /\ Stage(e) /\ Starts(e) /\ Announced(e)
  BY <1>1 DEF SessionInv, EndInv
<1>5. CASE moq[e].check
  <2>1. moq' = [moq EXCEPT ![e].check = FALSE] /\ HandlePending(e)
    BY <1>5 DEF ParseDone
  <2>2. /\ moq' \in [Ends -> Context] /\ moq'[Peer(e)] = moq[Peer(e)] /\ moq'[e].state = moq[e].state
        /\ moq'[e].control = moq[e].control /\ moq'[e].sent = moq[e].sent /\ moq'[e].recvd = moq[e].recvd
        /\ moq'[e].connected = moq[e].connected /\ moq'[e].check = FALSE
    <3> DEFINE r == [moq[e] EXCEPT !.check = FALSE]
    <3>1. moq' = [moq EXCEPT ![e] = r]
      BY <1>2, <2>1 DEF Context
    <3>2. /\ r \in Context /\ r.state = moq[e].state /\ r.control = moq[e].control /\ r.sent = moq[e].sent
          /\ r.recvd = moq[e].recvd /\ r.connected = moq[e].connected /\ r.check = FALSE
      <4>1. moq[e] \in Context
        BY <1>2
      <4>. QED  BY ONLY <4>1 DEF Context
    <3> HIDE DEF r
    <3>. QED  BY <1>2, <3>1, <3>2
  <2>3. /\ stolen' \in Tables /\ pending' \in Tables
        /\ stolen'[e] = pending[e] /\ pending'[e] = Empty
        /\ stolen'[Peer(e)] = stolen[Peer(e)] /\ pending'[Peer(e)] = pending[Peer(e)]
    BY <2>1, Stolen
  <2>4. SessionTypes'
    BY <1>1, <1>3, <2>2, <2>3 DEF SessionInv, SessionTypes
  <2>5. EndInv(Peer(e))'
    BY <1>1, <1>3, <2>2, <2>3, OtherEnd DEF Own
  <2>6. moq[e].recvd /\ stolen[e] = Empty
    BY <1>1, <1>4, <1>5 DEF Held
  <2>7. Running(e)' = Running(e)
    BY <1>1, <2>2 DEF Running
  <2>8. Flow(e)'
    BY <1>1, <2>3, <2>6, <2>7, FlowStolen
  <2>9. Held(e)'
    <3>1. /\ \A s \in Streams : pending'[e][s] = <<>>
          /\ \A s \in Streams : stolen'[e][s] # <<>> => version >= 17 /\ Bidirectional(s)
      BY <1>4, <2>3, Nothing DEF Held
    <3>2. ~moq[e].control => \A s \in Streams : parsed[e][s] = <<>>
      BY <1>4 DEF Held
    <3>. QED  BY <1>1, <1>3, <2>2, <2>3, <2>6, <3>1, <3>2, SameStreams DEF Held
  <2>10. Stage(e)' /\ Starts(e)' /\ Announced(e)'
    BY <1>1, <1>3, <1>4, <2>2, <2>7, SameStreams DEF Stage, Starts, Announced
  <2>11. EndInv(e)'
    BY <2>8, <2>9, <2>10 DEF EndInv
  <2>. QED  BY <2>4, <2>5, <2>11, BothEnds
<1>6. CASE ~moq[e].check
  <2>1. UNCHANGED <<moq, pending, stolen>>
    BY <1>6 DEF ParseDone
  <2>2. SessionTypes'
    BY <1>1, <1>3, <2>1 DEF SessionInv, SessionTypes
  <2>3. EndInv(Peer(e))'
    BY <1>1, <1>3, <2>1, OtherEnd DEF Own
  <2>4. Running(e)' = Running(e)
    BY <1>1, <2>1 DEF Running
  <2>5. Flow(e)'
    BY <1>1, <1>4, <2>1, <2>4 DEF Flow
  <2>6. Held(e)'
    <3>1. ~Opening(e)
      <4>1. Len(buffer[e][loop[e].stream]) \in Nat
        BY LenProperties DEF SessionInv, SessionTypes, Tables
      <4>. QED  BY <1>1, <1>6, <4>1 DEF Opening, SetupHeads, Complete
    <3>. QED  BY <1>1, <1>3, <1>4, <1>6, <2>1, <3>1, SameStreams DEF Held
  <2>7. Stage(e)' /\ Starts(e)' /\ Announced(e)'
    BY <1>1, <1>3, <1>4, <2>1, <2>4, SameStreams DEF Stage, Starts, Announced
  <2>8. EndInv(e)'
    BY <2>5, <2>6, <2>7 DEF EndInv
  <2>. QED  BY <2>2, <2>3, <2>8, BothEnds
<1>. QED  BY <1>5, <1>6

\* Once the session is over nothing more is held back.
LEMMA FlowDown ==
    ASSUME SessionInv, NEW e \in Ends, SessionTypes', ~Running(e)',
           parsed'[e] = parsed[e], buffer'[e] = buffer[e], written'[e] = written[e]
    PROVE  Flow(e)'
<1>1. ASSUME NEW s \in Streams
      PROVE  Kept(written[e][s], parsed[e][s], buffer[e][s], stolen'[e][s], pending'[e][s], wire'[e][s], FALSE)
  <2>1. Kept(written[e][s], parsed[e][s], buffer[e][s], stolen[e][s], pending[e][s], wire[e][s], Running(e))
    BY DEF SessionInv, EndInv, Flow
  <2>2. stolen'[e][s] \in Seq(Pieces) /\ pending'[e][s] \in Seq(Pieces) /\ wire'[e][s] \in Seq(Pieces)
    BY DEF SessionTypes, Tables
  <2>. QED  BY <2>1, <2>2, KeptDown
<1>2. Running(e)' = FALSE
  BY DEF Running
<1>. QED  BY <1>1, <1>2 DEF Flow

LEMMA ConnectionGoneStep ==
    ASSUME SessionInv, NEW e \in Ends, ConnectionGone(e)
    PROVE  SessionInv'
<1>1. /\ UNCHANGED <<version, stolen, buffer, loop, pc, wire, written, parsed, requested, closed>>
      /\ moq' = [moq EXCEPT ![e].state = "gone"] /\ pending' = [pending EXCEPT ![e] = Empty]
      /\ loop[e].pc # "opening"
  BY DEF ConnectionGone
<1>2. moq \in [Ends -> Context] /\ Peer(e) \in Ends /\ Peer(e) # e
  BY TheEnds DEF SessionInv, SessionTypes
<1>3. /\ moq' \in [Ends -> Context] /\ moq'[Peer(e)] = moq[Peer(e)] /\ moq'[e].state = "gone"
      /\ moq'[e].connected = moq[e].connected /\ moq'[e].recvd = moq[e].recvd
      /\ moq'[e].control = moq[e].control
  BY <1>1, <1>2 DEF Context
<1>4. pending' \in Tables /\ pending'[Peer(e)] = pending[Peer(e)]
  BY <1>1, <1>2, Nothing DEF SessionInv, SessionTypes, Tables
<1>5. SessionTypes'
  BY <1>1, <1>3, <1>4 DEF SessionInv, SessionTypes
<1>6. EndInv(Peer(e))'
  BY <1>1, <1>3, <1>4, OtherEnd DEF Own
<1>7. ~Running(e)'
  BY <1>3 DEF Running
<1>8. Stage(e) /\ Starts(e) /\ Announced(e)
  BY DEF SessionInv, EndInv
<1>9. Flow(e)'
  BY <1>1, <1>5, <1>7, FlowDown
<1>10. Stage(e)' /\ Starts(e)' /\ Announced(e)'
  BY <1>1, <1>3, <1>7, <1>8, SameStreams DEF Stage, Starts, Announced
<1>11. EndInv(e)'
  BY <1>7, <1>9, <1>10 DEF EndInv
<1>. QED  BY <1>5, <1>6, <1>11, BothEnds

-----------------------------------------------------------------------------
(* Data arrives, or is replayed.                                             *)

HeldBack(e, s, d) ==
    /\ Changed(pending, pending', e, s, pending[e][s] \o d, Seq(Pieces))
    /\ UNCHANGED <<moq, buffer, parsed, loop, closed>>

Dropped == UNCHANGED <<moq, pending, buffer, parsed, loop, closed>>

Refused(e) ==
    /\ closed' \in [Ends -> {"open", "rejected", "protocol_violation", "invalid_request_id"}]
    /\ closed'[e] # "open" /\ closed'[Peer(e)] = closed[Peer(e)]
    /\ UNCHANGED <<moq, pending, buffer, parsed, loop>>

Taken(e, s, d) ==
    /\ moq' \in [Ends -> Context] /\ moq'[Peer(e)] = moq[Peer(e)] /\ moq'[e].state = moq[e].state
    /\ moq'[e].control = TRUE /\ moq'[e].sent = moq[e].sent /\ moq'[e].recvd = moq[e].recvd
    /\ moq'[e].connected = moq[e].connected /\ moq'[e].check = moq[e].check /\ Numbers(e)' = Numbers(e)
    /\ Changed(parsed, parsed', e, s, parsed[e][s] \o d, Seq(Pieces))
    /\ \/ Changed(buffer, buffer', e, s, buffer[e][s] \o d, Seq(Pieces))
       \/ s # RemoteControl(e) /\ buffer' = buffer /\ ~Parsable(e, s, d)
    /\ loop' \in [Ends -> [pc : Stages, stream : Streams]] /\ loop'[Peer(e)] = loop[Peer(e)]
    /\ loop'[e].pc = "parsing" /\ loop'[e].stream = s
    /\ UNCHANGED <<pending, closed>>

LEMMA Incoming ==
    ASSUME SessionInv, NEW e \in Ends, NEW s \in Streams, NEW d \in Seq(Pieces),
           NEW then, loop[e].pc = then, StreamIncoming(e, s, d, then)
    PROVE  \/ HeldBack(e, s, d) /\ (moq[e].state = "none" \/ (version >= 17 /\ Bidirectional(s) /\ ~moq[e].control))
           \/ Dropped /\ version = 16 /\ ~moq[e].control /\ ~Bidirectional(s) /\ moq[e].state # "none"
           \/ Refused(e)
           \/ Taken(e, s, d) /\ moq[e].state # "none" /\ (moq[e].control \/ s = RemoteControl(e))
<1>1. /\ moq \in [Ends -> Context] /\ Peer(e) \in Ends /\ Peer(e) # e
      /\ pending \in Tables /\ buffer \in Tables /\ parsed \in Tables
      /\ loop \in [Ends -> [pc : Stages, stream : Streams]]
      /\ closed \in [Ends -> {"open", "rejected", "protocol_violation", "invalid_request_id"}]
  BY TheEnds DEF SessionInv, SessionTypes
<1>2. /\ pending[e][s] \o d \in Seq(Pieces) /\ buffer[e][s] \o d \in Seq(Pieces) /\ parsed[e][s] \o d \in Seq(Pieces)
  <2>1. pending[e][s] \in Seq(Pieces) /\ buffer[e][s] \in Seq(Pieces) /\ parsed[e][s] \in Seq(Pieces)
    BY <1>1 DEF Tables
  <2>. QED  BY <2>1, Cat
<1>3. [loop EXCEPT ![e].pc = then] = loop
  BY <1>1
<1>4. ASSUME Keep(e, s, d, then) /\ UNCHANGED closed PROVE HeldBack(e, s, d)
  <2>1. pending' = [pending EXCEPT ![e][s] = pending[e][s] \o d]
    BY <1>4 DEF Keep, TrackPending
  <2>2. Changed(pending, pending', e, s, pending[e][s] \o d, Seq(Pieces))
    BY <1>1, <1>2, <2>1, OneChanged DEF Tables
  <2>. QED  BY <1>3, <1>4, <2>2 DEF Keep, HeldBack
<1>5. ASSUME closed' = [closed EXCEPT ![e] = "protocol_violation"], Ignore(e, then) PROVE Refused(e)
  BY <1>1, <1>3, <1>5 DEF Ignore, Refused
<1>6. ASSUME moq' = [moq EXCEPT ![e].control = TRUE], ParseMessage(e, s, d), UNCHANGED closed PROVE Taken(e, s, d)
  <2>1. /\ moq' \in [Ends -> Context] /\ moq'[Peer(e)] = moq[Peer(e)] /\ moq'[e].state = moq[e].state
        /\ moq'[e].control = TRUE /\ moq'[e].sent = moq[e].sent /\ moq'[e].recvd = moq[e].recvd
        /\ moq'[e].connected = moq[e].connected /\ moq'[e].check = moq[e].check /\ Numbers(e)' = Numbers(e)
    <3> DEFINE r == [moq[e] EXCEPT !.control = TRUE]
    <3>1. moq' = [moq EXCEPT ![e] = r]
      BY <1>1, <1>6 DEF Context
    <3>2. /\ r \in Context /\ r.state = moq[e].state /\ r.control = TRUE /\ r.sent = moq[e].sent
          /\ r.recvd = moq[e].recvd /\ r.connected = moq[e].connected /\ r.check = moq[e].check
          /\ r.next = moq[e].next /\ r.expected = moq[e].expected /\ r.max = moq[e].max
          /\ r.local = moq[e].local /\ r.goaway = moq[e].goaway
      <4>1. moq[e] \in Context
        BY <1>1
      <4>. QED  BY ONLY <4>1 DEF Context
    <3> HIDE DEF r
    <3>. QED  BY <1>1, <3>1, <3>2 DEF Numbers
  <2>2. parsed' = [parsed EXCEPT ![e][s] = parsed[e][s] \o d]
    BY <1>6 DEF ParseMessage
  <2>3. Changed(parsed, parsed', e, s, parsed[e][s] \o d, Seq(Pieces))
    BY <1>1, <1>2, <2>2, OneChanged DEF Tables
  <2>4. /\ loop' \in [Ends -> [pc : Stages, stream : Streams]] /\ loop'[Peer(e)] = loop[Peer(e)]
        /\ loop'[e].pc = "parsing" /\ loop'[e].stream = s
    BY <1>1, <1>6 DEF ParseMessage, Loop, Stages
  <2>5. s = RemoteControl(e) => Parsable(e, s, d)
    BY <2>1 DEF Parsable, IsControl
  <2>6. \/ Changed(buffer, buffer', e, s, buffer[e][s] \o d, Seq(Pieces))
        \/ s # RemoteControl(e) /\ buffer' = buffer /\ ~Parsable(e, s, d)
    <3>1. CASE Parsable(e, s, d)
      <4>1. buffer' = [buffer EXCEPT ![e][s] = buffer[e][s] \o d]
        BY <1>6, <3>1 DEF ParseMessage
      <4>. QED  BY <1>1, <1>2, <4>1, OneChanged DEF Tables
    <3>2. CASE ~Parsable(e, s, d)
      BY <1>6, <2>5, <3>2 DEF ParseMessage
    <3>. QED  BY <3>1, <3>2
  <2>. QED  BY <1>6, <2>1, <2>3, <2>4, <2>6 DEF Taken, ParseMessage
<1>7. Ignore(e, then) /\ UNCHANGED closed => Dropped
  BY <1>3 DEF Ignore, Dropped
<1>. QED  BY <1>4, <1>5, <1>6, <1>7 DEF StreamIncoming

\* A step of the loop that only moves what arrived.
LEMMA IncomingTypes ==
    ASSUME SessionInv, NEW e \in Ends, NEW s \in Streams, NEW d \in Seq(Pieces),
           HeldBack(e, s, d) \/ Dropped \/ Refused(e) \/ Taken(e, s, d),
           UNCHANGED <<version, pc, written, requested>>,
           wire' \in Tables, wire'[Peer(e)] = wire[Peer(e)],
           stolen' \in Tables, stolen'[Peer(e)] = stolen[Peer(e)]
    PROVE  SessionTypes' /\ EndInv(Peer(e))'
<1>1. SessionTypes /\ Peer(e) \in Ends /\ Peer(e) # e
  BY TheEnds DEF SessionInv
<1>2. /\ moq' \in [Ends -> Context] /\ moq'[Peer(e)] = moq[Peer(e)]
      /\ closed' \in [Ends -> {"open", "rejected", "protocol_violation", "invalid_request_id"}]
      /\ closed'[Peer(e)] = closed[Peer(e)]
      /\ loop' \in [Ends -> [pc : Stages, stream : Streams]] /\ loop'[Peer(e)] = loop[Peer(e)]
  BY <1>1 DEF SessionTypes, HeldBack, Dropped, Refused, Taken
<1>3. /\ pending' \in Tables /\ pending'[Peer(e)] = pending[Peer(e)]
      /\ buffer' \in Tables /\ buffer'[Peer(e)] = buffer[Peer(e)]
      /\ parsed' \in Tables /\ parsed'[Peer(e)] = parsed[Peer(e)]
  BY <1>1 DEF SessionTypes, HeldBack, Dropped, Refused, Taken, Changed, Tables
<1>4. SessionTypes'
  BY <1>1, <1>2, <1>3 DEF SessionTypes
<1>5. Own(Peer(e))' = Own(Peer(e))
  BY <1>2, <1>3 DEF Own
<1>. QED  BY <1>4, <1>5, OtherEnd

\* A piece of what is on its way, and the rest.
LEMMA Pieced ==
    ASSUME NEW w \in Seq(Pieces), NEW n \in 1 .. Len(w)
    PROVE  /\ SubSeq(w, 1, n) \in Seq(Pieces) /\ SubSeq(w, n + 1, Len(w)) \in Seq(Pieces)
           /\ w = SubSeq(w, 1, n) \o SubSeq(w, n + 1, Len(w))
           /\ Len(SubSeq(w, 1, n)) = n
           /\ SetupHeads(w) /\ Uncut(w, n) => SetupHeads(SubSeq(w, 1, n))
<1>1. Len(w) \in Nat /\ n \in Nat /\ 1 <= n /\ n <= Len(w) /\ DOMAIN w = 1 .. Len(w)
  BY LenProperties
<1>2. \A i \in 1 .. Len(w) : w[i] \in Pieces
  BY <1>1, ElementOfSeq
<1>3. /\ SubSeq(w, 1, n) \in Seq(Pieces) /\ Len(SubSeq(w, 1, n)) = n
      /\ \A i \in 1 .. n : SubSeq(w, 1, n)[i] = w[i]
  <2>1. \A i \in 1 .. n : w[i] \in Pieces
    BY <1>1, <1>2
  <2>2. /\ SubSeq(w, 1, n) \in Seq(Pieces)
        /\ Len(SubSeq(w, 1, n)) = IF 1 <= n THEN n - 1 + 1 ELSE 0
        /\ \A i \in 1 .. n - 1 + 1 : SubSeq(w, 1, n)[i] = w[1 + i - 1]
    BY <1>1, <2>1, SubSeqProperties
  <2>3. n - 1 + 1 = n /\ \A i \in 1 .. n : 1 + i - 1 = i
    BY <1>1
  <2>. QED  BY <1>1, <2>2, <2>3
<1>4. SubSeq(w, n + 1, Len(w)) \in Seq(Pieces)
  <2>1. n + 1 \in Int /\ Len(w) \in Int /\ \A i \in n + 1 .. Len(w) : w[i] \in Pieces
    BY <1>1, <1>2
  <2>. QED  BY <1>1, <2>1, SubSeqProperties
<1>5. w = SubSeq(w, 1, n) \o SubSeq(w, n + 1, Len(w))
  <2>1. SubSeq(w, 1, n) \o SubSeq(w, n + 1, Len(w)) = SubSeq(w, 1, Len(w))
    <3>1. 1 \in 1 .. Len(w) + 1 /\ n \in 1 - 1 .. Len(w) /\ Len(w) \in n .. Len(w)
      BY <1>1
    <3>. QED  BY <3>1, ConcatAdjacentSubSeq
  <2>2. SubSeq(w, 1, Len(w)) = w
    BY SubSeqFull
  <2>. QED  BY <2>1, <2>2
<1>6. ASSUME SetupHeads(w), Uncut(w, n) PROVE SetupHeads(SubSeq(w, 1, n))
  <2>1. n >= 2
    <3>1. n = Len(w) => n >= 2
      BY <1>6 DEF SetupHeads
    <3>2. w[n][1].type # "SETUP" \/ w[n][2] = 2 => n # 1
      BY <1>6 DEF SetupHeads
    <3>3. n = Len(w) \/ w[n][1].type # "SETUP" \/ w[n][2] = 2
      BY <1>6 DEF Uncut
    <3>4. n >= 2 \/ n # 1
      BY <3>1, <3>2, <3>3
    <3>. QED  BY <1>1, <3>4
  <2>2. SubSeq(w, 1, n)[1] = w[1] /\ SubSeq(w, 1, n)[2] = w[2]
    BY <1>1, <1>3, <2>1
  <2>. QED  BY <1>3, <1>6, <2>1, <2>2 DEF SetupHeads
<1>. QED  BY <1>3, <1>4, <1>5, <1>6

\* What is on its way has been written, and is all of it before anything is parsed or held back.
LEMMA WireWritten ==
    ASSUME NEW w, NEW p, NEW b, NEW st, NEW pe, NEW wi, Kept(w, p, b, st, pe, wi, TRUE), wi # <<>>
    PROVE  w # <<>>
<1>1. /\ p \in Seq(Pieces) /\ st \in Seq(Pieces) /\ pe \in Seq(Pieces) /\ wi \in Seq(Pieces)
      /\ w = p \o (st \o (pe \o wi))
  BY DEF Kept
<1>2. pe \o wi \in Seq(Pieces) /\ st \o (pe \o wi) \in Seq(Pieces)
  BY <1>1, Cat
<1>. QED  BY <1>1, <1>2, HeadsKept

LEMMA WireAlone ==
    ASSUME NEW w, NEW b, NEW wi, Kept(w, <<>>, b, <<>>, <<>>, wi, TRUE)
    PROVE  w = wi /\ b = <<>>
<1>1. /\ b \in Seq(Pieces) /\ wi \in Seq(Pieces) /\ <<>> \in Seq(Pieces)
      /\ w = <<>> \o (<<>> \o (<<>> \o wi)) /\ Len(b) <= Len(<<>>)
  BY DEF Kept
<1>2. <<>> \o wi = wi
  BY <1>1, Cat
<1>3. Len(<<>>) = 0 /\ Len(b) \in Nat
  BY <1>1, LenProperties
<1>. QED  BY <1>1, <1>2, <1>3, EmptySeq

LEMMA ControlIsNot ==
    ASSUME NEW e \in Ends, version >= 17
    PROVE  ~Bidirectional(RemoteControl(e)) /\ RemoteControl(e)[2] = 0
<1>1. version # 16
  OBVIOUS
<1>. QED  BY <1>1 DEF Bidirectional, RemoteControl, Control

LEMMA NotBidirectional ==
    ASSUME NEW e \in Ends, NEW s \in Streams, version = 16, ~Bidirectional(s)
    PROVE  s = DataStream(e) \/ s = DataStream(Peer(e))
<1>1. PICK f \in Ends : s \in {f} \X (0 .. MaxCalls[f] + 1)
  BY DEF Streams
<1>2. s[1] = f /\ f \in {e, Peer(e)}
  BY <1>1, TheEnds
<1>. QED  BY <1>2 DEF Bidirectional

LEMMA DeliverStep ==
    ASSUME ~DataOvertakes, ~CutSetup, SessionInv, NEW e \in Ends, Deliver(e)
    PROVE  SessionInv'
<1>1. /\ UNCHANGED <<version, stolen, pc, written, requested>> /\ Running(e) /\ loop[e].pc = "idle"
  BY DEF Deliver
<1>a. PICK s \in Streams : /\ MayArrive(e, s)
                            /\ \E n \in 1 .. Len(wire[e][s]) :
                                 /\ Uncut(wire[e][s], n)
                                 /\ StreamIncoming(e, s, SubSeq(wire[e][s], 1, n), "idle")
                                 /\ wire' = [wire EXCEPT ![e][s] = SubSeq(@, n + 1, Len(@))]
  BY DEF Deliver
<1>2. PICK n \in 1 .. Len(wire[e][s]) :
         /\ MayArrive(e, s) /\ Uncut(wire[e][s], n)
         /\ StreamIncoming(e, s, SubSeq(wire[e][s], 1, n), "idle")
         /\ wire' = [wire EXCEPT ![e][s] = SubSeq(@, n + 1, Len(@))]
  BY <1>a
<1> DEFINE d == SubSeq(wire[e][s], 1, n)
           rest == SubSeq(wire[e][s], n + 1, Len(wire[e][s]))
<1>3. wire \in Tables /\ wire[e][s] \in Seq(Pieces) /\ stolen \in Tables
  BY DEF SessionInv, SessionTypes, Tables
<1>4. /\ d \in Seq(Pieces) /\ rest \in Seq(Pieces) /\ wire[e][s] = d \o rest /\ wire[e][s] # <<>>
      /\ SetupHeads(wire[e][s]) => SetupHeads(d)
  <2>1. Len(wire[e][s]) \in Nat /\ Len(wire[e][s]) # 0
    BY <1>3, LenProperties
  <2>2. /\ d \in Seq(Pieces) /\ rest \in Seq(Pieces) /\ wire[e][s] = d \o rest
        /\ SetupHeads(wire[e][s]) /\ Uncut(wire[e][s], n) => SetupHeads(d)
    BY <1>3, Pieced
  <2>3. wire[e][s] # <<>>
    BY <1>3, <2>1, EmptySeq
  <2>. QED  BY <1>2, <2>2, <2>3
<1>5. MayArrive(e, s) /\ StreamIncoming(e, s, d, "idle") /\ wire' = [wire EXCEPT ![e][s] = rest]
  BY <1>2
<1> HIDE DEF d, rest
<1>6. Changed(wire, wire', e, s, rest, Seq(Pieces))
  BY <1>3, <1>4, <1>5, OneChanged DEF Tables
<1>7. /\ wire' \in Tables /\ wire'[Peer(e)] = wire[Peer(e)] /\ wire'[e][s] = rest
      /\ \A r \in Streams : r # s => wire'[e][r] = wire[e][r]
  BY <1>6, TheEnds DEF Changed, Tables
<1>8. Flow(e) /\ Held(e) /\ Stage(e) /\ Starts(e) /\ Announced(e)
  BY <1>1 DEF SessionInv, EndInv
<1>9. \A r \in Streams : stolen[e][r] = <<>>
  BY <1>1, <1>8, Nothing DEF Held
<1>10. \A r \in Streams : Kept(written[e][r], parsed[e][r], buffer[e][r], <<>>, pending[e][r], wire[e][r], TRUE)
  <2>1. Running(e) = TRUE
    BY <1>1 DEF Running
  <2>. QED  BY <1>8, <1>9, <2>1 DEF Flow
<1>11. \/ HeldBack(e, s, d) /\ (moq[e].state = "none" \/ (version >= 17 /\ Bidirectional(s) /\ ~moq[e].control))
       \/ Dropped /\ version = 16 /\ ~moq[e].control /\ ~Bidirectional(s) /\ moq[e].state # "none"
       \/ Refused(e)
       \/ Taken(e, s, d) /\ moq[e].state # "none" /\ (moq[e].control \/ s = RemoteControl(e))
  BY <1>1, <1>4, <1>5, Incoming
<1>12. SessionTypes' /\ EndInv(Peer(e))'
  BY <1>1, <1>3, <1>4, <1>7, <1>11, IncomingTypes
<1>13. ASSUME Dropped, version = 16, ~moq[e].control, ~Bidirectional(s) PROVE FALSE
  <2>1. written[e][s] # <<>>
    <3>1. Kept(written[e][s], parsed[e][s], buffer[e][s], <<>>, pending[e][s], wire[e][s], TRUE)
      BY <1>10
    <3>2. wire[e][s] # <<>>
      BY <1>4
    <3>. QED  BY ONLY <3>1, <3>2, WireWritten
  <2>2. s # DataStream(Peer(e))
    BY <1>5, <1>13 DEF MayArrive
  <2>3. s = DataStream(e)
    BY <1>13, <2>2, NotBidirectional
  <2>. QED  BY <1>8, <2>1, <2>3 DEF Starts
<1>14. ASSUME HeldBack(e, s, d), moq[e].state = "none" \/ (version >= 17 /\ Bidirectional(s) /\ ~moq[e].control)
       PROVE  EndInv(e)'
  <2>1. /\ UNCHANGED <<moq, buffer, parsed, loop, closed>>
        /\ pending'[e][s] = pending[e][s] \o d
        /\ \A r \in Streams : r # s => pending'[e][r] = pending[e][r]
    BY <1>14 DEF HeldBack, Changed
  <2>2. Bidirectional(s) /\ version >= 17 /\ ~moq[e].control
    <3>1. moq[e].state = "none" => ~moq[e].control
      BY <1>8 DEF Stage
    <3>2. EarlyData \subseteq {17, 18}
      BY SessionAssumption
    <3>. QED  BY <1>5, <1>14, <3>1, <3>2 DEF MayArrive
  <2>3. Running(e)' = Running(e)
    BY <2>1 DEF Running
  <2>4. Flow(e)'
    <3>1. ASSUME NEW r \in Streams
          PROVE  Kept(written[e][r], parsed[e][r], buffer[e][r], <<>>, pending'[e][r], wire'[e][r], Running(e))
      <4>1. CASE r = s
        <5>1. /\ Kept(written[e][s], parsed[e][s], buffer[e][s], <<>>, pending[e][s], wire[e][s], TRUE)
              /\ pending'[e][s] = pending[e][s] \o d
          BY <1>10, <2>1
        <5>2. wire[e][s] = d \o rest /\ d \in Seq(Pieces) /\ rest \in Seq(Pieces) /\ wire'[e][s] = rest
          BY <1>4, <1>7
        <5> DEFINE w == written[e][s]
                   q == parsed[e][s]
                   b == buffer[e][s]
                   pe == pending[e][s]
        <5>3. Kept(w, q, b, <<>>, pe, d \o rest, TRUE)
          BY <5>1, <5>2
        <5> HIDE DEF w, q, b, pe, d, rest
        <5>4. Kept(w, q, b, <<>>, pe \o d, rest, Running(e))
          BY ONLY <5>2, <5>3, KeptTracked
        <5>. QED  BY <4>1, <5>1, <5>2, <5>4 DEF w, q, b, pe
      <4>2. CASE r # s
        <5>1. pending'[e][r] = pending[e][r] /\ wire'[e][r] = wire[e][r]
          BY <1>7, <2>1, <4>2
        <5>2. Kept(written[e][r], parsed[e][r], buffer[e][r], <<>>, pending[e][r], wire[e][r], TRUE)
          BY <1>10
        <5>. QED  BY <5>1, <5>2, KeptRunning
      <4>. QED  BY <4>1, <4>2
    <3>. QED  BY <1>1, <1>9, <2>1, <2>3, <3>1 DEF Flow
  <2>5. Held(e)'
    <3>1. \A r \in Streams : pending'[e][r] # <<>> => version >= 17 /\ Bidirectional(r)
      <4>1. ASSUME NEW r \in Streams, pending'[e][r] # <<>> PROVE version >= 17 /\ Bidirectional(r)
        <5>1. CASE r = s
          BY <2>2, <5>1
        <5>2. CASE r # s
          BY <1>8, <2>1, <4>1, <5>2 DEF Held
        <5>. QED  BY <5>1, <5>2
      <4>. QED  BY <4>1
    <3>2. stolen'[e] = Empty /\ \A r \in Streams : stolen'[e][r] = <<>>
      BY <1>1, <1>8, <1>9 DEF Held
    <3>3. ~moq'[e].check /\ ~moq'[e].control /\ loop'[e].pc = "idle" /\ \A r \in Streams : parsed'[e][r] = <<>>
      BY <1>1, <1>8, <2>1, <2>2 DEF Held
    <3>. QED  BY <1>1, <3>1, <3>2, <3>3, SameStreams DEF Held
  <2>6. Stage(e)' /\ Starts(e)' /\ Announced(e)'
    BY <1>1, <1>8, <2>1, <2>3, SameStreams DEF Stage, Starts, Announced
  <2>. QED  BY <2>4, <2>5, <2>6 DEF EndInv
<1>15. ASSUME Refused(e) PROVE EndInv(e)'
  <2>1. UNCHANGED <<moq, pending, buffer, parsed, loop>> /\ ~Running(e)'
    BY <1>15 DEF Refused, Running
  <2>2. Flow(e)'
    BY <1>1, <1>12, <2>1, FlowDown
  <2>3. Stage(e)' /\ Starts(e)' /\ Announced(e)'
    BY <1>1, <1>8, <2>1, SameStreams DEF Stage, Starts, Announced
  <2>. QED  BY <2>1, <2>2, <2>3 DEF EndInv
<1>16. ASSUME Taken(e, s, d), moq[e].state # "none", moq[e].control \/ s = RemoteControl(e) PROVE EndInv(e)'
  <2>1. /\ moq'[e].state = moq[e].state /\ moq'[e].control = TRUE /\ moq'[e].sent = moq[e].sent
        /\ moq'[e].recvd = moq[e].recvd /\ moq'[e].connected = moq[e].connected /\ moq'[e].check = moq[e].check
        /\ parsed'[e][s] = parsed[e][s] \o d
        /\ \A r \in Streams : r # s => parsed'[e][r] = parsed[e][r]
        /\ loop'[e].pc = "parsing" /\ loop'[e].stream = s
        /\ UNCHANGED <<pending, closed>>
    BY <1>16 DEF Taken, Changed
  <2>2. /\ \A r \in Streams : r # s => buffer'[e][r] = buffer[e][r]
        /\ \/ buffer'[e][s] = buffer[e][s] \o d
           \/ s # RemoteControl(e) /\ buffer'[e][s] = buffer[e][s]
    BY <1>16 DEF Taken, Changed
  <2>3. Running(e)' = Running(e)
    BY <2>1 DEF Running
  <2>4. moq[e].control /\ version >= 17 => pending[e] = Empty /\ moq[e].recvd
    BY <1>1, <1>8 DEF Held, Opening
  <2>5. pending[e][s] = <<>>
    <3> SUFFICES ASSUME pending[e][s] # <<>> PROVE FALSE
      OBVIOUS
    <3>1. version >= 17 /\ Bidirectional(s)
      BY <1>8 DEF Held
    <3>2. moq[e].control
      BY <1>16, <3>1, ControlIsNot
    <3>. QED  BY <2>4, <3>1, <3>2, Nothing
  <2>6. Flow(e)'
    <3>1. ASSUME NEW r \in Streams
          PROVE  Kept(written[e][r], parsed'[e][r], buffer'[e][r], <<>>, pending[e][r], wire'[e][r], Running(e))
      <4>1. CASE r = s
        <5>1. Kept(written[e][s], parsed[e][s], buffer[e][s], <<>>, <<>>, d \o rest, TRUE)
          BY <1>4, <1>10, <2>5
        <5>2. buffer'[e][s] \in {buffer[e][s], buffer[e][s] \o d}
          BY <2>2
        <5>3. Kept(written[e][s], parsed[e][s] \o d, buffer'[e][s], <<>>, <<>>, rest, Running(e))
          BY <1>4, <5>1, <5>2, KeptParsed
        <5>. QED  BY <1>7, <2>1, <2>5, <4>1, <5>3
      <4>2. CASE r # s
        <5>1. parsed'[e][r] = parsed[e][r] /\ buffer'[e][r] = buffer[e][r] /\ wire'[e][r] = wire[e][r]
          BY <1>7, <2>1, <2>2, <4>2
        <5>2. Kept(written[e][r], parsed[e][r], buffer[e][r], <<>>, pending[e][r], wire[e][r], TRUE)
          BY <1>10
        <5>. QED  BY <5>1, <5>2, KeptRunning
      <4>. QED  BY <4>1, <4>2
    <3>. QED  BY <1>1, <1>9, <2>1, <2>3, <3>1 DEF Flow
  <2>7. Held(e)'
    <3>1. /\ stolen'[e] = Empty /\ \A r \in Streams : stolen'[e][r] = <<>>
          /\ \A r \in Streams : pending'[e][r] # <<>> => version >= 17 /\ Bidirectional(r)
          /\ ~moq'[e].check
      BY <1>1, <1>8, <1>9, <2>1 DEF Held
    <3>2. version >= 17 => (pending'[e] = Empty /\ moq'[e].recvd) \/ Opening(e)'
      <4>1. CASE moq[e].control
        BY <2>1, <2>4, <4>1
      <4>2. ASSUME ~moq[e].control, version >= 17 PROVE Opening(e)'
        <5>1. s = RemoteControl(e) /\ parsed[e][s] = <<>>
          BY <1>8, <1>16, <4>2 DEF Held
        <5>2. written[e][s] = wire[e][s] /\ buffer[e][s] = <<>>
          <6>1. Kept(written[e][s], <<>>, buffer[e][s], <<>>, <<>>, wire[e][s], TRUE)
            BY <1>10, <2>5, <5>1
          <6>. QED  BY ONLY <6>1, WireAlone
        <5>3. SetupHeads(d)
          BY <1>4, <1>8, <4>2, <5>1, <5>2 DEF Starts
        <5>4. buffer'[e][s] = d
          BY <1>4, <2>2, <5>1, <5>2, Cat
        <5>. QED  BY <1>1, <2>1, <5>1, <5>3, <5>4, SameStreams DEF Opening
      <4>. QED  BY <4>1, <4>2
    <3>. QED  BY <1>1, <2>1, <3>1, <3>2, SameStreams DEF Held
  <2>8. Stage(e)'
    BY <1>1, <1>8, <1>16, <2>1, <2>3 DEF Stage
  <2>9. Starts(e)' /\ Announced(e)'
    <3>1. version >= 17 => written[Peer(e)][Control(e)] # <<>>
      <4>1. moq[e].state = "up"
        BY <1>1, <1>8, <1>16 DEF Stage, Running, SessionInv, SessionTypes, Context
      <4>. QED  BY <1>8, <4>1 DEF Announced
    <3>. QED  BY <1>1, <1>8, <3>1, SameStreams DEF Starts, Announced
  <2>. QED  BY <2>6, <2>7, <2>8, <2>9 DEF EndInv
<1>17. EndInv(e)'
  BY <1>11, <1>13, <1>14, <1>15, <1>16
<1>. QED  BY <1>12, <1>17, BothEnds

LEMMA ReplayStep ==
    ASSUME SessionInv, NEW e \in Ends, Replay(e)
    PROVE  SessionInv'
<1>1. UNCHANGED <<version, pc, wire, written, requested>> /\ Running(e) /\ loop[e].pc = "replay"
  BY DEF Replay
<1>2. PICK s \in Streams : /\ stolen[e][s] # <<>>
                           /\ StreamIncoming(e, s, stolen[e][s], "replay")
                           /\ stolen' = [stolen EXCEPT ![e][s] = <<>>]
  BY DEF Replay
<1> DEFINE d == stolen[e][s]
<1>3. /\ wire \in Tables /\ stolen \in Tables /\ d \in Seq(Pieces) /\ <<>> \in Seq(Pieces)
      /\ \A r \in Streams : stolen[e][r] \in Seq(Pieces) /\ pending[e][r] \in Seq(Pieces)
  BY Cat DEF SessionInv, SessionTypes, Tables
<1>4. Changed(stolen, stolen', e, s, <<>>, Seq(Pieces))
  BY <1>2, <1>3, OneChanged DEF Tables
<1>5. /\ stolen' \in Tables /\ stolen'[Peer(e)] = stolen[Peer(e)] /\ stolen'[e][s] = <<>>
      /\ \A r \in Streams : r # s => stolen'[e][r] = stolen[e][r]
  BY <1>4, TheEnds DEF Changed, Tables
<1>6. StreamIncoming(e, s, d, "replay") /\ d # <<>>
  BY <1>2
<1>7. Flow(e) /\ Held(e) /\ Stage(e) /\ Starts(e) /\ Announced(e)
  BY <1>1 DEF SessionInv, EndInv
<1>8. version >= 17 /\ version # 16 /\ Bidirectional(s) /\ pending[e][s] = <<>> /\ s # RemoteControl(e)
  <2>1. version >= 17 /\ Bidirectional(s) /\ pending[e][s] = <<>>
    BY <1>6, <1>7 DEF Held
  <2>. QED  BY <2>1, ControlIsNot
<1>9. \A r \in Streams : Kept(written[e][r], parsed[e][r], buffer[e][r], stolen[e][r], pending[e][r], wire[e][r], TRUE)
  <2>1. Running(e) = TRUE
    BY <1>1 DEF Running
  <2>. QED  BY <1>7, <2>1 DEF Flow
<1>10. Kept(written[e][s], parsed[e][s], buffer[e][s], d, <<>>, wire[e][s], TRUE)
  BY <1>8, <1>9
<1>11. \/ HeldBack(e, s, d) /\ (moq[e].state = "none" \/ (version >= 17 /\ Bidirectional(s) /\ ~moq[e].control))
       \/ Refused(e)
       \/ Taken(e, s, d) /\ moq[e].state # "none" /\ moq[e].control
  BY <1>1, <1>3, <1>6, <1>8, Incoming
<1> HIDE DEF d
<1>12. SessionTypes' /\ EndInv(Peer(e))'
  BY <1>1, <1>3, <1>5, <1>11, IncomingTypes
<1>13. ~moq[e].check
  BY <1>1, <1>7 DEF Held
<1>14. ASSUME HeldBack(e, s, d), moq[e].state = "none" \/ (version >= 17 /\ Bidirectional(s) /\ ~moq[e].control)
       PROVE  EndInv(e)'
  <2>1. /\ UNCHANGED <<moq, buffer, parsed, loop, closed>>
        /\ pending'[e][s] = <<>> \o d
        /\ \A r \in Streams : r # s => pending'[e][r] = pending[e][r]
    BY <1>8, <1>14 DEF HeldBack, Changed
  <2>2. ~moq[e].control
    BY <1>1, <1>7, <1>14 DEF Stage
  <2>3. Running(e)' = Running(e)
    BY <2>1 DEF Running
  <2>4. Flow(e)'
    <3>1. ASSUME NEW r \in Streams
          PROVE  Kept(written[e][r], parsed[e][r], buffer[e][r], stolen'[e][r], pending'[e][r], wire[e][r], Running(e))
      <4>1. CASE r = s
        <5>1. Kept(written[e][s], parsed[e][s], buffer[e][s], <<>>, <<>> \o d, wire[e][s], Running(e))
          BY <1>10, KeptReplayed
        <5>. QED  BY <1>5, <2>1, <4>1, <5>1
      <4>2. CASE r # s
        BY <1>5, <1>9, <2>1, <4>2 DEF Kept
      <4>. QED  BY <4>1, <4>2
    <3>. QED  BY <1>1, <2>1, <2>3, <3>1 DEF Flow
  <2>5. Held(e)'
    <3>1. \A r \in Streams : (stolen'[e][r] # <<>> \/ pending'[e][r] # <<>>) => version >= 17 /\ Bidirectional(r)
      <4>1. ASSUME NEW r \in Streams, stolen'[e][r] # <<>> \/ pending'[e][r] # <<>> PROVE version >= 17 /\ Bidirectional(r)
        <5>1. CASE r = s
          BY <1>8, <5>1
        <5>2. CASE r # s
          BY <1>5, <1>7, <2>1, <4>1, <5>2 DEF Held
        <5>. QED  BY <5>1, <5>2
      <4>. QED  BY <4>1
    <3>2. \A r \in Streams : stolen'[e][r] # <<>> => pending'[e][r] = <<>>
      BY <1>5, <1>7, <2>1 DEF Held
    <3>3. \A r \in Streams : parsed'[e][r] = <<>>
      BY <1>7, <2>1, <2>2 DEF Held
    <3>. QED  BY <1>1, <1>13, <2>1, <2>2, <3>1, <3>2, <3>3, SameStreams DEF Held
  <2>6. Stage(e)' /\ Starts(e)' /\ Announced(e)'
    BY <1>1, <1>7, <2>1, <2>3, SameStreams DEF Stage, Starts, Announced
  <2>. QED  BY <2>4, <2>5, <2>6 DEF EndInv
<1>15. ASSUME Refused(e) PROVE EndInv(e)'
  <2>1. UNCHANGED <<moq, pending, buffer, parsed, loop>> /\ ~Running(e)'
    BY <1>15 DEF Refused, Running
  <2>2. Flow(e)'
    BY <1>1, <1>12, <2>1, FlowDown
  <2>3. Stage(e)' /\ Starts(e)' /\ Announced(e)'
    BY <1>1, <1>7, <2>1, SameStreams DEF Stage, Starts, Announced
  <2>. QED  BY <2>1, <2>2, <2>3 DEF EndInv
<1>16. ASSUME Taken(e, s, d), moq[e].state # "none", moq[e].control PROVE EndInv(e)'
  <2>1. /\ moq'[e].state = moq[e].state /\ moq'[e].control = TRUE /\ moq'[e].sent = moq[e].sent
        /\ moq'[e].recvd = moq[e].recvd /\ moq'[e].connected = moq[e].connected /\ moq'[e].check = moq[e].check
        /\ parsed'[e][s] = parsed[e][s] \o d
        /\ \A r \in Streams : r # s => parsed'[e][r] = parsed[e][r]
        /\ loop'[e].pc = "parsing" /\ loop'[e].stream = s
        /\ UNCHANGED <<pending, closed>>
    BY <1>16 DEF Taken, Changed
  <2>2. /\ \A r \in Streams : r # s => buffer'[e][r] = buffer[e][r]
        /\ buffer'[e][s] \in {buffer[e][s], buffer[e][s] \o d}
    BY <1>16 DEF Taken, Changed
  <2>3. Running(e)' = Running(e)
    BY <2>1 DEF Running
  <2>4. pending[e] = Empty /\ moq[e].recvd
    BY <1>1, <1>7, <1>8, <1>16 DEF Held, Opening
  <2>5. Flow(e)'
    <3>1. ASSUME NEW r \in Streams
          PROVE  Kept(written[e][r], parsed'[e][r], buffer'[e][r], stolen'[e][r], pending[e][r], wire[e][r], Running(e))
      <4>1. CASE r = s
        <5>1. Kept(written[e][s], parsed[e][s] \o d, buffer'[e][s], <<>>, <<>>, wire[e][s], Running(e))
          BY <1>10, <2>2, KeptReplayed
        <5>. QED  BY <1>5, <1>8, <2>1, <4>1, <5>1
      <4>2. CASE r # s
        <5>1. Kept(written[e][r], parsed[e][r], buffer[e][r], stolen[e][r], pending[e][r], wire[e][r], Running(e))
          BY <1>9 DEF Kept
        <5>. QED  BY <1>5, <2>1, <2>2, <4>2, <5>1
      <4>. QED  BY <4>1, <4>2
    <3>. QED  BY <1>1, <2>1, <2>3, <3>1 DEF Flow
  <2>6. Held(e)'
    <3>1. \A r \in Streams : pending'[e][r] = <<>>
      BY <2>1, <2>4, Nothing
    <3>2. \A r \in Streams : stolen'[e][r] # <<>> => version >= 17 /\ Bidirectional(r)
      BY <1>5, <1>7 DEF Held
    <3>. QED  BY <1>1, <1>8, <1>13, <2>1, <2>4, <3>1, <3>2, SameStreams DEF Held
  <2>7. Stage(e)'
    BY <1>1, <1>7, <1>16, <2>1, <2>3 DEF Stage
  <2>8. Starts(e)' /\ Announced(e)'
    BY <1>1, <1>7, <2>1, SameStreams DEF Starts, Announced
  <2>. QED  BY <2>5, <2>6, <2>7, <2>8 DEF EndInv
<1>17. EndInv(e)'
  BY <1>11, <1>14, <1>15, <1>16
<1>. QED  BY <1>12, <1>17, BothEnds

-----------------------------------------------------------------------------
(* The handlers.                                                             *)

Reasons == {"open", "rejected", "protocol_violation", "invalid_request_id"}

\* What a handler may do to its end, requests and buffers apart; setup is whether
\* the message is a SETUP on the control stream.
Handled(e, setup) ==
    /\ moq' \in [Ends -> Context] /\ moq'[Peer(e)] = moq[Peer(e)] /\ moq'[e].state = moq[e].state
    /\ moq'[e].control = moq[e].control /\ moq'[e].sent = moq[e].sent
    /\ moq[e].recvd => moq'[e].recvd
    /\ closed' \in [Ends -> Reasons] /\ closed'[Peer(e)] = closed[Peer(e)]
    /\ closed'[e] = "open" => closed[e] = "open"
    /\ loop' \in [Ends -> [pc : Stages, stream : Streams]] /\ loop'[Peer(e)] = loop[Peer(e)]
    /\ loop'[e].stream = loop[e].stream
    /\ \/ loop' = loop /\ UNCHANGED <<wire, written>>
       \/ /\ version = 16 /\ loop'[e].pc = "accepted"
          /\ \E m \in Msgs : Send(e, Control(e), m)
    /\ \/ /\ moq'[e].recvd = moq[e].recvd /\ moq'[e].check = moq[e].check
          /\ version >= 17 => ~setup /\ moq'[e].connected = moq[e].connected
       \/ version >= 17 /\ setup /\ moq'[e].recvd /\ moq'[e].check

LEMMA Unhandled ==
    ASSUME SessionInv, NEW e \in Ends, UNCHANGED <<moq, loop, wire, written>>,
           closed' \in [Ends -> Reasons], closed'[Peer(e)] = closed[Peer(e)],
           closed'[e] = "open" => closed[e] = "open",
           NEW setup, version >= 17 => ~setup
    PROVE  Handled(e, setup)
BY DEF Handled, SessionInv, SessionTypes

LEMMA ClosedFor ==
    ASSUME SessionInv, NEW e \in Ends, NEW why \in Reasons \ {"open"}, Close(e, why)
    PROVE  closed' \in [Ends -> Reasons] /\ closed'[Peer(e)] = closed[Peer(e)] /\ closed'[e] # "open"
<1>1. closed \in [Ends -> Reasons] /\ Peer(e) # e /\ Peer(e) \in Ends
  BY TheEnds DEF SessionInv, SessionTypes, Reasons
<1>. QED  BY <1>1 DEF Close

\* The handlers that change limits and expected identifiers only.
LEMMA LimitsHandled ==
    ASSUME SessionInv, NEW e \in Ends, UNCHANGED <<loop, wire, written>>,
           closed' \in [Ends -> Reasons], closed'[Peer(e)] = closed[Peer(e)],
           closed'[e] = "open" => closed[e] = "open",
           moq' \in [Ends -> Context], moq'[Peer(e)] = moq[Peer(e)], Fields(e)' = Fields(e),
           NEW setup, version >= 17 => ~setup
    PROVE  Handled(e, setup)
BY DEF Handled, SessionInv, SessionTypes, Fields

LEMMA Limit == ASSUME NEW m \in Msgs, NEW known \in Nat PROVE LimitOf(m, known) \in Nat
BY DEF LimitOf, Msgs

LEMMA ClientSetupHandled ==
    ASSUME SessionInv, NEW e \in Ends, NEW m \in Msgs, version = 16, ParseClientSetup(e, m), NEW setup
    PROVE  Handled(e, setup)
<1>1. moq \in [Ends -> Context] /\ Peer(e) \in Ends /\ Peer(e) # e
      /\ closed \in [Ends -> Reasons] /\ loop \in [Ends -> [pc : Stages, stream : Streams]]
  BY TheEnds DEF SessionInv, SessionTypes, Reasons
<1>2. ~(version >= 17)
  OBVIOUS
<1>3. CASE e = "client"
  BY <1>2, <1>3, ClosedFor, Unhandled DEF ParseClientSetup, Reasons
<1>4. ASSUME e # "client" PROVE Handled(e, setup)
  <2>1. moq' = [moq EXCEPT ![e].max = LimitOf(m, @)]
    BY <1>4 DEF ParseClientSetup
  <2>2. LimitOf(m, moq[e].max) \in Nat
    BY <1>1, Limit DEF Context
  <2>3. moq' \in [Ends -> Context] /\ moq'[Peer(e)] = moq[Peer(e)] /\ Fields(e)' = Fields(e)
    <3> DEFINE max == LimitOf(m, moq[e].max)
               r == [moq[e] EXCEPT !.max = max]
    <3>1. max \in Nat /\ moq' = [moq EXCEPT ![e] = r]
      BY <1>1, <2>1, <2>2 DEF Context
    <3> HIDE DEF max
    <3>2. /\ r \in Context /\ r.state = moq[e].state /\ r.control = moq[e].control /\ r.sent = moq[e].sent
          /\ r.recvd = moq[e].recvd /\ r.connected = moq[e].connected /\ r.check = moq[e].check
      <4>1. moq[e] \in Context
        BY <1>1
      <4>. QED  BY ONLY <4>1, <3>1 DEF Context
    <3> HIDE DEF r
    <3>. QED  BY <1>1, <3>1, <3>2 DEF Fields
  <2>4. CASE Close(e, "rejected") /\ UNCHANGED <<loop, wire, written>>
    BY <1>2, <2>3, <2>4, ClosedFor, LimitsHandled DEF Reasons
  <2>5. CASE /\ Send(e, Control(e), Msg("SERVER_SETUP", moq[e].local))
             /\ loop' = [loop EXCEPT ![e].pc = "accepted"] /\ UNCHANGED closed
    <3>1. Msg("SERVER_SETUP", moq[e].local) \in Msgs
      BY <1>1 DEF Msg, Msgs, Types, Context
    <3>2. /\ loop' \in [Ends -> [pc : Stages, stream : Streams]] /\ loop'[Peer(e)] = loop[Peer(e)]
          /\ loop'[e].stream = loop[e].stream /\ loop'[e].pc = "accepted"
      BY <1>1, <2>5 DEF Stages
    <3>. QED  BY <1>1, <1>2, <2>3, <2>5, <3>1, <3>2 DEF Handled, Fields
  <2>. QED  BY <1>4, <2>4, <2>5 DEF ParseClientSetup
<1>. QED  BY <1>3, <1>4

LEMMA ServerSetupHandled ==
    ASSUME SessionInv, NEW e \in Ends, NEW m \in Msgs, version = 16, ParseServerSetup(e, m), NEW setup
    PROVE  Handled(e, setup)
<1>1. moq \in [Ends -> Context] /\ Peer(e) \in Ends /\ Peer(e) # e
      /\ closed \in [Ends -> Reasons] /\ loop \in [Ends -> [pc : Stages, stream : Streams]]
  BY TheEnds DEF SessionInv, SessionTypes, Reasons
<1>2. ~(version >= 17) /\ UNCHANGED <<loop, wire, written>>
  BY DEF ParseServerSetup
<1>3. CASE e = "server"
  BY <1>2, <1>3, ClosedFor, Unhandled DEF ParseServerSetup, Reasons
<1>4. ASSUME e # "server" PROVE Handled(e, setup)
  <2>1. moq' = [moq EXCEPT ![e].max = LimitOf(m, @), ![e].connected = TRUE] /\ UNCHANGED closed
    BY <1>4 DEF ParseServerSetup
  <2>2. LimitOf(m, moq[e].max) \in Nat
    BY <1>1, Limit DEF Context
  <2>3. /\ moq' \in [Ends -> Context] /\ moq'[Peer(e)] = moq[Peer(e)] /\ moq'[e].state = moq[e].state
        /\ moq'[e].control = moq[e].control /\ moq'[e].sent = moq[e].sent
        /\ moq'[e].recvd = moq[e].recvd /\ moq'[e].check = moq[e].check
    <3> DEFINE max == LimitOf(m, moq[e].max)
               r == [moq[e] EXCEPT !.max = max, !.connected = TRUE]
    <3>1. max \in Nat
      BY <2>2
    <3>2. moq' = [moq EXCEPT ![e] = r]
      BY <1>1, <2>1 DEF Context
    <3> HIDE DEF max
    <3>3. /\ r \in Context /\ r.state = moq[e].state /\ r.control = moq[e].control /\ r.sent = moq[e].sent
          /\ r.recvd = moq[e].recvd /\ r.check = moq[e].check
      <4>1. moq[e] \in Context
        BY <1>1
      <4>. QED  BY ONLY <4>1, <3>1 DEF Context
    <3> HIDE DEF r
    <3>. QED  BY <1>1, <3>2, <3>3
  <2>. QED  BY <1>1, <1>2, <2>1, <2>3 DEF Handled
<1>. QED  BY <1>3, <1>4

LEMMA SetupHandled ==
    ASSUME SessionInv, NEW e \in Ends, NEW m \in Msgs, version >= 17, moq[e].sent, ParseSetup(e, m)
    PROVE  Handled(e, TRUE)
<1>1. moq \in [Ends -> Context] /\ Peer(e) \in Ends /\ Peer(e) # e
      /\ closed \in [Ends -> Reasons] /\ loop \in [Ends -> [pc : Stages, stream : Streams]]
  BY TheEnds DEF SessionInv, SessionTypes, Reasons
<1> DEFINE max == LimitOf(Msg("SETUP", 0), moq[e].max)
<1>2. max \in Nat
  <2>1. Msg("SETUP", 0) \in Msgs /\ moq[e].max \in Nat
    BY <1>1 DEF Msg, Msgs, Types, Context
  <2>. QED  BY <2>1, Limit
<1> HIDE DEF max
<1>3. moq' = [moq EXCEPT ![e].max = max, ![e].recvd = TRUE, ![e].connected = TRUE, ![e].check = TRUE]
  BY <1>1 DEF ParseSetup, Context, max
<1>4. /\ moq' \in [Ends -> Context] /\ moq'[Peer(e)] = moq[Peer(e)] /\ moq'[e].state = moq[e].state
      /\ moq'[e].control = moq[e].control /\ moq'[e].sent = moq[e].sent
      /\ moq'[e].recvd = TRUE /\ moq'[e].check = TRUE
  <2> DEFINE r == [moq[e] EXCEPT !.max = max, !.recvd = TRUE, !.connected = TRUE, !.check = TRUE]
  <2>1. moq' = [moq EXCEPT ![e] = r]
    BY <1>1, <1>3 DEF Context
  <2>2. /\ r \in Context /\ r.state = moq[e].state /\ r.control = moq[e].control /\ r.sent = moq[e].sent
        /\ r.recvd = TRUE /\ r.check = TRUE
    <3>1. moq[e] \in Context
      BY <1>1
    <3>. QED  BY ONLY <3>1, <1>2 DEF Context
  <2> HIDE DEF r
  <2>. QED  BY <1>1, <2>1, <2>2
<1>. QED  BY <1>1, <1>4 DEF Handled, ParseSetup

LEMMA MaxRequestIdHandled ==
    ASSUME SessionInv, NEW e \in Ends, NEW m \in Msgs, version = 16, ParseMaxRequestId(e, m), NEW setup
    PROVE  Handled(e, setup)
<1>1. moq \in [Ends -> Context] /\ Peer(e) \in Ends /\ Peer(e) # e /\ closed \in [Ends -> Reasons]
  BY TheEnds DEF SessionInv, SessionTypes, Reasons
<1>2. ~(version >= 17) /\ UNCHANGED <<loop, wire, written>>
  BY DEF ParseMaxRequestId
<1>3. CASE Close(e, "protocol_violation") /\ UNCHANGED moq
  BY <1>2, <1>3, ClosedFor, Unhandled DEF Reasons
<1>4. CASE moq' = [moq EXCEPT ![e].max = m.value + 1] /\ UNCHANGED closed
  <2>1. m.value + 1 \in Nat
    BY DEF Msgs
  <2>2. moq' \in [Ends -> Context] /\ moq'[Peer(e)] = moq[Peer(e)] /\ Fields(e)' = Fields(e)
    BY <1>1, <1>4, <2>1 DEF Context, Fields
  <2>. QED  BY <1>1, <1>2, <1>4, <2>2, LimitsHandled
<1>. QED  BY <1>3, <1>4 DEF ParseMaxRequestId

LEMMA GoawayHandled ==
    ASSUME SessionInv, NEW e \in Ends, NEW m \in Msgs, ParseGoaway(e, m)
    PROVE  Handled(e, FALSE)
<1>1. moq \in [Ends -> Context] /\ Peer(e) \in Ends /\ Peer(e) # e /\ closed \in [Ends -> Reasons]
  BY TheEnds DEF SessionInv, SessionTypes, Reasons
<1>2. UNCHANGED <<loop, wire, written>>
  BY DEF ParseGoaway
<1>3. CASE Close(e, "invalid_request_id") /\ UNCHANGED moq
  BY <1>2, <1>3, ClosedFor, Unhandled DEF Reasons
<1>4. CASE /\ moq' = [moq EXCEPT ![e].goaway = TRUE, ![e].expected = IF version = 18 THEN m.value + 2 ELSE @]
           /\ IF moq[e].goaway THEN Close(e, "protocol_violation") ELSE UNCHANGED closed
  <2> DEFINE expected == IF version = 18 THEN m.value + 2 ELSE moq[e].expected
  <2>1. expected \in Nat
    BY <1>1 DEF Msgs, Context
  <2>2. moq' = [moq EXCEPT ![e].goaway = TRUE, ![e].expected = expected]
    BY <1>4
  <2> HIDE DEF expected
  <2>3. moq' \in [Ends -> Context] /\ moq'[Peer(e)] = moq[Peer(e)] /\ Fields(e)' = Fields(e)
    <3> DEFINE r == [moq[e] EXCEPT !.goaway = TRUE, !.expected = expected]
    <3>1. moq' = [moq EXCEPT ![e] = r]
      BY <1>1, <2>2 DEF Context
    <3>2. /\ r \in Context /\ r.state = moq[e].state /\ r.control = moq[e].control /\ r.sent = moq[e].sent
          /\ r.recvd = moq[e].recvd /\ r.connected = moq[e].connected /\ r.check = moq[e].check
      <4>1. moq[e] \in Context
        BY <1>1
      <4>. QED  BY ONLY <4>1, <2>1 DEF Context
    <3> HIDE DEF r
    <3>. QED  BY <1>1, <3>1, <3>2 DEF Fields
  <2>4. /\ closed' \in [Ends -> Reasons] /\ closed'[Peer(e)] = closed[Peer(e)]
        /\ closed'[e] = "open" => closed[e] = "open"
    BY <1>1, <1>4, ClosedFor DEF Reasons
  <2>. QED  BY <1>2, <2>3, <2>4, LimitsHandled
<1>. QED  BY <1>3, <1>4 DEF ParseGoaway

\* A request is told to the application, or ends the session.
LEMMA RequestHandled ==
    ASSUME SessionInv, NEW e \in Ends, NEW m \in Msgs, ParseRequest(e, m)
    PROVE  Handled(e, FALSE) /\ requested' \in [Ends -> SUBSET Nat] /\ requested'[Peer(e)] = requested[Peer(e)]
<1>1. moq \in [Ends -> Context] /\ Peer(e) \in Ends /\ Peer(e) # e /\ closed \in [Ends -> Reasons]
      /\ requested \in [Ends -> SUBSET Nat]
  BY TheEnds DEF SessionInv, SessionTypes, Reasons
<1>2. UNCHANGED <<loop, wire, written>>
  BY DEF ParseRequest
<1>3. CASE Close(e, "invalid_request_id") /\ UNCHANGED <<moq, requested>>
  BY <1>1, <1>2, <1>3, ClosedFor, Unhandled DEF Reasons
<1>4. CASE /\ moq' = [moq EXCEPT ![e].expected = m.value + 2]
           /\ requested' = [requested EXCEPT ![e] = @ \cup {m.value}] /\ UNCHANGED closed
  <2>1. m.value + 2 \in Nat /\ m.value \in Nat
    BY DEF Msgs
  <2>2. moq' \in [Ends -> Context] /\ moq'[Peer(e)] = moq[Peer(e)] /\ Fields(e)' = Fields(e)
    BY <1>1, <1>4, <2>1 DEF Context, Fields
  <2>3. requested' \in [Ends -> SUBSET Nat] /\ requested'[Peer(e)] = requested[Peer(e)]
    BY <1>1, <1>4, <2>1
  <2>. QED  BY <1>1, <1>2, <1>4, <2>2, <2>3, LimitsHandled
<1>. QED  BY <1>3, <1>4 DEF ParseRequest

LEMMA MessageHandled ==
    ASSUME SessionInv, NEW e \in Ends, Parse(e)
    PROVE  LET s == loop[e].stream
               m == buffer[e][s][1][1]
           IN  /\ Handled(e, m.type = "SETUP" /\ s = RemoteControl(e))
               /\ requested' \in [Ends -> SUBSET Nat] /\ requested'[Peer(e)] = requested[Peer(e)]
               /\ version >= 17 /\ s = RemoteControl(e) => requested' = requested
<1> DEFINE s == loop[e].stream
           m == buffer[e][s][1][1]
           setup == m.type = "SETUP" /\ s = RemoteControl(e)
<1>1. s \in Streams /\ buffer[e][s] \in Seq(Pieces)
  BY DEF SessionInv, SessionTypes, Tables
<1>2. Running(e) /\ loop[e].pc = "parsing" /\ Len(buffer[e][s]) >= 2
  BY DEF Parse, Complete
<1>3. m \in Msgs
  <2>1. Len(buffer[e][s]) \in Nat /\ 1 \in 1 .. Len(buffer[e][s])
    BY <1>1, <1>2, LenProperties
  <2>2. buffer[e][s][1] \in Pieces
    BY <1>1, <2>1, ElementOfSeq
  <2>. QED  BY <2>2 DEF Pieces
<1>4. IF m.type = "REQUEST" /\ (s # RemoteControl(e) \/ version = 16)
      THEN ParseRequest(e, m)
      ELSE /\ IF s = RemoteControl(e) THEN ControlMessage(e, m) ELSE Told
           /\ UNCHANGED requested
  BY DEF Parse
<1>5. requested \in [Ends -> SUBSET Nat] /\ closed \in [Ends -> Reasons] /\ version \in {16, 17, 18}
      /\ (version >= 17 => moq[e].sent)
  <2>1. Stage(e)
    BY DEF SessionInv, EndInv
  <2>2. version >= 17 => moq[e].sent
    BY <1>2, <2>1 DEF Stage
  <2>. QED  BY <2>2, Versions3 DEF SessionInv, SessionTypes, Reasons
<1> HIDE DEF s, m
<1>6. ASSUME m.type = "REQUEST", s # RemoteControl(e) \/ version = 16
      PROVE  /\ Handled(e, FALSE) /\ setup = FALSE
             /\ requested' \in [Ends -> SUBSET Nat] /\ requested'[Peer(e)] = requested[Peer(e)]
             /\ version >= 17 => s # RemoteControl(e)
  <2>1. ParseRequest(e, m)
    BY <1>4, <1>6
  <2>2. version = 16 => ~(version >= 17)
    OBVIOUS
  <2>. QED  BY <1>3, <1>6, <2>1, <2>2, RequestHandled
<1>7. ASSUME Told, version >= 17 => ~setup PROVE Handled(e, setup)
  BY <1>5, <1>7, Unhandled DEF Told
<1>8. ASSUME ControlMessage(e, m), s = RemoteControl(e) PROVE Handled(e, setup)
  <2>1. CASE m.type = "SETUP" /\ version = 16
    <3>1. ParseClientSetup(e, m)
      BY <1>8, <2>1 DEF ControlMessage
    <3>. QED  BY <1>3, <2>1, <3>1, ClientSetupHandled
  <2>2. CASE m.type = "SERVER_SETUP" /\ version = 16
    <3>1. ParseServerSetup(e, m)
      BY <1>8, <2>2 DEF ControlMessage
    <3>. QED  BY <1>3, <2>2, <3>1, ServerSetupHandled
  <2>3. CASE m.type = "SETUP" /\ version >= 17
    <3>1. ParseSetup(e, m)
      <4>1. version # 16
        BY <2>3
      <4>. QED  BY <1>8, <2>3, <4>1 DEF ControlMessage
    <3>2. setup = TRUE
      BY <1>8, <2>3
    <3>. QED  BY <1>3, <1>5, <2>3, <3>1, <3>2, SetupHandled
  <2>4. CASE m.type = "MAX_REQUEST_ID" /\ version = 16
    <3>1. ParseMaxRequestId(e, m)
      BY <1>8, <2>4 DEF ControlMessage
    <3>. QED  BY <1>3, <2>4, <3>1, MaxRequestIdHandled
  <2>5. CASE m.type = "REQUESTS_BLOCKED" /\ version = 16
    <3>1. Told /\ setup = FALSE
      BY <1>8, <2>5 DEF ControlMessage
    <3>. QED  BY <1>7, <3>1
  <2>6. CASE m.type = "GOAWAY"
    <3>1. ParseGoaway(e, m) /\ setup = FALSE
      BY <1>8, <2>6 DEF ControlMessage
    <3>. QED  BY <1>3, <3>1, GoawayHandled
  <2>7. CASE /\ m.type # "GOAWAY" /\ ~(m.type = "SETUP" /\ version = 16)
             /\ ~(m.type = "SERVER_SETUP" /\ version = 16) /\ ~(m.type = "SETUP" /\ version >= 17)
             /\ ~(m.type = "MAX_REQUEST_ID" /\ version = 16) /\ ~(m.type = "REQUESTS_BLOCKED" /\ version = 16)
    <3>1. Refuse(e) /\ (version >= 17 => ~setup)
      BY <1>8, <2>7 DEF ControlMessage
    <3>. QED  BY <3>1, ClosedFor, Unhandled DEF Refuse, Reasons
  <2>. QED  BY <2>1, <2>2, <2>3, <2>4, <2>5, <2>6, <2>7
<1>9. ASSUME ~(m.type = "REQUEST" /\ (s # RemoteControl(e) \/ version = 16))
      PROVE  Handled(e, setup) /\ UNCHANGED requested
  <2>1. CASE s = RemoteControl(e)
    BY <1>4, <1>8, <1>9, <2>1
  <2>2. CASE s # RemoteControl(e)
    BY <1>4, <1>7, <1>9, <2>2
  <2>. QED  BY <2>1, <2>2
<1>10. Handled(e, setup)
  BY <1>6, <1>9
<1>11. /\ requested' \in [Ends -> SUBSET Nat] /\ requested'[Peer(e)] = requested[Peer(e)]
       /\ version >= 17 /\ s = RemoteControl(e) => requested' = requested
  BY <1>5, <1>6, <1>9
<1>. QED  BY <1>10, <1>11 DEF s, m

LEMMA ParseStep ==
    ASSUME SessionInv, NEW e \in Ends, Parse(e)
    PROVE  SessionInv'
<1> DEFINE s == loop[e].stream
           m == buffer[e][s][1][1]
           setup == m.type = "SETUP" /\ s = RemoteControl(e)
<1>1. /\ UNCHANGED <<version, pending, stolen, pc, parsed>>
      /\ Running(e) /\ loop[e].pc = "parsing" /\ Len(buffer[e][s]) >= 2
      /\ buffer' = [buffer EXCEPT ![e][s] = Tail(Tail(@))]
  BY DEF Parse, Complete, Consume
<1>2. /\ Handled(e, setup)
      /\ requested' \in [Ends -> SUBSET Nat] /\ requested'[Peer(e)] = requested[Peer(e)]
      /\ version >= 17 /\ s = RemoteControl(e) => requested' = requested
  BY MessageHandled
<1>3. s \in Streams /\ buffer \in Tables /\ Peer(e) # e /\ Peer(e) \in Ends /\ SessionTypes
  BY TheEnds DEF SessionInv, SessionTypes
<1>4. Flow(e) /\ Held(e) /\ Stage(e) /\ Starts(e) /\ Announced(e)
  BY <1>1 DEF SessionInv, EndInv
<1>5. SetupHeads(buffer[e][s]) /\ s = RemoteControl(e) => setup = TRUE
  BY DEF SetupHeads
<1>6. setup => s = RemoteControl(e)
  OBVIOUS
<1>7. \A r \in Streams : Kept(written[e][r], parsed[e][r], buffer[e][r], stolen[e][r], pending[e][r], wire[e][r], TRUE)
  <2>1. Running(e) = TRUE
    BY <1>1 DEF Running
  <2>. QED  BY <1>4, <2>1 DEF Flow
<1> DEFINE b2 == Tail(Tail(buffer[e][s]))
<1>8. Kept(written[e][s], parsed[e][s], b2, stolen[e][s], pending[e][s], wire[e][s], TRUE)
  BY <1>1, <1>3, <1>7, KeptConsumed
<1>9. Changed(buffer, buffer', e, s, b2, Seq(Pieces))
  <2>1. b2 \in Seq(Pieces)
    BY <1>8 DEF Kept
  <2>2. buffer' = [buffer EXCEPT ![e][s] = b2]
    BY <1>1
  <2> HIDE DEF b2, s
  <2>. QED  BY <1>3, <2>1, <2>2, OneChanged DEF Tables
<1> HIDE DEF b2, m, setup
<1>s. loop[e].stream = s
  OBVIOUS
<1> HIDE DEF s
<1>10. /\ buffer' \in Tables /\ buffer'[Peer(e)] = buffer[Peer(e)] /\ buffer'[e][s] = b2
       /\ \A r \in Streams : r # s => buffer'[e][r] = buffer[e][r]
  BY <1>3, <1>9 DEF Changed, Tables
<1>11. Own(Peer(e))' = Own(Peer(e)) /\ version' = version
  BY <1>1, <1>2, <1>10 DEF Own, Handled
<1>12. /\ EndInv(Peer(e))' /\ wire' \in Tables /\ written' \in Tables
       /\ wire'[e] = wire[e] /\ written'[e] = written[e]
       /\ version >= 17 => written' = written
  <2>1. CASE UNCHANGED <<wire, written>>
    BY <1>3, <1>11, <2>1, OtherEnd DEF SessionTypes
  <2>2. CASE version = 16 /\ \E x \in Msgs : Send(e, Control(e), x)
    <3>1. ~(version >= 17)
      BY <2>2
    <3>2. Control(e) \in Streams /\ Control(e) # DataStream(Peer(e))
      BY TheStreams
    <3>. QED  BY <1>11, <2>2, <3>1, <3>2, SendStep
  <2>. QED  BY <1>2, <2>1, <2>2 DEF Handled
<1>13. SessionTypes'
  BY <1>1, <1>2, <1>3, <1>10, <1>12 DEF SessionTypes, Handled, Reasons
<1>14. Running(e)' => Running(e)
  BY <1>1
<1>15. Flow(e)'
  <2>1. ASSUME NEW r \in Streams
        PROVE  Kept(written[e][r], parsed[e][r], buffer'[e][r], stolen[e][r], pending[e][r], wire[e][r], TRUE)
    BY <1>7, <1>8, <1>10
  <2>2. ASSUME NEW r \in Streams
        PROVE  Kept(written[e][r], parsed[e][r], buffer'[e][r], stolen[e][r], pending[e][r], wire[e][r], Running(e)')
    BY <2>1 DEF Kept
  <2>. QED  BY <1>1, <1>12, <2>2 DEF Flow
<1>16. moq[e].control /\ moq'[e].control /\ (moq[e].recvd => moq'[e].recvd)
  BY <1>1, <1>2, <1>4 DEF Held, Handled
<1>17. loop'[e].stream = s /\ (version >= 17 => loop' = loop) /\ loop'[e].pc \in {"parsing", "accepted"}
  <2>1. version = 16 => ~(version >= 17)
    OBVIOUS
  <2>. QED  BY <1>1, <1>2, <1>s, <2>1 DEF Handled
<1>18. Held(e)'
  <2>1. moq'[e].check => version >= 17 /\ moq'[e].recvd /\ loop'[e].pc = "parsing" /\ loop'[e].stream = RemoteControl(e)
    <3>1. CASE moq'[e].recvd = moq[e].recvd /\ moq'[e].check = moq[e].check
      BY <1>4, <1>17, <1>s, <3>1 DEF Held
    <3>2. CASE version >= 17 /\ setup /\ moq'[e].recvd /\ moq'[e].check
      BY <1>1, <1>6, <1>17, <3>2
    <3>. QED  BY <1>2, <3>1, <3>2 DEF Handled
  <2>2. version >= 17 => (pending[e] = Empty /\ moq'[e].recvd) \/ Opening(e)'
    <3> SUFFICES ASSUME version >= 17 PROVE (pending[e] = Empty /\ moq'[e].recvd) \/ Opening(e)'
      OBVIOUS
    <3>1. CASE pending[e] = Empty /\ moq[e].recvd
      BY <1>16, <3>1
    <3>2. ASSUME Opening(e) PROVE Opening(e)'
      <4>1. s = RemoteControl(e) /\ (moq[e].check \/ setup)
        BY <1>5, <1>s, <3>2 DEF Opening
      <4>2. moq'[e].check
        BY <1>2, <4>1 DEF Handled
      <4>. QED  BY <1>1, <1>17, <4>1, <4>2, SameStreams DEF Opening
    <3>. QED  BY <1>4, <1>16, <3>1, <3>2 DEF Held
  <2>3. version >= 17 /\ loop'[e].pc = "parsing" /\ loop'[e].stream = RemoteControl(e) => stolen[e] = Empty
    BY <1>1, <1>4, <1>17, <1>s DEF Held
  <2>4. /\ \A r \in Streams : stolen[e][r] # <<>> => pending[e][r] = <<>>
        /\ \A r \in Streams : (stolen[e][r] # <<>> \/ pending[e][r] # <<>>) => version >= 17 /\ Bidirectional(r)
    BY <1>4 DEF Held
  <2>. QED  BY <1>1, <1>16, <1>17, <2>1, <2>2, <2>3, <2>4, SameStreams DEF Held
<1>19. Stage(e)'
  <2>1. requested'[e] # {} => moq'[e].recvd \/ version = 16
    <3>1. CASE version # 16 /\ s # RemoteControl(e)
      <4>1. version >= 17
        BY <1>3, <3>1, Versions3
      <4>2. moq[e].recvd
        BY <1>4, <1>16, <1>s, <3>1, <4>1 DEF Held, Opening
      <4>. QED  BY <1>16, <4>2
    <3>2. CASE version # 16 /\ s = RemoteControl(e)
      <4>1. version >= 17
        BY <1>3, <3>2, Versions3
      <4>. QED  BY <1>2, <1>4, <1>16, <3>2, <4>1 DEF Stage
    <3>. QED  BY <3>1, <3>2
  <2>2. moq'[e].state = moq[e].state /\ moq'[e].sent = moq[e].sent
    BY <1>2 DEF Handled
  <2>. QED  BY <1>1, <1>4, <1>14, <1>16, <1>17, <2>1, <2>2 DEF Stage
<1>20. Starts(e)' /\ Announced(e)'
  <2>1. version >= 17 => written'[Peer(e)][Control(e)] # <<>>
    BY <1>1, <1>4, <1>12 DEF Announced
  <2>. QED  BY <1>1, <1>4, <1>12, <2>1, SameStreams DEF Starts, Announced
<1>21. EndInv(e)'
  BY <1>15, <1>18, <1>19, <1>20 DEF EndInv
<1>. QED  BY <1>12, <1>13, <1>21, BothEnds

-----------------------------------------------------------------------------
(* The theorem.                                                              *)

LEMMA SessionNext ==
    ASSUME ~DataOvertakes, ~CutSetup, SessionInv, [Next]_vars
    PROVE  SessionInv'
<1>1. CASE Next
  <2>1. PICK e \in Ends : LoopStep(e) \/ \E t \in Threads : CallStep(e, t) \/ Call(e, t)
    BY <1>1 DEF Next
  <2>2. CASE LoopStep(e)
    BY <2>2, CreateContextStep, SendSetupStep, DeliverStep, ReplayStep, ReplayDoneStep, ParseStep,
       ConnectedStep, ParseDoneStep, ConnectionGoneStep DEF LoopStep
  <2>3. CASE \E t \in Threads : CallStep(e, t) \/ Call(e, t)
    BY <2>3, ApiStep
  <2>. QED  BY <2>1, <2>2, <2>3
<1>2. CASE UNCHANGED vars
  <2>1. version' = version /\ wire' = wire /\ written' = written /\ SessionTypes'
    BY <1>2 DEF vars, SessionInv, SessionTypes
  <2>2. ASSUME NEW e \in Ends PROVE EndInv(e)'
    <3>1. Peer(e) \in Ends /\ Peer(Peer(e)) = e
      BY TheEnds
    <3>2. Own(e)' = Own(e)
      BY <1>2 DEF vars, Own
    <3>. QED  BY <2>1, <3>1, <3>2, OtherEnd
  <2>. QED  BY <2>1, <2>2 DEF SessionInv
<1>. QED  BY <1>1, <1>2

LEMMA SessionInit ==
    ASSUME Init PROVE SessionInv
<1>1. Empty \in [Streams -> Seq(Pieces)] /\ <<>> \in Seq(Pieces)
  BY Nothing, Cat
<1>2. Idle \in [pc : Stages, stream : Streams] /\ Idle.pc = "idle"
  <2>1. "client" \in Ends /\ 0 \in 0 .. MaxCalls["client"] + 1
    BY TheStreams DEF Ends
  <2>2. <<"client", 0>> \in Streams
    BY <2>1, TheStreams
  <2>. QED  BY <2>2 DEF Idle, Stages
<1>3. SessionTypes
  BY <1>1, <1>2 DEF Init, SessionTypes, Tables, Context
<1>4. ASSUME NEW e \in Ends PROVE EndInv(e)
  <2>1. /\ moq[e].state = "none" /\ ~moq[e].control /\ ~moq[e].check /\ ~moq[e].connected /\ requested[e] = {}
        /\ loop[e].pc = "idle" /\ closed[e] = "open" /\ \A t \in Threads : pc[e][t].pc = "idle"
    BY <1>2 DEF Init
  <2>2. /\ pending[e] = Empty /\ stolen[e] = Empty /\ buffer[e] = Empty /\ wire[e] = Empty /\ written[e] = Empty
        /\ parsed[e] = Empty
    BY DEF Init
  <2>3. Flow(e)
    <3>1. <<>> \o <<>> = <<>> /\ Len(<<>>) = 0
      BY <1>1, Cat
    <3>2. Kept(<<>>, <<>>, <<>>, <<>>, <<>>, <<>>, Running(e))
      <4>1. \E z \in Seq(Pieces) : <<>> = <<>> \o z
        BY ONLY <1>1, <3>1
      <4>2. <<>> = <<>> \o (<<>> \o (<<>> \o <<>>))
        BY ONLY <3>1
      <4>3. Len(<<>>) <= Len(<<>>)
        BY ONLY <3>1
      <4>. QED  BY <1>1, <4>1, <4>2, <4>3 DEF Kept
    <3>. QED  BY <2>2, <3>2, Nothing DEF Flow
  <2>4. Held(e) /\ Stage(e)
    BY <2>1, <2>2, Nothing DEF Held, Stage
  <2>5. Starts(e) /\ Announced(e)
    BY <2>1, <2>2, TheStreams, Nothing DEF Starts, Announced
  <2>. QED  BY <2>3, <2>4, <2>5 DEF EndInv
<1>. QED  BY <1>3, <1>4 DEF SessionInv

\* What was parsed is the beginning of what was written, and all of it once nothing waits.
LEMMA KeptPrefix ==
    ASSUME NEW w, NEW p, NEW b, NEW st, NEW pe, NEW wi, NEW run, Kept(w, p, b, st, pe, wi, run)
    PROVE  IsPrefix(p, w) /\ Len(b) <= Len(p)
<1>1. w \in Seq(Pieces) /\ p \in Seq(Pieces) /\ Len(b) <= Len(p)
  BY DEF Kept
<1>2. PICK z \in Seq(Pieces) : w = p \o z
  BY DEF Kept
<1>3. Len(w) = Len(p) + Len(z) /\ \A i \in 1 .. Len(p) : w[i] = p[i]
  BY <1>1, <1>2, ConcatProperties
<1>4. Len(p) \in Nat /\ Len(w) \in Nat /\ Len(z) \in Nat /\ Len(p) <= Len(w)
  BY <1>1, <1>2, <1>3, LenProperties
<1>5. SubSeq(w, 1, Len(p)) = p
  <2>1. SubSeq(p, 1, Len(p)) = p
    BY <1>1, SubSeqFull
  <2>2. SubSeq(p \o z, 1, Len(p)) = SubSeq(p, 1, Len(p))
    <3>1. 1 \in 1 .. Len(p) + 1 /\ Len(p) \in 1 - 1 .. Len(p)
      BY <1>4
    <3>. QED  BY <1>1, <1>2, <3>1, SubSeqOfConcat1
  <2>. QED  BY <1>2, <2>1, <2>2
<1>. QED  BY <1>1, <1>4, <1>5 DEF IsPrefix

LEMMA KeptAll ==
    ASSUME NEW w, NEW p, NEW b, Kept(w, p, b, <<>>, <<>>, <<>>, TRUE)
    PROVE  p = w
<1>1. p \in Seq(Pieces) /\ <<>> \in Seq(Pieces) /\ w = p \o (<<>> \o (<<>> \o <<>>))
  BY DEF Kept
<1>2. <<>> \o <<>> = <<>> /\ p \o <<>> = p
  BY <1>1, ConcatEmptySeq
<1>. QED  BY <1>1, <1>2

LEMMA InvInOrder == ASSUME SessionInv PROVE StreamsInOrder
<1>1. \A e \in Ends : Flow(e) /\ (Running(e) => Held(e)) /\ Stage(e) /\ Announced(e)
  BY DEF SessionInv, EndInv
<1>2. ASSUME NEW e \in Ends, NEW s \in Streams
      PROVE  IsPrefix(parsed[e][s], written[e][s]) /\ Len(buffer[e][s]) <= Len(parsed[e][s])
  <2>1. Kept(written[e][s], parsed[e][s], buffer[e][s], stolen[e][s], pending[e][s], wire[e][s], Running(e))
    BY <1>1 DEF Flow
  <2>. QED  BY <2>1, KeptPrefix
<1>3. TypeOK
  BY <1>2 DEF TypeOK, SessionInv, SessionTypes, Stages
<1>4. SetupFirst
  BY <1>1 DEF SetupFirst, Stage
<1>5. NothingHeldBack
  <2> SUFFICES ASSUME NEW e \in Ends, moq[e].connected, loop[e].pc = "idle", Running(e),
                      NEW s \in Streams, wire[e][s] = <<>>
               PROVE  parsed[e][s] = written[e][s]
    BY DEF NothingHeldBack
  <2>1. Kept(written[e][s], parsed[e][s], buffer[e][s], stolen[e][s], pending[e][s], wire[e][s], TRUE)
    <3>1. Running(e) = TRUE
      BY DEF Running
    <3>. QED  BY <1>1, <3>1 DEF Flow
  <2>2. stolen[e][s] = <<>>
    BY <1>1, Nothing DEF Held
  <2>3. pending[e][s] = <<>>
    <3> SUFFICES ASSUME pending[e][s] # <<>> PROVE FALSE
      OBVIOUS
    <3>1. version >= 17
      BY <1>1 DEF Held
    <3>2. moq[e].control
      BY <1>1, <3>1 DEF Stage
    <3>. QED  BY <1>1, <3>1, <3>2, Nothing DEF Held, Opening
  <2>. QED  BY <2>1, <2>2, <2>3, KeptAll
<1>. QED  BY <1>2, <1>3, <1>4, <1>5 DEF StreamsInOrder

(* However many threads call the API and whatever is held back meanwhile,   *)
(* each end parses the data of every stream in the order it was sent, no    *)
(* request before the SETUP of the peer, and an end that is connected and   *)
(* idle has parsed all that arrived (imquic_moq_stream_incoming,            *)
(* imquic_moq_track_pending_stream, imquic_moq_handle_pending_streams).     *)
(* It takes a SETUP that arrives whole, and objects that do not overtake    *)
(* the control stream.                                                      *)
THEOREM ParsedInOrder ==
    ASSUME ~DataOvertakes, ~CutSetup
    PROVE  Spec => []StreamsInOrder
<1>1. Init => SessionInv
  BY SessionInit
<1>2. SessionInv /\ [Next]_vars => SessionInv'
  BY SessionNext
<1>3. SessionInv => StreamsInOrder
  BY InvInOrder
<1>. QED  BY <1>1, <1>2, <1>3, PTL DEF Spec

-----------------------------------------------------------------------------
(* The messages in the data of a stream, and how many of them were read.     *)

Messages(w) == [i \in 1 .. Len(w) \div 2 |-> w[2 * i][1]]
ReadOf(p, b) == (Len(p) - Len(b)) \div 2

\* The halves of each message are next to each other.
Paired(w) ==
    \E k \in Nat : /\ Len(w) = 2 * k
                   /\ \A i \in 1 .. k : w[2 * i - 1] = <<w[2 * i][1], 1>> /\ w[2 * i][2] = 2

\* The buffer holds what comes behind the messages that were read.
InBuffer(w, p, b) ==
    \E n \in Nat : /\ Len(p) = 2 * n + Len(b)
                   /\ \A j \in 1 .. Len(b) : b[j] = w[2 * n + j]

Sent(e, s) == Messages(written[e][s])
Read(e, s) == ReadOf(parsed[e][s], buffer[e][s])

StreamInv ==
    \A e \in Ends, s \in Streams :
       /\ Paired(written[e][s]) /\ InBuffer(written[e][s], parsed[e][s], buffer[e][s])
       /\ Len(buffer[e][s]) >= 2 => loop[e].pc \in {"parsing", "accepted"} /\ loop[e].stream = s

-----------------------------------------------------------------------------
(* What the messages say.                                                    *)

Live(e) == moq[e].state \in {"new", "up"}
FirstId(e) == IF e = "server" THEN 1 ELSE 0
SetupOf(e) == IF e = "client" THEN "SETUP" ELSE "SERVER_SETUP"
LimitTypes == {"SETUP", "SERVER_SETUP", "MAX_REQUEST_ID"}
LimitIn(m) == IF m.type = "MAX_REQUEST_ID" THEN m.value + 1 ELSE m.value
Of(q, T) == {i \in 1 .. Len(q) : q[i].type \in T}
Values(e, what) == {pc[e][t].value : t \in {u \in Threads : pc[e][u].pc = what}}

\* What an end may be sent on a stream.
MayBeSent(e, s, m) ==
    \/ s = DataStream(Peer(e)) /\ m.type = "OBJECT"
    \/ s = RemoteControl(e) /\ version = 16
         /\ \/ m.type \in {SetupOf(Peer(e)), "MAX_REQUEST_ID", "REQUESTS_BLOCKED", "GOAWAY"}
            \/ m.type = "REQUEST" /\ Parity(Peer(e), m.value)
    \/ s = RemoteControl(e) /\ version >= 17 /\ (m.type = "SETUP" \/ (version = 17 /\ m.type = "GOAWAY"))
    \/ s # RemoteControl(e) /\ version >= 17 /\ Bidirectional(s) /\ m.type = "REQUEST" /\ Parity(Peer(e), m.value)

\* Before new_connection an end has done nothing.
Unborn(e) ==
    moq[e].state = "none" =>
       /\ moq[e].max = 0 /\ moq[e].local = 0 /\ ~moq[e].connected /\ ~moq[e].goaway
       /\ \A t \in Threads : pc[e][t].pc = "idle"
       /\ \A s \in Streams : parsed[e][s] = <<>>

GoawayOnce(q, n, goaway) ==
    /\ \A i, j \in Of(q, {"GOAWAY"}) : i = j
    /\ goaway => \E i \in Of(q, {"GOAWAY"}) : i <= n

OwnIds(e) ==
    /\ Live(e) => Parity(e, moq[e].next)
    /\ \A v \in Values(e, "has_id") \cup Values(e, "reserved") : Parity(e, v)

Sendable == \A e \in Ends, s \in Streams : \A i \in 1 .. Len(Sent(e, s)) : MayBeSent(e, s, Sent(e, s)[i])
Goaways(e) == GoawayOnce(Sent(e, RemoteControl(e)), Read(e, RemoteControl(e)), moq[e].goaway)

MessagesInv == NoRefusal /\ Sendable /\ \A e \in Ends : Goaways(e) /\ Unborn(e) /\ OwnIds(e)

-----------------------------------------------------------------------------
(* Version 16: limits and IDs.                                               *)

\* The limits in the messages q of an end that allows local IDs, of which n have
\* been read, and the maximum that they gave.
Chain(q, n, max, local) ==
    LET L == Of(q, LimitTypes) IN
    /\ \A i, j \in L : i < j => LimitIn(q[i]) < LimitIn(q[j])
    /\ \A i \in L : 0 < LimitIn(q[i]) /\ LimitIn(q[i]) <= local
    /\ max = 0 \/ \E i \in L : i <= n /\ LimitIn(q[i]) = max
    /\ \A i \in L : i <= n => LimitIn(q[i]) <= max

\* The limits R are about to be announced.
Announces(q, local, R, connected, setup) ==
    LET L == Of(q, LimitTypes) IN
    /\ \A v \in R : v + 1 = local /\ connected /\ \A i \in L : LimitIn(q[i]) < local
    /\ (q # <<>> /\ R = {}) => \E i \in L : LimitIn(q[i]) = local
    /\ \A i \in 1 .. Len(q) : i = 1 <=> q[i].type = setup

\* The IDs in the messages q leave no gap, and are within the limit of the other end.
InRow(q, first, limit) ==
    LET R == Of(q, {"REQUEST"}) IN
    /\ \A i, j \in R : i < j => q[i].value + 2 <= q[j].value
    /\ \A i \in R : /\ first <= q[i].value /\ q[i].value < limit
                    /\ q[i].value = first \/ \E j \in R : q[j].value + 2 = q[i].value

\* The ID that comes after those in the first n messages.
NextId(q, n, first, x) ==
    LET R == Of(q, {"REQUEST"}) IN
    /\ \A i \in R : i <= n => q[i].value + 2 <= x
    /\ x = first \/ \E i \in R : i <= n /\ q[i].value + 2 = x

\* The ID that is expected when n messages have been read.
Expects(q, n, first, x) ==
    /\ NextId(q, n, first, x)
    /\ \A i \in Of(q, {"REQUEST"}) : n < i => x <= q[i].value

\* The threads have the IDs H, and have yet to write requests for the IDs S.
Issues(q, first, next, limit, H, S, live) ==
    /\ \A v \in H : v = next
    /\ \A v \in S : /\ v + 2 = next /\ v < limit /\ q # <<>>
                    /\ live => NextId(q, Len(q), first, v)
    /\ live /\ S = {} => NextId(q, Len(q), first, next)

Limits16(e) ==
    LET f == Peer(e)
        q == Sent(e, RemoteControl(e))
    IN  /\ Chain(q, Read(e, RemoteControl(e)), moq[e].max, moq[f].local)
        /\ Announces(q, moq[f].local, Values(f, "raised"), moq[f].connected, SetupOf(f))

Ids16(e) ==
    LET f == Peer(e)
        q == Sent(e, RemoteControl(e))
    IN  /\ InRow(q, FirstId(f), moq[e].local)
        /\ Issues(q, FirstId(f), moq[f].next, moq[e].local, Values(f, "has_id"), Values(f, "reserved"), Live(f))
        /\ Live(e) => Expects(q, Read(e, RemoteControl(e)), FirstId(f), moq[e].expected)

Started(e) == Sent(Peer(e), Control(e)) # <<>>
Phases ==
    /\ moq["client"].state = "up" => Started("client")
    /\ Started("client") => moq["client"].state \in {"up", "gone"}
    /\ Started("server") => Read("server", Control("server")) > 0
    /\ \A e \in Ends :
          /\ loop[e].pc = "accepted" \/ moq[e].connected \/ (moq[e].max > 0 /\ closed[e] = "open") => Started(e)
          /\ Live(e) => moq[e].local > 0

Told16 == Phases /\ \A e \in Ends : Limits16(e) /\ Ids16(e)
NumbersInv == StreamInv /\ MessagesInv /\ (version = 16 => Told16)

\* One caller at each end of version 16, limits that are given, and given when connected.
Asking ==
    /\ ~DataOvertakes /\ ~CutSetup /\ ~EarlyLimit /\ 0 \notin Limits /\ 18 \notin GoawayVersions
    /\ 16 \in Versions => \A t, u \in Threads : t = u

LEMMA CatAt ==
    ASSUME NEW a \in Seq(Pieces), NEW b \in Seq(Pieces)
    PROVE  /\ a \o b \in Seq(Pieces) /\ Len(a \o b) = Len(a) + Len(b)
           /\ Len(a) \in Nat /\ Len(b) \in Nat
           /\ \A i \in 1 .. Len(a) : (a \o b)[i] = a[i]
           /\ \A i \in 1 .. Len(b) : (a \o b)[Len(a) + i] = b[i]
<1> DEFINE c == a \o b
<1>1. /\ c \in Seq(Pieces) /\ Len(c) = Len(a) + Len(b)
      /\ \A i \in 1 .. Len(a) + Len(b) : c[i] = IF i <= Len(a) THEN a[i] ELSE b[i - Len(a)]
  BY ConcatProperties
<1>2. Len(a) \in Nat /\ Len(b) \in Nat
  BY LenProperties
<1> HIDE DEF c
<1>3. \A i \in 1 .. Len(a) : c[i] = a[i]
  BY <1>1, <1>2
<1>4. ASSUME NEW i \in 1 .. Len(b) PROVE c[Len(a) + i] = b[i]
  <2>1. Len(a) + i \in 1 .. Len(a) + Len(b) /\ ~(Len(a) + i <= Len(a)) /\ Len(a) + i - Len(a) = i
    BY <1>2
  <2>. QED  BY <1>1, <2>1
<1>. QED  BY <1>1, <1>2, <1>3, <1>4 DEF c

LEMMA Halved == \A n \in Nat : (2 * n) \div 2 = n
OBVIOUS

\* What is known of the messages of a stream.
Halving(w, q) ==
    /\ q \in Seq(Msgs) /\ Len(q) \in Nat /\ Len(w) = 2 * Len(q)
    /\ \A i \in 1 .. Len(q) : w[2 * i - 1] = <<q[i], 1>> /\ w[2 * i] = <<q[i], 2>>

LEMMA PairedMessages ==
    ASSUME NEW w \in Seq(Pieces), Paired(w)
    PROVE  Halving(w, Messages(w))
<1>1. PICK k \in Nat : /\ Len(w) = 2 * k
                       /\ \A i \in 1 .. k : w[2 * i - 1] = <<w[2 * i][1], 1>> /\ w[2 * i][2] = 2
  BY DEF Paired
<1>2. Len(w) \div 2 = k
  BY <1>1, Halved
<1>3. Messages(w) = [i \in 1 .. k |-> w[2 * i][1]]
  BY <1>2 DEF Messages
<1>4. ASSUME NEW i \in 1 .. k PROVE w[2 * i][1] \in Msgs /\ w[2 * i] = <<w[2 * i][1], 2>>
  <2>1. 2 * i \in 1 .. Len(w)
    BY <1>1
  <2>2. w[2 * i] \in Pieces
    BY <2>1, ElementOfSeq
  <2>. QED  BY <1>1, <2>2 DEF Pieces
<1>5. Messages(w) \in Seq(Msgs) /\ Len(Messages(w)) = k /\ \A i \in 1 .. k : Messages(w)[i] = w[2 * i][1]
  <2>1. Messages(w) \in [1 .. k -> Msgs]
    BY <1>3, <1>4
  <2>2. Messages(w) \in Seq(Msgs) /\ DOMAIN Messages(w) = 1 .. k
    BY <1>1, <2>1, SeqDef
  <2>3. Len(Messages(w)) = k
    BY <1>1, <2>2, LenProperties
  <2>. QED  BY <1>3, <2>2, <2>3
<1>. QED  BY <1>1, <1>4, <1>5 DEF Halving

LEMMA ToldPaired ==
    ASSUME NEW w \in Seq(Pieces), NEW q, Halving(w, q)
    PROVE  Paired(w) /\ Messages(w) = q
<1>1. /\ q \in Seq(Msgs) /\ Len(q) \in Nat /\ Len(w) = 2 * Len(q)
      /\ \A i \in 1 .. Len(q) : w[2 * i - 1] = <<q[i], 1>> /\ w[2 * i] = <<q[i], 2>>
  BY DEF Halving
<1>2. \A i \in 1 .. Len(q) : w[2 * i][1] = q[i] /\ w[2 * i][2] = 2
  BY <1>1
<1>3. Paired(w)
  BY <1>1, <1>2 DEF Paired
<1>4. Len(w) \div 2 = Len(q)
  BY <1>1, Halved
<1>5. q = [i \in 1 .. Len(q) |-> q[i]]
  BY <1>1, LenProperties
<1>. QED  BY <1>2, <1>3, <1>4, <1>5 DEF Messages

\* A message is added.
LEMMA MessageAdded ==
    ASSUME NEW w \in Seq(Pieces), Paired(w), NEW m \in Msgs
    PROVE  Paired(w \o Halves(m)) /\ Messages(w \o Halves(m)) = Append(Messages(w), m)
<1> DEFINE d == Halves(m)
           q == Messages(w)
           w2 == w \o d
           q2 == Append(q, m)
<1>1. q \in Seq(Msgs) /\ Len(q) \in Nat /\ Len(w) = 2 * Len(q)
      /\ \A i \in 1 .. Len(q) : w[2 * i - 1] = <<q[i], 1>> /\ w[2 * i] = <<q[i], 2>>
  BY PairedMessages DEF Halving
<1>2. d \in Seq(Pieces) /\ Len(d) = 2 /\ d[1] = <<m, 1>> /\ d[2] = <<m, 2>>
  <2>1. d \in Seq(Pieces)
    BY HalvesOf
  <2>. QED  BY <2>1 DEF Halves
<1> HIDE DEF d, q
<1>3. /\ w2 \in Seq(Pieces) /\ Len(w2) = Len(w) + Len(d)
      /\ \A i \in 1 .. Len(w) : w2[i] = w[i]
      /\ \A i \in 1 .. Len(d) : w2[Len(w) + i] = d[i]
  BY <1>2, CatAt
<1>4. /\ q2 \in Seq(Msgs) /\ Len(q2) = Len(q) + 1 /\ q2[Len(q) + 1] = m
      /\ \A i \in 1 .. Len(q) : q2[i] = q[i]
  BY <1>1, AppendProperties
<1> HIDE DEF w2, q2
<1>5. Len(w2) = 2 * Len(q2) /\ Len(q2) \in Nat
  BY <1>1, <1>2, <1>3, <1>4
<1>6. ASSUME NEW i \in 1 .. Len(q2) PROVE w2[2 * i - 1] = <<q2[i], 1>> /\ w2[2 * i] = <<q2[i], 2>>
  <2>1. CASE i \in 1 .. Len(q)
    <3>1. 2 * i - 1 \in 1 .. Len(w) /\ 2 * i \in 1 .. Len(w)
      BY <1>1, <2>1
    <3>. QED  BY <1>1, <1>3, <1>4, <2>1, <3>1
  <2>2. CASE i = Len(q) + 1
    <3>1. 2 * i - 1 = Len(w) + 1 /\ 2 * i = Len(w) + 2 /\ 1 \in 1 .. Len(d) /\ 2 \in 1 .. Len(d)
      BY <1>1, <1>2, <2>2
    <3>. QED  BY <1>2, <1>3, <1>4, <2>2, <3>1
  <2>. QED  BY <1>1, <1>4, <2>1, <2>2
<1>7. Halving(w2, q2)
  BY <1>4, <1>5, <1>6 DEF Halving
<1>8. Paired(w2) /\ Messages(w2) = q2
  BY <1>3, <1>7, ToldPaired
<1>. QED  BY <1>8 DEF w2, q2, d, q

\* It does not change what is in the buffer.
LEMMA BufferSent ==
    ASSUME NEW w \in Seq(Pieces), NEW p \in Seq(Pieces), NEW b \in Seq(Pieces), NEW d \in Seq(Pieces),
           InBuffer(w, p, b), Len(p) <= Len(w)
    PROVE  InBuffer(w \o d, p, b)
<1>1. PICK n \in Nat : Len(p) = 2 * n + Len(b) /\ \A j \in 1 .. Len(b) : b[j] = w[2 * n + j]
  BY DEF InBuffer
<1>2. /\ Len(w) \in Nat /\ Len(p) \in Nat /\ Len(b) \in Nat
      /\ \A i \in 1 .. Len(w) : (w \o d)[i] = w[i]
  BY CatAt, LenProperties
<1>3. ASSUME NEW j \in 1 .. Len(b) PROVE b[j] = (w \o d)[2 * n + j]
  <2>1. 2 * n + j \in 1 .. Len(w)
    BY <1>1, <1>2
  <2>. QED  BY <1>1, <1>2, <2>1
<1>. QED  BY <1>1, <1>3 DEF InBuffer

\* How many messages were read.
LEMMA ReadCount ==
    ASSUME NEW w \in Seq(Pieces), NEW p \in Seq(Pieces), NEW b \in Seq(Pieces),
           InBuffer(w, p, b), Paired(w), Len(p) <= Len(w)
    PROVE  LET n == ReadOf(p, b) IN
           /\ n \in Nat /\ Len(p) = 2 * n + Len(b) /\ n <= Len(Messages(w))
           /\ \A j \in 1 .. Len(b) : b[j] = w[2 * n + j]
<1>1. PICK n \in Nat : Len(p) = 2 * n + Len(b) /\ \A j \in 1 .. Len(b) : b[j] = w[2 * n + j]
  BY DEF InBuffer
<1>2. Len(w) \in Nat /\ Len(p) \in Nat /\ Len(b) \in Nat
  BY LenProperties
<1>3. Len(p) - Len(b) = 2 * n
  BY <1>1, <1>2
<1>4. ReadOf(p, b) = n
  BY <1>3, Halved DEF ReadOf
<1>5. Len(w) = 2 * Len(Messages(w)) /\ Len(Messages(w)) \in Nat
  BY PairedMessages DEF Halving
<1>6. n <= Len(Messages(w))
  BY <1>1, <1>2, <1>5
<1>. QED  BY <1>1, <1>4, <1>6

\* More of the data is parsed: it is the start of a message when nothing is in the buffer.
Begins(w, p, d) == \E z \in Seq(Pieces) : w = (p \o d) \o z
Longer(w, p, b, d) ==
    /\ InBuffer(w, p \o d, b \o d) /\ ReadOf(p \o d, b \o d) = ReadOf(p, b)
    /\ b = <<>> => d[1][2] = 1

LEMMA BufferParsed ==
    ASSUME NEW w \in Seq(Pieces), NEW p \in Seq(Pieces), NEW b \in Seq(Pieces), NEW d \in Seq(Pieces),
           Begins(w, p, d), d # <<>>, InBuffer(w, p, b), Paired(w)
    PROVE  Longer(w, p, b, d)
<1>0. PICK z \in Seq(Pieces) : w = (p \o d) \o z
  BY DEF Begins
<1> DEFINE c == p \o d
           g == b \o d
<1>1. /\ c \in Seq(Pieces) /\ Len(c) = Len(p) + Len(d) /\ Len(p) \in Nat /\ Len(d) \in Nat
      /\ \A i \in 1 .. Len(d) : c[Len(p) + i] = d[i]
  BY CatAt
<1>2. /\ g \in Seq(Pieces) /\ Len(g) = Len(b) + Len(d) /\ Len(b) \in Nat
      /\ \A i \in 1 .. Len(b) : g[i] = b[i]
      /\ \A i \in 1 .. Len(d) : g[Len(b) + i] = d[i]
  BY CatAt
<1> HIDE DEF c, g
<1>3. /\ Len(w) = Len(c) + Len(z) /\ Len(z) \in Nat
      /\ \A i \in 1 .. Len(c) : w[i] = c[i]
  <2>1. w = c \o z
    BY <1>0 DEF c
  <2>2. /\ Len(c \o z) = Len(c) + Len(z) /\ Len(z) \in Nat
        /\ \A i \in 1 .. Len(c) : (c \o z)[i] = c[i]
    BY <1>1, CatAt
  <2>. QED  BY <2>1, <2>2
<1>4. PICK n \in Nat : Len(p) = 2 * n + Len(b) /\ \A j \in 1 .. Len(b) : b[j] = w[2 * n + j]
  BY DEF InBuffer
<1>5. \A i \in 1 .. Len(d) : w[Len(p) + i] = d[i]
  BY <1>1, <1>3
<1>6. ASSUME NEW j \in 1 .. Len(g) PROVE g[j] = w[2 * n + j]
  <2>1. CASE j \in 1 .. Len(b)
    BY <1>2, <1>4, <2>1
  <2>2. CASE j \notin 1 .. Len(b)
    <3>1. j - Len(b) \in 1 .. Len(d) /\ Len(b) + (j - Len(b)) = j /\ Len(p) + (j - Len(b)) = 2 * n + j
      BY <1>1, <1>2, <1>4, <2>2
    <3>. QED  BY <1>2, <1>5, <3>1
  <2>. QED  BY <2>1, <2>2
<1>7. Len(c) = 2 * n + Len(g)
  BY <1>1, <1>2, <1>4
<1>8. InBuffer(w, c, g)
  BY <1>6, <1>7 DEF InBuffer
<1>9. ReadOf(c, g) = ReadOf(p, b)
  <2>1. Len(c) - Len(g) = 2 * n /\ Len(p) - Len(b) = 2 * n
    BY <1>1, <1>2, <1>4, <1>7
  <2>. QED  BY <2>1 DEF ReadOf
<1>10. ASSUME b = <<>> PROVE d[1][2] = 1
  <2>1. Len(b) = 0 /\ Len(d) # 0
    BY <1>1, <1>10, EmptySeq
  <2>2. w[2 * n + 1] = d[1]
    BY <1>1, <1>4, <1>5, <2>1
  <2>3. Halving(w, Messages(w))
    BY PairedMessages
  <2>4. n + 1 \in 1 .. Len(Messages(w)) /\ 2 * (n + 1) - 1 = 2 * n + 1
    BY <1>1, <1>3, <1>4, <2>1, <2>3 DEF Halving
  <2>5. w[2 * (n + 1) - 1] = <<Messages(w)[n + 1], 1>>
    BY <2>3, <2>4 DEF Halving
  <2>6. w[2 * n + 1] = <<Messages(w)[n + 1], 1>>
    BY ONLY <2>4, <2>5
  <2>. QED  BY ONLY <2>2, <2>6
<1>. QED  BY <1>8, <1>9, <1>10 DEF c, g, Longer

\* A message is taken from the buffer.
LEMMA BufferRead ==
    ASSUME NEW w \in Seq(Pieces), NEW p \in Seq(Pieces), NEW b \in Seq(Pieces), InBuffer(w, p, b), Paired(w),
           Len(p) <= Len(w), Len(b) >= 2
    PROVE  LET n == ReadOf(p, b) IN
           /\ InBuffer(w, p, Tail(Tail(b))) /\ ReadOf(p, Tail(Tail(b))) = n + 1
           /\ n \in Nat /\ n + 1 \in 1 .. Len(Messages(w)) /\ b[1][1] = Messages(w)[n + 1]
<1> DEFINE n == ReadOf(p, b)
           c == Tail(Tail(b))
<1>1. /\ n \in Nat /\ Len(p) = 2 * n + Len(b)
      /\ \A j \in 1 .. Len(b) : b[j] = w[2 * n + j]
  BY ReadCount
<1>2. Len(w) \in Nat /\ Len(p) \in Nat /\ Len(b) \in Nat
  BY LenProperties
<1>3. /\ c \in Seq(Pieces) /\ Len(c) = Len(b) - 2
      /\ \A i \in 1 .. Len(c) : c[i] = b[i + 2]
  <2>1. b # <<>>
    BY <1>2, EmptySeq
  <2>2. /\ Tail(b) \in Seq(Pieces) /\ Len(Tail(b)) = Len(b) - 1
        /\ \A i \in 1 .. Len(Tail(b)) : Tail(b)[i] = b[i + 1]
    BY <2>1, HeadTailProperties
  <2>3. Tail(b) # <<>>
    <3>1. Len(Tail(b)) # 0
      BY <1>2, <2>2
    <3>. QED  BY <2>2, <3>1, EmptySeq
  <2>4. /\ c \in Seq(Pieces) /\ Len(c) = Len(Tail(b)) - 1
        /\ \A i \in 1 .. Len(c) : c[i] = Tail(b)[i + 1]
    BY <2>2, <2>3, HeadTailProperties
  <2> HIDE DEF c
  <2>5. ASSUME NEW i \in 1 .. Len(c) PROVE c[i] = b[i + 2]
    <3>1. i + 1 \in 1 .. Len(Tail(b)) /\ (i + 1) + 1 = i + 2
      BY <1>2, <2>2, <2>4
    <3>. QED  BY <2>2, <2>4, <3>1
  <2>. QED  BY <1>2, <2>2, <2>4, <2>5
<1> HIDE DEF n, c
<1>4. ASSUME NEW j \in 1 .. Len(c) PROVE c[j] = w[2 * (n + 1) + j]
  <2>1. j + 2 \in 1 .. Len(b) /\ 2 * n + (j + 2) = 2 * (n + 1) + j
    <3>1. j \in Nat /\ 1 <= j /\ j <= Len(b) - 2
      BY <1>2, <1>3
    <3>. QED  BY ONLY <1>1, <1>2, <3>1
  <2>. QED  BY <1>1, <1>3, <2>1
<1>5. n + 1 \in Nat /\ Len(p) = 2 * (n + 1) + Len(c)
  BY <1>1, <1>2, <1>3
<1>6. InBuffer(w, p, c)
  BY <1>4, <1>5 DEF InBuffer
<1>7. ReadOf(p, c) = n + 1
  <2>1. Len(p) - Len(c) = 2 * (n + 1)
    BY <1>2, <1>3, <1>5
  <2>. QED  BY <1>5, <2>1, Halved DEF ReadOf
<1>8. Halving(w, Messages(w))
  BY PairedMessages
<1>9. n + 1 \in 1 .. Len(Messages(w)) /\ 2 * (n + 1) - 1 = 2 * n + 1 /\ 1 \in 1 .. Len(b)
  BY <1>1, <1>2, <1>8 DEF Halving
<1>10. w[2 * (n + 1) - 1] = <<Messages(w)[n + 1], 1>>
  BY <1>8, <1>9 DEF Halving
<1>11. b[1][1] = Messages(w)[n + 1]
  BY <1>1, <1>9, <1>10
<1>. QED  BY <1>1, <1>6, <1>7, <1>9, <1>11 DEF n, c

-----------------------------------------------------------------------------
(* What the steps do to what was sent and what was read.                     *)

Wrote(g, s, m) ==
    /\ Sent(g, s)' = Append(Sent(g, s), m)
    /\ \A f \in Ends, r \in Streams : (f # g \/ r # s) => Sent(f, r)' = Sent(f, r)
Silent == \A f \in Ends, r \in Streams : Sent(f, r)' = Sent(f, r)
ReadNone == \A f \in Ends, r \in Streams : Read(f, r)' = Read(f, r)
ReadOne(g, s) ==
    /\ Read(g, s)' = Read(g, s) + 1
    /\ \A f \in Ends, r \in Streams : (f # g \/ r # s) => Read(f, r)' = Read(f, r)

\* The loop threads go on with the messages that wait in the buffers.
Works ==
    \A e \in Ends, s \in Streams :
       Len(buffer[e][s]) >= 2 => loop'[e].pc \in {"parsing", "accepted"} /\ loop'[e].stream = s

LEMMA Along ==
    ASSUME SessionInv, NEW e \in Ends, NEW s \in Streams
    PROVE  /\ written[e][s] \in Seq(Pieces) /\ parsed[e][s] \in Seq(Pieces) /\ buffer[e][s] \in Seq(Pieces)
           /\ Len(parsed[e][s]) <= Len(written[e][s])
           /\ \E z \in Seq(Pieces) : written[e][s] = parsed[e][s] \o z
<1> DEFINE w == written[e][s]
           p == parsed[e][s]
<1>1. Kept(w, p, buffer[e][s], stolen[e][s], pending[e][s], wire[e][s], Running(e))
  BY DEF SessionInv, EndInv, Flow
<1>2. w \in Seq(Pieces) /\ p \in Seq(Pieces) /\ buffer[e][s] \in Seq(Pieces)
  BY <1>1 DEF Kept
<1>3. PICK z \in Seq(Pieces) : w = p \o z
  BY <1>1 DEF Kept
<1> HIDE DEF w, p
<1>4. Len(w) = Len(p) + Len(z) /\ Len(p) \in Nat /\ Len(z) \in Nat
  BY <1>2, <1>3, CatAt
<1>5. Len(p) <= Len(w)
  BY <1>4
<1>. QED  BY <1>2, <1>3, <1>5 DEF w, p

LEMMA SentTypes ==
    ASSUME SessionInv, StreamInv, NEW e \in Ends, NEW s \in Streams
    PROVE  /\ Sent(e, s) \in Seq(Msgs) /\ Len(Sent(e, s)) \in Nat
           /\ Read(e, s) \in Nat /\ Read(e, s) <= Len(Sent(e, s))
<1>1. /\ written[e][s] \in Seq(Pieces) /\ parsed[e][s] \in Seq(Pieces) /\ buffer[e][s] \in Seq(Pieces)
      /\ Len(parsed[e][s]) <= Len(written[e][s])
  BY Along
<1>2. Paired(written[e][s]) /\ InBuffer(written[e][s], parsed[e][s], buffer[e][s])
  BY DEF StreamInv
<1>3. Halving(written[e][s], Messages(written[e][s]))
  BY <1>1, <1>2, PairedMessages
<1>4. ReadOf(parsed[e][s], buffer[e][s]) \in Nat
      /\ ReadOf(parsed[e][s], buffer[e][s]) <= Len(Messages(written[e][s]))
  BY <1>1, <1>2, ReadCount
<1>. QED  BY <1>3, <1>4 DEF Halving, Sent, Read

LEMMA QuietStreams ==
    ASSUME StreamInv, UNCHANGED <<written, parsed, buffer>>, Works
    PROVE  StreamInv' /\ Silent /\ ReadNone
<1>1. written' = written /\ parsed' = parsed /\ buffer' = buffer
  OBVIOUS
<1>2. Silent /\ ReadNone
  BY <1>1 DEF Silent, ReadNone, Sent, Read
<1>3. StreamInv'
  BY <1>1 DEF StreamInv, Works
<1>. QED  BY <1>2, <1>3

\* A message is sent.
LEMMA SendStreams ==
    ASSUME SessionInv, StreamInv, NEW e \in Ends, NEW s \in Streams, NEW m \in Msgs, Send(e, s, m)
    PROVE  /\ Wrote(Peer(e), s, m)
           /\ \A f \in Ends, r \in Streams : /\ Paired(written'[f][r])
                                             /\ InBuffer(written'[f][r], parsed[f][r], buffer[f][r])
<1> DEFINE g == Peer(e)
           v == written[g][s] \o Halves(m)
<1>1. g \in Ends
  BY TheEnds
<1>2. written \in Tables /\ Halves(m) \in Seq(Pieces)
  BY HalvesOf DEF SessionInv, SessionTypes
<1> HIDE DEF g
<1>3. /\ written[g][s] \in Seq(Pieces) /\ parsed[g][s] \in Seq(Pieces) /\ buffer[g][s] \in Seq(Pieces)
      /\ Len(parsed[g][s]) <= Len(written[g][s])
      /\ Paired(written[g][s]) /\ InBuffer(written[g][s], parsed[g][s], buffer[g][s])
  <2>1. Paired(written[g][s]) /\ InBuffer(written[g][s], parsed[g][s], buffer[g][s])
    BY <1>1 DEF StreamInv
  <2>. QED  BY <1>1, <2>1, Along
<1>4. v \in Seq(Pieces)
  BY <1>2, <1>3, CatAt
<1>5. Paired(v) /\ Messages(v) = Append(Messages(written[g][s]), m)
  BY <1>3, MessageAdded
<1>6. InBuffer(v, parsed[g][s], buffer[g][s])
  BY <1>2, <1>3, BufferSent
<1>7. written' = [written EXCEPT ![g][s] = v]
  BY DEF Send, g
<1> HIDE DEF v
<1>8. Changed(written, written', g, s, v, Seq(Pieces))
  BY <1>1, <1>2, <1>4, <1>7, OneChanged DEF Tables
<1>9. /\ written'[g][s] = v
      /\ \A f \in Ends, r \in Streams : (f # g \/ r # s) => written'[f][r] = written[f][r]
  BY <1>8 DEF Changed
<1>10. Wrote(g, s, m)
  BY <1>5, <1>9 DEF Wrote, Sent
<1>11. ASSUME NEW f \in Ends, NEW r \in Streams
       PROVE  Paired(written'[f][r]) /\ InBuffer(written'[f][r], parsed[f][r], buffer[f][r])
  <2>1. CASE f = g /\ r = s
    BY <1>5, <1>6, <1>9, <2>1
  <2>2. CASE f # g \/ r # s
    BY <1>9, <2>2 DEF StreamInv
  <2>. QED  BY <2>1, <2>2
<1>. QED  BY <1>10, <1>11 DEF g

LEMMA SentStreams ==
    ASSUME SessionInv, StreamInv, NEW e \in Ends, NEW s \in Streams, NEW m \in Msgs, Send(e, s, m),
           UNCHANGED <<parsed, buffer>>, Works
    PROVE  StreamInv' /\ Wrote(Peer(e), s, m) /\ ReadNone
<1>1. /\ Wrote(Peer(e), s, m)
      /\ \A f \in Ends, r \in Streams : /\ Paired(written'[f][r])
                                        /\ InBuffer(written'[f][r], parsed[f][r], buffer[f][r])
  BY SendStreams
<1>2. parsed' = parsed /\ buffer' = buffer
  OBVIOUS
<1>3. StreamInv'
  BY <1>1, <1>2 DEF StreamInv, Works
<1>4. ReadNone
  BY <1>2 DEF ReadNone, Read
<1>. QED  BY <1>1, <1>3, <1>4

\* Data is held back, or parsed: then it is put into the buffer.
LEMMA IncomingStreams ==
    ASSUME SessionInv, SessionInv', StreamInv, NEW e \in Ends, NEW s \in Streams, NEW d \in Seq(Pieces), d # <<>>,
           NEW then \in {"idle", "replay"}, loop[e].pc = then, StreamIncoming(e, s, d, then), written' = written
    PROVE  StreamInv' /\ Silent /\ ReadNone
<1>1. \/ HeldBack(e, s, d) \/ Dropped \/ Refused(e)
      \/ Taken(e, s, d)
  BY Incoming
<1>2. \A r \in Streams : ~(Len(buffer[e][r]) >= 2)
  BY DEF StreamInv
<1>3. CASE HeldBack(e, s, d) \/ Dropped \/ Refused(e)
  <2>1. parsed' = parsed /\ buffer' = buffer /\ loop' = loop
    BY <1>3 DEF HeldBack, Dropped, Refused
  <2>2. Works
    BY <2>1 DEF Works, StreamInv
  <2>. QED  BY <2>1, <2>2, QuietStreams
<1>4. CASE Taken(e, s, d)
  <2> DEFINE w == written[e][s]
             p == parsed[e][s]
             b == buffer[e][s]
  <2>1. /\ Changed(parsed, parsed', e, s, p \o d, Seq(Pieces))
        /\ \/ Changed(buffer, buffer', e, s, b \o d, Seq(Pieces))
           \/ buffer' = buffer /\ ~Parsable(e, s, d)
        /\ loop'[Peer(e)] = loop[Peer(e)] /\ loop'[e].pc = "parsing" /\ loop'[e].stream = s
    BY <1>4 DEF Taken
  <2>2. w \in Seq(Pieces) /\ p \in Seq(Pieces) /\ b \in Seq(Pieces) /\ Paired(w) /\ InBuffer(w, p, b)
    BY Along DEF StreamInv
  <2>3. Begins(w, p, d)
    <3>1. \A r \in Streams : Kept(written'[e][r], parsed'[e][r], buffer'[e][r], stolen'[e][r], pending'[e][r],
                                  wire'[e][r], Running(e)')
      BY DEF SessionInv, EndInv, Flow
    <3>2. Kept(written'[e][s], parsed'[e][s], buffer'[e][s], stolen'[e][s], pending'[e][s], wire'[e][s], Running(e)')
      BY <3>1
    <3>3. written'[e][s] = w /\ parsed'[e][s] = p \o d
      BY <2>1 DEF Changed
    <3> HIDE DEF w, p, b
    <3>. QED  BY ONLY <3>2, <3>3 DEF Kept, Begins
  <2>4. ~Parsable(e, s, d) => b = <<>> /\ d[1][2] # 1
    BY DEF Parsable
  <2> HIDE DEF w, p, b
  <2>5. /\ InBuffer(w, p \o d, b \o d) /\ ReadOf(p \o d, b \o d) = ReadOf(p, b)
        /\ b = <<>> => d[1][2] = 1
    <3>1. Longer(w, p, b, d)
      BY <2>2, <2>3, BufferParsed
    <3>. QED  BY <3>1 DEF Longer
  <2>6. Changed(buffer, buffer', e, s, b \o d, Seq(Pieces))
    BY <2>1, <2>4, <2>5
  <2>7. /\ parsed'[e][s] = p \o d /\ buffer'[e][s] = b \o d
        /\ \A f \in Ends, r \in Streams : (f # e \/ r # s) => parsed'[f][r] = parsed[f][r] /\ buffer'[f][r] = buffer[f][r]
    BY <2>1, <2>6 DEF Changed
  <2>8. Silent
    BY DEF Silent, Sent
  <2>9. ReadNone
    <3>1. Read(e, s)' = Read(e, s)
      BY <2>5, <2>7 DEF Read, p, b
    <3>2. \A f \in Ends, r \in Streams : (f # e \/ r # s) => Read(f, r)' = Read(f, r)
      BY <2>7 DEF Read
    <3>. QED  BY <3>1, <3>2 DEF ReadNone
  <2>10. ASSUME NEW f \in Ends, NEW r \in Streams
         PROVE  /\ Paired(written'[f][r]) /\ InBuffer(written'[f][r], parsed'[f][r], buffer'[f][r])
                /\ Len(buffer'[f][r]) >= 2 => loop'[f].pc \in {"parsing", "accepted"} /\ loop'[f].stream = r
    <3>1. Paired(written'[f][r])
      BY DEF StreamInv
    <3>2. CASE f = e /\ r = s
      BY <2>1, <2>5, <2>7, <3>1, <3>2 DEF w
    <3>3. CASE f # e \/ r # s
      <4>1. InBuffer(written'[f][r], parsed'[f][r], buffer'[f][r])
        BY <2>7, <3>3 DEF StreamInv
      <4>2. Len(buffer'[f][r]) >= 2 => loop'[f].pc \in {"parsing", "accepted"} /\ loop'[f].stream = r
        <5>1. CASE f = e
          BY <1>2, <2>7, <3>3, <5>1
        <5>2. CASE f # e
          <6>1. loop'[f] = loop[f]
            BY <2>1, <5>2, TheEnds
          <6>2. Len(buffer[f][r]) >= 2 => loop[f].pc \in {"parsing", "accepted"} /\ loop[f].stream = r
            BY DEF StreamInv
          <6>3. buffer'[f][r] = buffer[f][r]
            BY <2>7, <5>2
          <6>. QED  BY ONLY <6>1, <6>2, <6>3
        <5>. QED  BY <5>1, <5>2
      <4>. QED  BY <3>1, <4>1, <4>2
    <3>. QED  BY <3>2, <3>3
  <2>. QED  BY <2>8, <2>9, <2>10 DEF StreamInv
<1>. QED  BY <1>1, <1>3, <1>4

\* A message is handled.
LEMMA ReadStreams ==
    ASSUME SessionInv, StreamInv, NEW e \in Ends, Parse(e), NEW s, s = loop[e].stream
    PROVE  LET n == Read(e, s) + 1
           IN  /\ StreamInv' /\ ReadOne(e, s) /\ s \in Streams
               /\ n \in 1 .. Len(Sent(e, s)) /\ buffer[e][s][1][1] = Sent(e, s)[n]
               /\ \/ UNCHANGED <<wire, written>> /\ Silent
                  \/ version = 16 /\ \E x \in Msgs : Send(e, Control(e), x) /\ Wrote(Peer(e), Control(e), x)
<1> DEFINE w == written[e][s]
           p == parsed[e][s]
           b == buffer[e][s]
           c == Tail(Tail(b))
           setup == b[1][1].type = "SETUP" /\ s = RemoteControl(e)
<1>1. parsed' = parsed /\ Len(b) >= 2 /\ buffer' = [buffer EXCEPT ![e][s] = c] /\ loop[e].pc = "parsing"
  BY DEF Parse, Complete, Consume
<1>2. s \in Streams /\ buffer \in Tables
  BY DEF SessionInv, SessionTypes
<1>3. Handled(e, setup)
  BY MessageHandled
<1>4. /\ loop'[Peer(e)] = loop[Peer(e)] /\ loop'[e].stream = s /\ loop'[e].pc \in {"parsing", "accepted"}
      /\ \/ UNCHANGED <<wire, written>>
         \/ version = 16 /\ \E x \in Msgs : Send(e, Control(e), x)
  BY <1>1, <1>3 DEF Handled
<1>5. w \in Seq(Pieces) /\ p \in Seq(Pieces) /\ b \in Seq(Pieces) /\ Len(p) <= Len(w) /\ Paired(w) /\ InBuffer(w, p, b)
  BY <1>2, Along DEF StreamInv
<1>6. \A r \in Streams : r # s => ~(Len(buffer[e][r]) >= 2)
  BY DEF StreamInv
<1>s. Read(e, s) = ReadOf(p, b) /\ Sent(e, s) = Messages(w)
  BY DEF Read, Sent
<1> HIDE DEF w, p, b, c, setup
<1>7. /\ InBuffer(w, p, c) /\ ReadOf(p, c) = ReadOf(p, b) + 1
      /\ ReadOf(p, b) + 1 \in 1 .. Len(Messages(w)) /\ b[1][1] = Messages(w)[ReadOf(p, b) + 1]
  BY <1>1, <1>5, BufferRead DEF c
<1>8. c \in Seq(Pieces)
  <2>1. Kept(w, p, b, stolen[e][s], pending[e][s], wire[e][s], Running(e))
    BY <1>2 DEF SessionInv, EndInv, Flow, w, p, b
  <2>2. Kept(w, p, c, stolen[e][s], pending[e][s], wire[e][s], Running(e))
    BY <1>1, <2>1, KeptConsumed DEF c
  <2>. QED  BY <2>2 DEF Kept
<1>9. Changed(buffer, buffer', e, s, c, Seq(Pieces))
  BY <1>1, <1>2, <1>8, OneChanged DEF Tables
<1>10. /\ buffer'[e][s] = c
       /\ \A f \in Ends, r \in Streams : (f # e \/ r # s) => buffer'[f][r] = buffer[f][r]
  BY <1>9 DEF Changed
<1>11. ReadOne(e, s)
  <2>1. Read(e, s)' = ReadOf(p, c)
    BY <1>1, <1>10 DEF Read, p
  <2>2. \A f \in Ends, r \in Streams : (f # e \/ r # s) => Read(f, r)' = Read(f, r)
    BY <1>1, <1>10 DEF Read
  <2>. QED  BY <1>7, <1>s, <2>1, <2>2 DEF ReadOne
<1>12. Control(e) \in Streams
  BY TheStreams
<1>13. \/ UNCHANGED <<wire, written>> /\ Silent
       \/ version = 16 /\ \E x \in Msgs : Send(e, Control(e), x) /\ Wrote(Peer(e), Control(e), x)
  <2>1. CASE UNCHANGED <<wire, written>>
    BY <2>1 DEF Silent, Sent
  <2>2. CASE version = 16 /\ \E x \in Msgs : Send(e, Control(e), x)
    BY <1>12, <2>2, SendStreams
  <2>. QED  BY <1>4, <2>1, <2>2
<1>14. ASSUME NEW f \in Ends, NEW r \in Streams
       PROVE  /\ Paired(written'[f][r]) /\ InBuffer(written'[f][r], parsed[f][r], buffer[f][r])
              /\ (f = e /\ r = s) => InBuffer(written'[f][r], p, c)
  <2>1. CASE UNCHANGED <<wire, written>>
    <3>1. Paired(written[f][r]) /\ InBuffer(written[f][r], parsed[f][r], buffer[f][r])
      BY DEF StreamInv
    <3>. QED  BY <1>7, <2>1, <3>1 DEF w
  <2>2. CASE version = 16 /\ \E x \in Msgs : Send(e, Control(e), x)
    <3>1. PICK x \in Msgs : Send(e, Control(e), x)
      BY <2>2
    <3>2. Paired(written'[f][r]) /\ InBuffer(written'[f][r], parsed[f][r], buffer[f][r])
      BY <1>12, <3>1, SendStreams
    <3>3. written'[e] = written[e]
      <4>1. written' = [written EXCEPT ![Peer(e)][Control(e)] = @ \o Halves(x)] /\ Peer(e) # e
        BY <3>1, TheEnds DEF Send
      <4>. QED  BY <4>1 DEF SessionInv, SessionTypes, Tables
    <3>. QED  BY <1>7, <3>2, <3>3 DEF w
  <2>. QED  BY <1>4, <2>1, <2>2
<1>15. StreamInv'
  <2> SUFFICES ASSUME NEW f \in Ends, NEW r \in Streams
               PROVE  /\ Paired(written'[f][r]) /\ InBuffer(written'[f][r], parsed'[f][r], buffer'[f][r])
                      /\ Len(buffer'[f][r]) >= 2 => loop'[f].pc \in {"parsing", "accepted"} /\ loop'[f].stream = r
    BY DEF StreamInv
  <2>1. CASE f = e /\ r = s
    BY <1>1, <1>4, <1>10, <1>14, <2>1 DEF p
  <2>2. CASE f = e /\ r # s
    BY <1>1, <1>6, <1>10, <1>14, <2>2
  <2>3. CASE f # e
    <3>1. loop'[f] = loop[f] /\ buffer'[f][r] = buffer[f][r]
      BY <1>4, <1>10, <2>3, TheEnds
    <3>2. Len(buffer[f][r]) >= 2 => loop[f].pc \in {"parsing", "accepted"} /\ loop[f].stream = r
      BY DEF StreamInv
    <3>. QED  BY <1>1, <1>14, <3>1, <3>2
  <2>. QED  BY <2>1, <2>2, <2>3
<1>. QED  BY <1>2, <1>7, <1>11, <1>13, <1>15, <1>s DEF b

-----------------------------------------------------------------------------
(* Messages are added, and read.                                             *)

Grown(q, r, m) ==
    /\ q \in Seq(Msgs) /\ r \in Seq(Msgs) /\ m \in Msgs /\ Len(q) \in Nat /\ Len(r) = Len(q) + 1
    /\ r[Len(q) + 1] = m /\ \A i \in 1 .. Len(q) : r[i] = q[i]

LEMMA Grows == ASSUME NEW q \in Seq(Msgs), NEW m \in Msgs PROVE Grown(q, Append(q, m), m)
<1>1. Len(q) \in Nat
  BY LenProperties
<1>. QED  BY <1>1, AppendProperties DEF Grown

LEMMA OfGrown ==
    ASSUME NEW q, NEW r, NEW m, Grown(q, r, m), NEW T
    PROVE  \A i : i \in Of(r, T) <=> (i \in Of(q, T) /\ r[i] = q[i]) \/ (i = Len(q) + 1 /\ r[i] = m /\ m.type \in T)
BY DEF Grown, Of

LEMMA OfTypes ==
    ASSUME NEW q \in Seq(Msgs), NEW T, NEW i \in Of(q, T)
    PROVE  i \in 1 .. Len(q) /\ i \in Nat /\ i <= Len(q) /\ Len(q) \in Nat /\ q[i] \in Msgs /\ q[i].type \in T /\ q[i].value \in Nat
<1>1. i \in 1 .. Len(q) /\ q[i].type \in T
  BY DEF Of
<1>2. Len(q) \in Nat
  BY LenProperties
<1>3. q[i] \in Msgs
  BY <1>1, ElementOfSeq
<1>. QED  BY <1>1, <1>2, <1>3 DEF Msgs

LEMMA LimitNatural == \A m \in Msgs : LimitIn(m) \in Nat
BY DEF LimitIn, Msgs

\* A larger limit is announced, or none.
LEMMA ChainGrown ==
    ASSUME NEW q, NEW r, NEW m, Grown(q, r, m), NEW n \in Nat, n <= Len(q), NEW max \in Nat, NEW local \in Nat,
           Chain(q, n, max, local),
           m.type \in LimitTypes => /\ 0 < LimitIn(m) /\ LimitIn(m) <= local
                                    /\ \A i \in Of(q, LimitTypes) : LimitIn(q[i]) < LimitIn(m)
    PROVE  Chain(r, n, max, local)
<1> DEFINE L == Of(q, LimitTypes)
           K == Of(r, LimitTypes)
<1>1. \A i : i \in K <=> (i \in L /\ r[i] = q[i]) \/ (i = Len(q) + 1 /\ r[i] = m /\ m.type \in LimitTypes)
  BY OfGrown
<1>2. \A i \in L : i \in Nat /\ i <= Len(q) /\ LimitIn(q[i]) \in Nat
  BY OfTypes, LimitNatural DEF Grown
<1>3. LimitIn(m) \in Nat /\ Len(q) \in Nat
  BY LimitNatural DEF Grown
<1>4. /\ \A i, j \in L : i < j => LimitIn(q[i]) < LimitIn(q[j])
      /\ \A i \in L : 0 < LimitIn(q[i]) /\ LimitIn(q[i]) <= local
      /\ max = 0 \/ \E i \in L : i <= n /\ LimitIn(q[i]) = max
      /\ \A i \in L : i <= n => LimitIn(q[i]) <= max
  BY DEF Chain
<1>a. /\ m.type \in LimitTypes => /\ 0 < LimitIn(m) /\ LimitIn(m) <= local
                                    /\ \A i \in L : LimitIn(q[i]) < LimitIn(m)
      /\ \A i \in L : i \in K /\ r[i] = q[i]
  <2>1. \A i \in L : r[i] = q[i]
    BY DEF Grown, Of
  <2>. QED  BY <1>1, <2>1
<1> HIDE DEF L, K
<1>5. ASSUME NEW i \in K, NEW j \in K, i < j PROVE LimitIn(r[i]) < LimitIn(r[j])
  <2>1. CASE j \in L
    BY <1>1, <1>2, <1>3, <1>4, <1>5, <1>a, <2>1
  <2>2. CASE j \notin L
    BY <1>1, <1>2, <1>3, <1>4, <1>5, <1>a, <2>2
  <2>. QED  BY <2>1, <2>2
<1>6. \A i \in K : 0 < LimitIn(r[i]) /\ LimitIn(r[i]) <= local
  BY <1>1, <1>4, <1>a
<1>7. max = 0 \/ \E i \in K : i <= n /\ LimitIn(r[i]) = max
  BY <1>4, <1>a
<1>8. \A i \in K : i <= n => LimitIn(r[i]) <= max
  BY <1>1, <1>3, <1>4
<1>. QED  BY <1>5, <1>6, <1>7, <1>8 DEF Chain, K

\* The limit is raised.
LEMMA ChainRaised ==
    ASSUME NEW q \in Seq(Msgs), NEW n, NEW max, NEW local \in Nat, NEW local2 \in Nat, local <= local2,
           Chain(q, n, max, local)
    PROVE  Chain(q, n, max, local2)
<1>1. \A i \in Of(q, LimitTypes) : LimitIn(q[i]) \in Nat
  BY OfTypes, LimitNatural
<1>. QED  BY <1>1 DEF Chain

\* A message is read: the limit in it is larger than any before.
LEMMA ChainRead ==
    ASSUME NEW q \in Seq(Msgs), NEW n \in Nat, n + 1 \in 1 .. Len(q), NEW max \in Nat, NEW local \in Nat,
           Chain(q, n, max, local)
    PROVE  LET m == q[n + 1] IN
           /\ m.type \in LimitTypes => max < LimitIn(m) /\ 0 < LimitIn(m) /\ LimitIn(m) <= local
                                       /\ Chain(q, n + 1, LimitIn(m), local)
           /\ m.type \notin LimitTypes => Chain(q, n + 1, max, local)
<1> DEFINE L == Of(q, LimitTypes)
           m == q[n + 1]
<1>1. \A i \in L : i \in Nat /\ LimitIn(q[i]) \in Nat
  BY OfTypes, LimitNatural
<1>2. /\ \A i, j \in L : i < j => LimitIn(q[i]) < LimitIn(q[j])
      /\ \A i \in L : 0 < LimitIn(q[i]) /\ LimitIn(q[i]) <= local
      /\ max = 0 \/ \E i \in L : i <= n /\ LimitIn(q[i]) = max
      /\ \A i \in L : i <= n => LimitIn(q[i]) <= max
  BY DEF Chain
<1>3. m.type \in LimitTypes <=> n + 1 \in L
  BY DEF Of
<1>4. \A i \in L : i <= n + 1 <=> i <= n \/ i = n + 1
  BY <1>1
<1>5. \A i \in L : i <= n => i < n + 1
  BY <1>1
<1>6. ASSUME m.type \in LimitTypes
      PROVE  /\ max < LimitIn(m) /\ 0 < LimitIn(m) /\ LimitIn(m) <= local
             /\ Chain(q, n + 1, LimitIn(m), local)
  <2>1. n + 1 \in L /\ LimitIn(m) \in Nat
    BY <1>1, <1>3, <1>6
  <2>2. 0 < LimitIn(m) /\ LimitIn(m) <= local
    BY <1>2, <2>1
  <2>3. \A i \in L : i <= n => LimitIn(q[i]) < LimitIn(m)
    BY <1>2, <1>5, <2>1
  <2>4. max < LimitIn(m)
    BY <1>2, <2>2, <2>3
  <2> HIDE DEF L
  <2>5. \A i \in L : i <= n + 1 => LimitIn(q[i]) <= LimitIn(m)
    BY <1>1, <1>4, <2>1, <2>3
  <2>6. \E i \in L : i <= n + 1 /\ LimitIn(q[i]) = LimitIn(m)
    BY <2>1
  <2>. QED  BY <1>2, <2>2, <2>4, <2>5, <2>6 DEF Chain, L
<1>7. ASSUME m.type \notin LimitTypes PROVE Chain(q, n + 1, max, local)
  <2>1. \A i \in L : i <= n + 1 <=> i <= n
    BY <1>3, <1>4, <1>7
  <2> HIDE DEF L
  <2>. QED  BY <1>2, <2>1 DEF Chain, L
<1>. QED  BY <1>6, <1>7

\* The end says what it announces.
LEMMA AnnouncesGrown ==
    ASSUME NEW q, NEW r, NEW m, Grown(q, r, m), NEW local \in Nat, NEW R \in SUBSET Nat, NEW S \in SUBSET Nat,
           NEW connected, NEW setup, setup \in LimitTypes,
           Announces(q, local, R, connected, setup),
           m.type = setup <=> Len(q) = 0,
           \/ m.type \notin LimitTypes /\ S = R /\ q # <<>>
           \/ m.type \in LimitTypes /\ LimitIn(m) = local /\ S = {}
    PROVE  Announces(r, local, S, connected, setup)
<1> DEFINE L == Of(q, LimitTypes)
           K == Of(r, LimitTypes)
<1>1. \A i : i \in K <=> (i \in L /\ r[i] = q[i]) \/ (i = Len(q) + 1 /\ r[i] = m /\ m.type \in LimitTypes)
  BY OfGrown
<1>2. /\ \A v \in R : v + 1 = local /\ connected /\ \A i \in L : LimitIn(q[i]) < local
      /\ (q # <<>> /\ R = {}) => \E i \in L : LimitIn(q[i]) = local
      /\ \A i \in 1 .. Len(q) : i = 1 <=> q[i].type = setup
  BY DEF Announces
<1>3. /\ Len(q) \in Nat /\ Len(r) = Len(q) + 1 /\ r[Len(q) + 1] = m /\ \A i \in 1 .. Len(q) : r[i] = q[i]
  BY DEF Grown
<1>4. ASSUME NEW i \in 1 .. Len(r) PROVE i = 1 <=> r[i].type = setup
  <2>1. CASE i \in 1 .. Len(q)
    BY <1>2, <1>3, <2>1
  <2>2. CASE i = Len(q) + 1
    BY <1>3, <2>2
  <2>. QED  BY <1>3, <2>1, <2>2
<1>a. \A i \in L : i \in K /\ r[i] = q[i]
  <2>1. \A i \in L : r[i] = q[i]
    BY <1>3 DEF Of
  <2>. QED  BY <1>1, <2>1
<1> HIDE DEF L, K
<1>5. CASE m.type \notin LimitTypes /\ S = R /\ q # <<>>
  <2>1. \A v \in S : v + 1 = local /\ connected /\ \A i \in K : LimitIn(r[i]) < local
    BY <1>1, <1>2, <1>5
  <2>2. (r # <<>> /\ S = {}) => \E i \in K : LimitIn(r[i]) = local
    BY <1>2, <1>5, <1>a
  <2>. QED  BY <1>4, <2>1, <2>2 DEF Announces, K
<1>6. CASE m.type \in LimitTypes /\ LimitIn(m) = local /\ S = {}
  <2>1. \E i \in K : LimitIn(r[i]) = local
    BY <1>1, <1>3, <1>6
  <2>. QED  BY <1>4, <1>6, <2>1 DEF Announces, K
<1>. QED  BY <1>5, <1>6

LEMMA GoawayGrown ==
    ASSUME NEW q, NEW r, NEW m, Grown(q, r, m), NEW n \in Nat, NEW goaway, GoawayOnce(q, n, goaway),
           m.type = "GOAWAY" => Of(q, {"GOAWAY"}) = {}
    PROVE  GoawayOnce(r, n, goaway)
<1> DEFINE G == Of(q, {"GOAWAY"})
           K == Of(r, {"GOAWAY"})
<1>1. \A i : i \in K <=> (i \in G /\ r[i] = q[i]) \/ (i = Len(q) + 1 /\ r[i] = m /\ m.type \in {"GOAWAY"})
  BY OfGrown
<1>2. (\A i, j \in G : i = j) /\ (goaway => \E i \in G : i <= n)
  BY DEF GoawayOnce
<1>3. \A i \in G : i \in K
  BY <1>1 DEF Grown, Of
<1>4. m.type = "GOAWAY" => G = {}
  OBVIOUS
<1> HIDE DEF G, K
<1>5. (\A i, j \in K : i = j) /\ (goaway => \E i \in K : i <= n)
  BY <1>1, <1>2, <1>3, <1>4
<1>. QED  BY <1>5 DEF GoawayOnce, K

LEMMA GoawayRead ==
    ASSUME NEW q \in Seq(Msgs), NEW n \in Nat, n + 1 \in 1 .. Len(q), NEW goaway, GoawayOnce(q, n, goaway)
    PROVE  /\ q[n + 1].type = "GOAWAY" => ~goaway /\ GoawayOnce(q, n + 1, TRUE)
           /\ GoawayOnce(q, n + 1, goaway)
<1> DEFINE G == Of(q, {"GOAWAY"})
<1>1. (\A i, j \in G : i = j) /\ (goaway => \E i \in G : i <= n) /\ \A i \in G : i \in Nat
  BY OfTypes DEF GoawayOnce
<1>2. q[n + 1].type = "GOAWAY" => n + 1 \in G
  BY DEF Of
<1> HIDE DEF G
<1>3. \A i \in G : i <= n => i <= n + 1 /\ i # n + 1
  BY <1>1
<1>4. ASSUME q[n + 1].type = "GOAWAY" PROVE ~goaway /\ GoawayOnce(q, n + 1, TRUE)
  <2>1. n + 1 \in G /\ n + 1 <= n + 1
    BY <1>2, <1>4
  <2>2. ~goaway
    BY <1>1, <1>3, <2>1
  <2>. QED  BY <1>1, <2>1, <2>2 DEF GoawayOnce, G
<1>5. GoawayOnce(q, n + 1, goaway)
  BY <1>1, <1>3 DEF GoawayOnce, G
<1>. QED  BY <1>4, <1>5

-----------------------------------------------------------------------------
(* IDs are used.                                                             *)

LEMMA NextIdFirst ==
    ASSUME NEW q \in Seq(Msgs), NEW first \in Nat, NEW limit, InRow(q, first, limit), NEW n, NEW x \in Nat,
           NextId(q, n, first, x)
    PROVE  first <= x
<1>1. \A i \in Of(q, {"REQUEST"}) : q[i].value \in Nat /\ first <= q[i].value
  BY OfTypes DEF InRow
<1>2. x = first \/ \E i \in Of(q, {"REQUEST"}) : q[i].value + 2 = x
  BY DEF NextId
<1>. QED  BY <1>1, <1>2

\* A request with the next ID is added.
LEMMA RowGrown ==
    ASSUME NEW q, NEW r, NEW m, Grown(q, r, m), NEW first \in Nat, NEW limit \in Nat, InRow(q, first, limit),
           m.type = "REQUEST", NextId(q, Len(q), first, m.value), m.value < limit
    PROVE  InRow(r, first, limit) /\ NextId(r, Len(r), first, m.value + 2)
<1> DEFINE R == Of(q, {"REQUEST"})
           K == Of(r, {"REQUEST"})
           v == m.value
<1>1. \A i : i \in K <=> (i \in R /\ r[i] = q[i]) \/ (i = Len(q) + 1 /\ r[i] = m)
  BY OfGrown
<1>2. /\ \A i \in R : i \in Nat /\ i <= Len(q) /\ q[i].value \in Nat
      /\ Len(q) \in Nat /\ Len(r) = Len(q) + 1 /\ v \in Nat /\ v < limit
  BY OfTypes DEF Grown, Msgs
<1>3. /\ \A i, j \in R : i < j => q[i].value + 2 <= q[j].value
      /\ \A i \in R : first <= q[i].value /\ q[i].value < limit
      /\ \A i \in R : q[i].value = first \/ \E j \in R : q[j].value + 2 = q[i].value
  BY DEF InRow
<1>4. /\ \A i \in R : q[i].value + 2 <= v
      /\ v = first \/ \E i \in R : q[i].value + 2 = v
      /\ first <= v
  <2>1. first <= v
    BY <1>2, NextIdFirst DEF Grown
  <2>. QED  BY <1>2, <2>1 DEF NextId
<1>5. \A i \in R : i \in K /\ r[i] = q[i]
  BY <1>1 DEF Grown, Of
<1>6. Len(q) + 1 \in K /\ r[Len(q) + 1] = m
  BY <1>1 DEF Grown
<1> HIDE DEF R, K
<1>7. ASSUME NEW i \in K, NEW j \in K, i < j PROVE r[i].value + 2 <= r[j].value
  <2>1. i \in R /\ r[i] = q[i]
    BY <1>1, <1>2, <1>7
  <2>2. CASE j \in R
    BY <1>3, <1>5, <1>7, <2>1, <2>2
  <2>3. CASE j \notin R
    BY <1>1, <1>4, <2>1, <2>3
  <2>. QED  BY <2>2, <2>3
<1>8. ASSUME NEW i \in K
      PROVE  /\ first <= r[i].value /\ r[i].value < limit
             /\ r[i].value = first \/ \E j \in K : r[j].value + 2 = r[i].value
             /\ r[i].value + 2 <= v + 2
  <2>1. CASE i \in R
    <3>1. r[i].value + 2 <= v + 2
      BY <1>2, <1>4, <1>5, <2>1
    <3>. QED  BY <1>3, <1>5, <2>1, <3>1
  <2>2. CASE i \notin R
    <3>1. r[i].value = v
      BY <1>1, <2>2
    <3>. QED  BY <1>2, <1>4, <1>5, <3>1
  <2>. QED  BY <2>1, <2>2
<1>9. InRow(r, first, limit)
  BY <1>7, <1>8 DEF InRow, K
<1>10. NextId(r, Len(r), first, v + 2)
  BY <1>2, <1>6, <1>8 DEF NextId, K
<1>. QED  BY <1>9, <1>10

\* Another message is added.
LEMMA RowOther ==
    ASSUME NEW q, NEW r, NEW m, Grown(q, r, m), m.type # "REQUEST", NEW first, NEW limit
    PROVE  /\ Of(r, {"REQUEST"}) = Of(q, {"REQUEST"}) /\ \A i \in Of(q, {"REQUEST"}) : r[i] = q[i] /\ i <= Len(q) /\ i <= Len(r)
           /\ InRow(q, first, limit) => InRow(r, first, limit)
           /\ \A x : NextId(q, Len(q), first, x) => NextId(r, Len(r), first, x)
           /\ \A n, x : NextId(q, n, first, x) => NextId(r, n, first, x)
<1> DEFINE R == Of(q, {"REQUEST"})
           K == Of(r, {"REQUEST"})
<1>1. \A i : i \in K <=> (i \in R /\ r[i] = q[i]) \/ (i = Len(q) + 1 /\ r[i] = m /\ m.type \in {"REQUEST"})
  BY OfGrown
<1>2. \A i \in R : r[i] = q[i] /\ i <= Len(q) /\ i <= Len(r)
  BY OfTypes DEF Grown
<1>3. K = R
  BY <1>1, <1>2
<1> HIDE DEF R, K
<1>4. InRow(q, first, limit) => InRow(r, first, limit)
  BY <1>2, <1>3 DEF InRow, R, K
<1>5. \A x : NextId(q, Len(q), first, x) => NextId(r, Len(r), first, x)
  BY <1>2, <1>3 DEF NextId, R, K
<1>6. \A n, x : NextId(q, n, first, x) => NextId(r, n, first, x)
  BY <1>2, <1>3 DEF NextId, R, K
<1>. QED  BY <1>2, <1>3, <1>4, <1>5, <1>6 DEF R, K

LEMMA ExpectsGrown ==
    ASSUME NEW q, NEW r, NEW m, Grown(q, r, m), NEW n \in Nat, n <= Len(q), NEW first \in Nat, NEW limit,
           InRow(q, first, limit), NEW x \in Nat, Expects(q, n, first, x),
           m.type = "REQUEST" => NextId(q, Len(q), first, m.value)
    PROVE  Expects(r, n, first, x)
<1> DEFINE R == Of(q, {"REQUEST"})
           K == Of(r, {"REQUEST"})
<1>1. \A i : i \in K <=> (i \in R /\ r[i] = q[i]) \/ (i = Len(q) + 1 /\ r[i] = m /\ m.type \in {"REQUEST"})
  BY OfGrown
<1>2. /\ \A i \in R : i \in Nat /\ i <= Len(q) /\ q[i].value \in Nat
      /\ Len(q) \in Nat /\ m.value \in Nat
  BY OfTypes DEF Grown, Msgs
<1>3. /\ \A i \in R : i <= n => q[i].value + 2 <= x
      /\ x = first \/ \E i \in R : i <= n /\ q[i].value + 2 = x
      /\ \A i \in R : n < i => x <= q[i].value
  BY DEF Expects, NextId
<1>4. m.type = "REQUEST" => x <= m.value
  <2> SUFFICES ASSUME m.type = "REQUEST" PROVE x <= m.value
    OBVIOUS
  <2>1. NextId(q, Len(q), first, m.value) /\ first <= m.value
    BY <1>2, NextIdFirst DEF Grown
  <2>2. \A i \in R : q[i].value + 2 <= m.value
    BY <1>2, <2>1 DEF NextId
  <2>. QED  BY <1>3, <2>1, <2>2
<1>5. \A i \in R : i \in K /\ r[i] = q[i]
  BY <1>1 DEF Grown, Of
<1> HIDE DEF R, K
<1>6. \A i \in K : i <= n => r[i].value + 2 <= x
  BY <1>1, <1>2, <1>3
<1>7. x = first \/ \E i \in K : i <= n /\ r[i].value + 2 = x
  BY <1>3, <1>5
<1>8. \A i \in K : n < i => x <= r[i].value
  BY <1>1, <1>3, <1>4
<1>. QED  BY <1>6, <1>7, <1>8 DEF Expects, NextId, K

\* A request is read: it has the ID that is expected.
LEMMA ExpectsRead ==
    ASSUME NEW q \in Seq(Msgs), NEW n \in Nat, n + 1 \in 1 .. Len(q), NEW first \in Nat, NEW limit \in Nat,
           InRow(q, first, limit), NEW x \in Nat, Expects(q, n, first, x)
    PROVE  /\ q[n + 1].type = "REQUEST" => /\ q[n + 1].value = x /\ x < limit
                                           /\ Expects(q, n + 1, first, x + 2)
           /\ q[n + 1].type # "REQUEST" => Expects(q, n + 1, first, x)
<1> DEFINE R == Of(q, {"REQUEST"})
           v == q[n + 1].value
<1>1. \A i \in R : i \in Nat /\ q[i].value \in Nat
  BY OfTypes
<1>2. /\ \A i, j \in R : i < j => q[i].value + 2 <= q[j].value
      /\ \A i \in R : first <= q[i].value /\ q[i].value < limit
      /\ \A i \in R : q[i].value = first \/ \E j \in R : q[j].value + 2 = q[i].value
  BY DEF InRow
<1>3. /\ \A i \in R : i <= n => q[i].value + 2 <= x
      /\ x = first \/ \E i \in R : i <= n /\ q[i].value + 2 = x
      /\ \A i \in R : n < i => x <= q[i].value
  BY DEF Expects, NextId
<1>4. q[n + 1].type = "REQUEST" <=> n + 1 \in R
  BY DEF Of
<1>5. \A i \in R : /\ i <= n \/ i = n + 1 \/ n + 1 < i
                   /\ i <= n => i <= n + 1 /\ i < n + 1
                   /\ n + 1 < i => n < i
                   /\ i <= n + 1 => i <= n \/ i = n + 1
  BY <1>1
<1> HIDE DEF R
<1>6. ASSUME q[n + 1].type = "REQUEST" PROVE v = x /\ x < limit /\ Expects(q, n + 1, first, x + 2)
  <2>1. n + 1 \in R /\ v \in Nat /\ n < n + 1 /\ n + 1 <= n + 1
    BY <1>1, <1>4, <1>6
  <2>2. x <= v
    BY <1>3, <2>1
  <2>3. v <= x
    <3>1. CASE v = first
      <4>1. ASSUME NEW i \in R, i <= n, q[i].value + 2 = x PROVE FALSE
        <5>1. q[i].value + 2 <= v /\ first <= q[i].value
          BY <1>2, <1>5, <2>1, <4>1
        <5>. QED  BY <1>1, <2>1, <3>1, <5>1
      <4>2. x = first
        BY <1>3, <4>1
      <4>. QED  BY <3>1, <4>2
    <3>2. CASE v # first
      <4>1. PICK j \in R : q[j].value + 2 = v
        BY <1>2, <2>1, <3>2
      <4>2. ~(n + 1 < j) /\ j # n + 1
        <5>1. n + 1 < j => v + 2 <= q[j].value
          BY <1>2, <2>1
        <5>. QED  BY <1>1, <2>1, <4>1, <5>1
      <4>3. j <= n
        BY <1>5, <4>2
      <4>. QED  BY <1>3, <4>1, <4>3
    <3>. QED  BY <3>1, <3>2
  <2>4. v = x
    BY <2>1, <2>2, <2>3
  <2>5. x < limit
    BY <1>2, <2>1, <2>4
  <2>6. \A i \in R : i <= n + 1 => q[i].value + 2 <= x + 2
    BY <1>1, <1>3, <1>5, <2>4
  <2>7. \E i \in R : i <= n + 1 /\ q[i].value + 2 = x + 2
    BY <2>1, <2>4
  <2>8. \A i \in R : n + 1 < i => x + 2 <= q[i].value
    BY <1>2, <2>1, <2>4
  <2>. QED  BY <2>4, <2>5, <2>6, <2>7, <2>8 DEF Expects, NextId, R
<1>7. ASSUME q[n + 1].type # "REQUEST" PROVE Expects(q, n + 1, first, x)
  <2>1. \A i \in R : (i <= n + 1 <=> i <= n) /\ (n + 1 < i => n < i)
    BY <1>4, <1>5, <1>7
  <2>. QED  BY <1>3, <2>1 DEF Expects, NextId, R
<1>. QED  BY <1>6, <1>7

\* Threads take IDs.
LEMMA RowLimit ==
    ASSUME NEW q \in Seq(Msgs), NEW first, NEW limit \in Nat, NEW limit2 \in Nat, limit <= limit2
    PROVE  /\ InRow(q, first, limit) => InRow(q, first, limit2)
           /\ \A next, H : \A S \in SUBSET Nat : \A live :
                Issues(q, first, next, limit, H, S, live) => Issues(q, first, next, limit2, H, S, live)
<1>1. \A i \in Of(q, {"REQUEST"}) : q[i].value \in Nat /\ (q[i].value < limit => q[i].value < limit2)
  BY OfTypes
<1>2. InRow(q, first, limit) => InRow(q, first, limit2)
  BY <1>1 DEF InRow
<1>3. \A v \in Nat : v < limit => v < limit2
  OBVIOUS
<1>4. ASSUME NEW next, NEW H, NEW S \in SUBSET Nat, NEW live, Issues(q, first, next, limit, H, S, live)
      PROVE  Issues(q, first, next, limit2, H, S, live)
  BY <1>3, <1>4 DEF Issues
<1>. QED  BY <1>2, <1>4

LEMMA IssuesGrown ==
    ASSUME NEW q, NEW r, NEW m, Grown(q, r, m), NEW first \in Nat, NEW limit \in Nat, NEW next \in Nat, NEW H, NEW S, NEW live,
           Issues(q, first, next, limit, H, S, live), m.type # "REQUEST"
    PROVE  Issues(r, first, next, limit, H, S, live)
<1>1. \A x : NextId(q, Len(q), first, x) => NextId(r, Len(r), first, x)
  BY RowOther
<1>2. r # <<>>
  BY EmptySeq DEF Grown
<1>. QED  BY <1>1, <1>2 DEF Issues

-----------------------------------------------------------------------------
(* What a step leaves as it was.                                             *)

LEMMA TheControls ==
    ASSUME NEW e \in Ends
    PROVE  /\ RemoteControl(e) = Control(Peer(e)) /\ RemoteControl(Peer(e)) = Control(e)
           /\ version = 16 => Control(e) = Control(Peer(e)) /\ RemoteControl(e) = Control(e)
           /\ RemoteControl(e) \in Streams /\ RemoteControl(Peer(e)) \in Streams /\ Control(e) \in Streams
<1>1. Peer(e) \in Ends /\ Peer(Peer(e)) = e
  BY TheEnds
<1>2. Control(e) \in Streams /\ RemoteControl(e) \in Streams /\ RemoteControl(Peer(e)) \in Streams
  BY <1>1, TheStreams
<1>. QED  BY <1>1, <1>2 DEF RemoteControl, Control

LEMMA SameVersion ==
    ASSUME version' = version
    PROVE  /\ \A e \in Ends : RemoteControl(e)' = RemoteControl(e) /\ Control(e)' = Control(e)
           /\ \A e \in Ends, s \in Streams, m \in Msgs : MayBeSent(e, s, m)' <=> MayBeSent(e, s, m)
<1>1. ASSUME NEW e \in Ends
      PROVE  RemoteControl(e)' = RemoteControl(e) /\ Control(e)' = Control(e) /\ DataStream(e)' = DataStream(e)
             /\ \A s \in Streams : Bidirectional(s)' = Bidirectional(s)
  BY SameStreams
<1>2. ASSUME NEW e \in Ends, NEW s \in Streams, NEW m \in Msgs PROVE MayBeSent(e, s, m)' <=> MayBeSent(e, s, m)
  <2>1. Peer(e) \in Ends
    BY TheEnds
  <2>2. Bidirectional(s)' <=> Bidirectional(s)
    BY DEF Bidirectional, DataStream
  <2>. QED  BY <1>1, <2>1, <2>2 DEF MayBeSent, DataStream
<1>. QED  BY <1>1, <1>2

LEMMA SendableSilent ==
    ASSUME SessionInv, NumbersInv, version' = version, Silent
    PROVE  Sendable'
<1> SUFFICES ASSUME NEW e \in Ends, NEW s \in Streams, NEW i, i \in 1 .. Len(Sent(e, s)'), NEW x, x = (Sent(e, s)')[i]
             PROVE  MayBeSent(e, s, x)'
  BY DEF Sendable
<1>1. Sent(e, s)' = Sent(e, s)
  BY DEF Silent
<1>2. MayBeSent(e, s, Sent(e, s)[i])
  BY <1>1 DEF NumbersInv, MessagesInv, Sendable
<1>3. Sent(e, s)[i] \in Msgs
  <2>1. Sent(e, s) \in Seq(Msgs)
    BY SentTypes DEF NumbersInv
  <2>. QED  BY <1>1, <2>1, ElementOfSeq
<1> DEFINE m == Sent(e, s)[i]
<1>. QED  BY <1>1, <1>2, <1>3, SameVersion

LEMMA SendableWrote ==
    ASSUME SessionInv, NumbersInv, version' = version, NEW g \in Ends, NEW r \in Streams, NEW m \in Msgs, Wrote(g, r, m),
           MayBeSent(g, r, m)
    PROVE  Sendable'
<1> SUFFICES ASSUME NEW e \in Ends, NEW s \in Streams, NEW i, i \in 1 .. Len(Sent(e, s)'), NEW x, x = (Sent(e, s)')[i]
             PROVE  MayBeSent(e, s, x)'
  BY DEF Sendable
<1>1. Sent(e, s) \in Seq(Msgs)
  BY SentTypes DEF NumbersInv
<1>2. Sendable
  BY DEF NumbersInv, MessagesInv
<1>3. x \in Msgs /\ MayBeSent(e, s, x)
  <2>1. CASE e = g /\ s = r
    <3>1. Sent(e, s)' = Append(Sent(e, s), m)
      BY <2>1 DEF Wrote
    <3>2. Grown(Sent(e, s), Sent(e, s)', m)
      BY <1>1, <3>1, Grows
    <3>3. CASE i = Len(Sent(e, s)) + 1
      BY <2>1, <3>2, <3>3 DEF Grown
    <3>4. CASE i \in 1 .. Len(Sent(e, s))
      <4>1. x = Sent(e, s)[i]
        BY <3>2, <3>4 DEF Grown
      <4>2. Sent(e, s)[i] \in Msgs
        BY <1>1, <3>4, ElementOfSeq
      <4>. QED  BY <1>2, <3>4, <4>1, <4>2 DEF Sendable
    <3>5. i \in 1 .. Len(Sent(e, s)) \/ i = Len(Sent(e, s)) + 1
      BY <3>2 DEF Grown
    <3>. QED  BY <3>3, <3>4, <3>5
  <2>2. CASE e # g \/ s # r
    <3>1. Sent(e, s)' = Sent(e, s)
      BY <2>2 DEF Wrote
    <3>2. Sent(e, s)[i] \in Msgs
      BY <1>1, <3>1, ElementOfSeq
    <3>. QED  BY <1>2, <3>1, <3>2 DEF Sendable
  <2>. QED  BY <2>1, <2>2
<1>. QED  BY <1>3, SameVersion

LEMMA GoawaysSame ==
    ASSUME NEW e \in Ends, Goaways(e), version' = version,
           Sent(e, RemoteControl(e))' = Sent(e, RemoteControl(e)), Read(e, RemoteControl(e))' = Read(e, RemoteControl(e)),
           moq'[e].goaway = moq[e].goaway
    PROVE  Goaways(e)'
BY DEF Goaways

LEMMA OwnIdsSame ==
    ASSUME NEW e \in Ends, OwnIds(e), Live(e)' => Live(e), moq'[e].next = moq[e].next,
           Values(e, "has_id")' \subseteq Values(e, "has_id"), Values(e, "reserved")' \subseteq Values(e, "reserved")
    PROVE  OwnIds(e)'
BY DEF OwnIds

LEMMA LimitsSame ==
    ASSUME NEW e \in Ends, Limits16(e), version' = version,
           Sent(e, RemoteControl(e))' = Sent(e, RemoteControl(e)), Read(e, RemoteControl(e))' = Read(e, RemoteControl(e)),
           moq'[e].max = moq[e].max, moq'[Peer(e)].local = moq[Peer(e)].local,
           Values(Peer(e), "raised")' = Values(Peer(e), "raised"),
           moq[Peer(e)].connected => moq'[Peer(e)].connected
    PROVE  Limits16(e)'
BY DEF Limits16, Announces, SetupOf

LEMMA IdsSame ==
    ASSUME NEW e \in Ends, Ids16(e), version' = version,
           Sent(e, RemoteControl(e))' = Sent(e, RemoteControl(e)), Read(e, RemoteControl(e))' = Read(e, RemoteControl(e)),
           moq'[e].local = moq[e].local, moq'[e].expected = moq[e].expected, moq'[Peer(e)].next = moq[Peer(e)].next,
           Values(Peer(e), "has_id")' = Values(Peer(e), "has_id"),
           Values(Peer(e), "reserved")' = Values(Peer(e), "reserved"),
           Live(e)' => Live(e), Live(Peer(e))' => Live(Peer(e))
    PROVE  Ids16(e)'
BY DEF Ids16, Issues, FirstId

\* The end goes on as it was, or is connected, up or gone.
Steady(e) ==
    /\ Numbers(e)' = Numbers(e)
    /\ moq'[e].connected = moq[e].connected \/ (moq'[e].connected /\ loop[e].pc = "accepted")
    /\ \/ moq'[e].state = moq[e].state \/ moq'[e].state = "gone"
       \/ moq[e].state = "new" /\ moq'[e].state = "up" /\ (version = 16 => e = "server")
    /\ moq[e].state = "none" => parsed'[e] = parsed[e]
    /\ loop'[e].pc = "accepted" => loop[e].pc = "accepted"

LEMMA QuietNumbers ==
    ASSUME SessionInv, NumbersInv, StreamInv', version' = version, verdict' = verdict, pc' = pc, closed' = closed,
           Silent, ReadNone, \A e \in Ends : Steady(e)
    PROVE  NumbersInv'
<1>1. ASSUME NEW e \in Ends
      PROVE  /\ moq'[e].next = moq[e].next /\ moq'[e].expected = moq[e].expected /\ moq'[e].max = moq[e].max
             /\ moq'[e].local = moq[e].local /\ moq'[e].goaway = moq[e].goaway
             /\ Sent(e, RemoteControl(e))' = Sent(e, RemoteControl(e))
             /\ Read(e, RemoteControl(e))' = Read(e, RemoteControl(e))
             /\ Live(e)' => Live(e)
             /\ \A k : Values(e, k)' = Values(e, k)
             /\ moq[e].connected => moq'[e].connected
             /\ Sent(Peer(e), Control(e))' = Sent(Peer(e), Control(e)) /\ Read(e, Control(e))' = Read(e, Control(e))
             /\ RemoteControl(e)' = RemoteControl(e) /\ Control(e)' = Control(e)
  <2>1. Steady(e) /\ Peer(e) \in Ends
    BY TheEnds
  <2>2. /\ moq'[e].next = moq[e].next /\ moq'[e].expected = moq[e].expected /\ moq'[e].max = moq[e].max
        /\ moq'[e].local = moq[e].local /\ moq'[e].goaway = moq[e].goaway
    BY <2>1 DEF Steady, Numbers
  <2>3. RemoteControl(e) \in Streams /\ Control(e) \in Streams
    BY TheControls
  <2>4. RemoteControl(e)' = RemoteControl(e) /\ Control(e)' = Control(e)
    BY SameVersion
  <2>5. /\ \A s \in Streams : Sent(e, s)' = Sent(e, s) /\ Read(e, s)' = Read(e, s) /\ Sent(Peer(e), s)' = Sent(Peer(e), s)
    BY <2>1 DEF Silent, ReadNone
  <2>6. /\ Sent(e, RemoteControl(e))' = Sent(e, RemoteControl(e)) /\ Read(e, RemoteControl(e))' = Read(e, RemoteControl(e))
        /\ Sent(Peer(e), Control(e))' = Sent(Peer(e), Control(e)) /\ Read(e, Control(e))' = Read(e, Control(e))
    BY <2>3, <2>4, <2>5 DEF Sent, Read
  <2>7. Live(e)' => Live(e)
    BY <2>1 DEF Steady, Live
  <2>8. \A k : Values(e, k)' = Values(e, k)
    BY DEF Values
  <2>9. moq[e].connected => moq'[e].connected
    BY <2>1 DEF Steady
  <2>. QED  BY <2>2, <2>4, <2>6, <2>7, <2>8, <2>9
<1>2. NoRefusal'
  BY DEF NumbersInv, MessagesInv, NoRefusal
<1>3. Sendable'
  BY SendableSilent
<1>4. ASSUME NEW e \in Ends PROVE Goaways(e)' /\ OwnIds(e)' /\ Unborn(e)'
  <2>1. Goaways(e) /\ OwnIds(e) /\ Unborn(e) /\ Stage(e) /\ Steady(e)
    BY DEF NumbersInv, MessagesInv, SessionInv, EndInv
  <2>2. Goaways(e)'
    BY <1>1, <2>1, GoawaysSame
  <2>3. OwnIds(e)'
    BY <1>1, <2>1, OwnIdsSame
  <2>4. Unborn(e)'
    <3>1. moq'[e].state = "none" => moq[e].state = "none" /\ parsed'[e] = parsed[e]
      BY <2>1 DEF Steady
    <3>2. moq[e].state = "none" => loop[e].pc = "idle"
      BY <2>1 DEF Stage
    <3>3. moq[e].state = "none" => moq'[e].connected = moq[e].connected
      BY <2>1, <3>2 DEF Steady
    <3>. QED  BY <1>1, <2>1, <3>1, <3>3 DEF Unborn
  <2>. QED  BY <2>2, <2>3, <2>4
<1>5. ASSUME version = 16 PROVE Told16'
  <2>1. Phases /\ \A e \in Ends : Limits16(e) /\ Ids16(e)
    BY <1>5 DEF NumbersInv, Told16
  <2>2. ASSUME NEW e \in Ends PROVE Limits16(e)' /\ Ids16(e)'
    <3>1. Peer(e) \in Ends
      BY TheEnds
    <3>2. Limits16(e)'
      BY <1>1, <2>1, <3>1, LimitsSame
    <3>3. Ids16(e)'
      BY <1>1, <2>1, <3>1, IdsSame
    <3>. QED  BY <3>2, <3>3
  <2>3. \A e \in Ends : Started(e)' = Started(e)
    BY <1>1 DEF Started
  <2>4. /\ moq'["client"].state = "up" => Started("client")
        /\ Started("client") => moq'["client"].state \in {"up", "gone"}
    <3>1. "client" \in Ends /\ "client" # "server"
      BY DEF Ends
    <3>. QED  BY <1>5, <2>1, <3>1 DEF Phases, Steady
  <2>5. Started("server") => Read("server", Control("server"))' > 0
    <3>1. "server" \in Ends
      BY DEF Ends
    <3>. QED  BY <1>1, <2>1, <3>1 DEF Phases
  <2>6. ASSUME NEW e \in Ends
        PROVE  /\ loop'[e].pc = "accepted" \/ moq'[e].connected \/ (moq'[e].max > 0 /\ closed'[e] = "open") => Started(e)
               /\ Live(e)' => moq'[e].local > 0
    <3>1. Steady(e)
      OBVIOUS
    <3>2. /\ loop[e].pc = "accepted" \/ moq[e].connected \/ (moq[e].max > 0 /\ closed[e] = "open") => Started(e)
          /\ Live(e) => moq[e].local > 0
      BY <2>1 DEF Phases
    <3>3. loop'[e].pc = "accepted" \/ moq'[e].connected => loop[e].pc = "accepted" \/ moq[e].connected
      BY <3>1 DEF Steady
    <3>. QED  BY <1>1, <3>2, <3>3
  <2>7. Phases'
    <3>1. Started("client")' = Started("client") /\ Started("server")' = Started("server")
      BY <2>3 DEF Ends
    <3>2. ASSUME NEW e \in Ends
          PROVE  /\ loop'[e].pc = "accepted" \/ moq'[e].connected \/ (moq'[e].max > 0 /\ closed'[e] = "open") => Started(e)'
                 /\ Live(e)' => moq'[e].local > 0
      BY <2>3, <2>6
    <3>. QED  BY <2>4, <2>5, <3>1, <3>2 DEF Phases
  <2>. QED  BY <2>2, <2>7 DEF Told16
<1>. QED  BY <1>2, <1>3, <1>4, <1>5 DEF NumbersInv, MessagesInv

-----------------------------------------------------------------------------
(* Steps that neither send nor handle messages.                              *)

LEMMA HeldWritten ==
    ASSUME NEW w, NEW p, NEW b, NEW st, NEW wi, Kept(w, p, b, st, <<>>, wi, TRUE), st # <<>>
    PROVE  w # <<>>
<1>1. /\ p \in Seq(Pieces) /\ st \in Seq(Pieces) /\ wi \in Seq(Pieces) /\ <<>> \in Seq(Pieces)
      /\ w = p \o (st \o (<<>> \o wi))
  BY DEF Kept
<1>2. <<>> \o wi \in Seq(Pieces) /\ st \o (<<>> \o wi) \in Seq(Pieces)
  BY <1>1, Cat
<1>3. st \o (<<>> \o wi) # <<>>
  BY <1>1, <1>2, HeadsKept
<1>. QED  BY <1>1, <1>2, <1>3, HeadsKept

\* On a stream with data something may be sent.
LEMMA Carries ==
    ASSUME SessionInv, NumbersInv, NEW e \in Ends, NEW s \in Streams, written[e][s] # <<>>
    PROVE  \E m \in Msgs : MayBeSent(e, s, m)
<1>1. written[e][s] \in Seq(Pieces)
  BY Along
<1>2. Paired(written[e][s])
  BY DEF NumbersInv, StreamInv
<1>3. Halving(written[e][s], Sent(e, s))
  BY <1>1, <1>2, PairedMessages DEF Sent
<1>4. Sent(e, s) \in Seq(Msgs) /\ 1 \in 1 .. Len(Sent(e, s))
  <2>1. Len(written[e][s]) # 0 /\ Len(written[e][s]) = 2 * Len(Sent(e, s)) /\ Len(Sent(e, s)) \in Nat
    BY <1>1, <1>3, EmptySeq DEF Halving
  <2>. QED  BY <1>3, <2>1 DEF Halving
<1>5. Sent(e, s)[1] \in Msgs /\ MayBeSent(e, s, Sent(e, s)[1])
  BY <1>4, ElementOfSeq DEF NumbersInv, MessagesInv, Sendable
<1>. QED  BY <1>5

\* No data arrives that would end the session before the control stream.
LEMMA NoStray ==
    ASSUME SessionInv, NumbersInv, NEW e \in Ends, NEW s \in Streams, written[e][s] # <<>>,
           s # DataStream(Peer(e)), s # RemoteControl(e)
    PROVE  version >= 17 /\ Bidirectional(s)
<1>1. PICK m \in Msgs : MayBeSent(e, s, m)
  BY Carries
<1>. QED  BY <1>1 DEF MayBeSent

LEMMA DataIsNot ==
    ASSUME NEW e \in Ends
    PROVE  ~Bidirectional(DataStream(e))
<1>1. DataStream(e)[2] # 0 /\ DataStream(e)[1] = e
  BY TheStreams DEF DataStream
<1>. QED  BY <1>1 DEF Bidirectional

LEMMA SteadyAlone ==
    ASSUME NEW e \in Ends, moq'[e] = moq[e], loop'[e] = loop[e] \/ loop'[e].pc # "accepted", parsed'[e] = parsed[e]
    PROVE  Steady(e)
BY DEF Steady, Numbers

\* Data is held back or parsed.
LEMMA IncomingNumbers ==
    ASSUME SessionInv, SessionInv', NumbersInv, NEW e \in Ends, NEW s \in Streams, NEW d \in Seq(Pieces), d # <<>>,
           NEW then \in {"idle", "replay"}, loop[e].pc = then, StreamIncoming(e, s, d, then),
           UNCHANGED <<version, verdict, pc, written>>,
           ~moq[e].control => s # DataStream(Peer(e)), written[e][s] # <<>>
    PROVE  NumbersInv'
<1>1. StreamInv' /\ Silent /\ ReadNone
  BY IncomingStreams DEF NumbersInv
<1>2. \/ HeldBack(e, s, d) \/ Dropped
      \/ Refused(e)
      \/ Taken(e, s, d) /\ moq[e].state # "none"
  BY Incoming
<1>3. moq[e].control \/ s = RemoteControl(e) \/ (version >= 17 /\ Bidirectional(s))
  BY NoStray
<1>4. version' = version /\ verdict' = verdict /\ pc' = pc
  OBVIOUS
<1>5. closed' = closed
  BY <1>3 DEF StreamIncoming
<1>6. ASSUME NEW f \in Ends PROVE Steady(f)
  <2>1. CASE HeldBack(e, s, d) \/ Dropped
    BY <2>1, SteadyAlone DEF HeldBack, Dropped
  <2>2. CASE Refused(e)
    BY <2>2, SteadyAlone DEF Refused
  <2>3. CASE Taken(e, s, d) /\ moq[e].state # "none"
    <3>1. CASE f = e
      BY <2>3, <3>1 DEF Taken, Steady
    <3>2. CASE f # e
      <4>1. f = Peer(e)
        BY <3>2, TheEnds
      <4>2. moq'[f] = moq[f] /\ loop'[f] = loop[f] /\ parsed'[f] = parsed[f]
        BY <2>3, <3>2, <4>1 DEF Taken, Changed
      <4>. QED  BY <4>2, SteadyAlone
    <3>. QED  BY <3>1, <3>2
  <2>. QED  BY <1>2, <2>1, <2>2, <2>3
<1>. QED  BY <1>1, <1>4, <1>5, <1>6, QuietNumbers

LEMMA DeliverNumbers ==
    ASSUME ~DataOvertakes, SessionInv, SessionInv', NumbersInv, NEW e \in Ends, Deliver(e)
    PROVE  NumbersInv'
<1>1. UNCHANGED <<version, verdict, stolen, pc, written>> /\ Running(e) /\ loop[e].pc = "idle"
  BY DEF Deliver
<1>2. PICK s \in Streams : /\ MayArrive(e, s)
                           /\ \E n \in 1 .. Len(wire[e][s]) : StreamIncoming(e, s, SubSeq(wire[e][s], 1, n), "idle")
  BY DEF Deliver
<1>3. PICK n \in 1 .. Len(wire[e][s]) : MayArrive(e, s) /\ StreamIncoming(e, s, SubSeq(wire[e][s], 1, n), "idle")
  BY <1>2
<1> DEFINE d == SubSeq(wire[e][s], 1, n)
<1>4. wire[e][s] \in Seq(Pieces)
  BY DEF SessionInv, SessionTypes, Tables
<1>5. d \in Seq(Pieces) /\ d # <<>> /\ wire[e][s] # <<>>
  <2>1. Len(wire[e][s]) \in Nat /\ Len(wire[e][s]) # 0
    BY <1>4, LenProperties
  <2>2. d \in Seq(Pieces) /\ Len(d) = n
    BY <1>4, Pieced
  <2>3. Len(d) # 0
    BY <2>1, <2>2
  <2>. QED  BY <1>4, <2>1, <2>2, <2>3, EmptySeq
<1>6. written[e][s] # <<>>
  <2>1. Kept(written[e][s], parsed[e][s], buffer[e][s], stolen[e][s], pending[e][s], wire[e][s], TRUE)
    <3>1. Running(e) = TRUE
      BY <1>1 DEF Running
    <3>. QED  BY <3>1 DEF SessionInv, EndInv, Flow
  <2>. QED  BY <1>5, <2>1, WireWritten
<1>7. ~moq[e].control => s # DataStream(Peer(e))
  BY <1>3 DEF MayArrive
<1>8. StreamIncoming(e, s, d, "idle")
  BY <1>3
<1> HIDE DEF d
<1>. QED  BY <1>1, <1>5, <1>6, <1>7, <1>8, IncomingNumbers

LEMMA ReplayNumbers ==
    ASSUME SessionInv, SessionInv', NumbersInv, NEW e \in Ends, Replay(e)
    PROVE  NumbersInv'
<1>1. UNCHANGED <<version, verdict, pc, wire, written>> /\ Running(e) /\ loop[e].pc = "replay"
  BY DEF Replay
<1>2. PICK s \in Streams : stolen[e][s] # <<>> /\ StreamIncoming(e, s, stolen[e][s], "replay")
  BY DEF Replay
<1> DEFINE d == stolen[e][s]
<1>3. d \in Seq(Pieces) /\ d # <<>>
  BY <1>2 DEF SessionInv, SessionTypes, Tables
<1>4. Held(e)
  BY <1>1 DEF SessionInv, EndInv
<1>5. written[e][s] # <<>>
  <2>1. Running(e) = TRUE
    BY <1>1 DEF Running
  <2>2. Kept(written[e][s], parsed[e][s], buffer[e][s], d, <<>>, wire[e][s], TRUE)
    <3>1. Kept(written[e][s], parsed[e][s], buffer[e][s], d, pending[e][s], wire[e][s], TRUE)
      BY <2>1 DEF SessionInv, EndInv, Flow
    <3>2. pending[e][s] = <<>>
      BY <1>2, <1>4 DEF Held
    <3>. QED  BY <3>1, <3>2
  <2>. QED  BY <1>3, <2>2, HeldWritten
<1>6. s # DataStream(Peer(e))
  <2>1. Bidirectional(s)
    BY <1>2, <1>4 DEF Held
  <2>2. Peer(e) \in Ends
    BY TheEnds
  <2>. QED  BY <2>1, <2>2, DataIsNot
<1>7. StreamIncoming(e, s, d, "replay")
  BY <1>2
<1> HIDE DEF d
<1>. QED  BY <1>1, <1>3, <1>5, <1>6, <1>7, IncomingNumbers

\* The loop thread goes on.
LEMMA LoopNumbers ==
    ASSUME SessionInv, NumbersInv, UNCHANGED <<version, verdict, pc, closed, written, parsed, buffer>>, Works,
           \A e \in Ends : Steady(e)
    PROVE  NumbersInv'
<1>1. version' = version /\ verdict' = verdict /\ pc' = pc /\ closed' = closed
      /\ UNCHANGED <<written, parsed, buffer>> /\ StreamInv
  BY DEF NumbersInv
<1>2. StreamInv' /\ Silent /\ ReadNone
  BY <1>1, QuietStreams
<1>. QED  BY <1>1, <1>2, QuietNumbers

\* The loop thread of an end is done with the messages in its buffers.
LEMMA WorksWhen ==
    ASSUME SessionInv, NumbersInv, NEW e \in Ends,
           loop[e].pc \in {"parsing", "accepted"} =>
              \/ ~(Len(buffer[e][loop[e].stream]) >= 2)
              \/ loop'[e].pc \in {"parsing", "accepted"} /\ loop'[e].stream = loop[e].stream,
           loop'[Peer(e)] = loop[Peer(e)]
    PROVE  Works
<1> SUFFICES ASSUME NEW f \in Ends, NEW s \in Streams, Len(buffer[f][s]) >= 2
             PROVE  loop'[f].pc \in {"parsing", "accepted"} /\ loop'[f].stream = s
  BY DEF Works
<1>1. loop[f].pc \in {"parsing", "accepted"} /\ loop[f].stream = s
  BY DEF NumbersInv, StreamInv
<1>2. f = e \/ loop'[f] = loop[f]
  BY TheEnds
<1>. QED  BY <1>1, <1>2

LEMMA ReplayDoneNumbers ==
    ASSUME SessionInv, NumbersInv, NEW e \in Ends, ReplayDone(e)
    PROVE  NumbersInv'
<1>1. /\ UNCHANGED <<version, verdict, pc, closed, written, parsed, buffer>> /\ moq' = moq
      /\ loop[e].pc = "replay" /\ loop' = [loop EXCEPT ![e] = Idle] /\ loop \in [Ends -> [pc : Stages, stream : Streams]]
  BY DEF ReplayDone, SessionInv, SessionTypes
<1>2. loop'[e].pc = "idle" /\ \A f \in Ends : f # e => loop'[f] = loop[f]
  BY <1>1 DEF Idle
<1>3. Works
  BY <1>1, <1>2, TheEnds, WorksWhen
<1>4. \A f \in Ends : Steady(f)
  BY <1>1, <1>2, SteadyAlone
<1>. QED  BY <1>1, <1>3, <1>4, LoopNumbers

LEMMA ConnectedNumbers ==
    ASSUME SessionInv, NumbersInv, NEW e \in Ends, Connected(e)
    PROVE  NumbersInv'
<1>1. /\ UNCHANGED <<version, verdict, pc, closed, written, parsed, buffer>>
      /\ loop[e].pc = "accepted" /\ loop' = [loop EXCEPT ![e].pc = "parsing"]
      /\ moq' = [moq EXCEPT ![e].connected = TRUE]
      /\ loop \in [Ends -> [pc : Stages, stream : Streams]] /\ moq \in [Ends -> Context]
  BY DEF Connected, SessionInv, SessionTypes
<1>2. loop'[e].pc = "parsing" /\ loop'[e].stream = loop[e].stream /\ \A f \in Ends : f # e => loop'[f] = loop[f] /\ moq'[f] = moq[f]
  BY <1>1
<1>3. Works
  BY <1>1, <1>2, TheEnds, WorksWhen
<1>4. Numbers(e)' = Numbers(e) /\ moq'[e].state = moq[e].state /\ moq'[e].connected = TRUE
  BY <1>1 DEF Numbers, Context
<1>5. Steady(e)
  BY <1>1, <1>2, <1>4 DEF Steady
<1>6. \A f \in Ends : f # e => Steady(f)
  BY <1>1, <1>2, SteadyAlone
<1>. QED  BY <1>1, <1>3, <1>5, <1>6, LoopNumbers

LEMMA ParseDoneNumbers ==
    ASSUME SessionInv, NumbersInv, NEW e \in Ends, ParseDone(e)
    PROVE  NumbersInv'
<1>1. /\ UNCHANGED <<version, verdict, pc, closed, written, parsed, buffer>>
      /\ ~(Len(buffer[e][loop[e].stream]) >= 2) /\ loop' = [loop EXCEPT ![e].pc = "replay"]
      /\ moq' = [moq EXCEPT ![e].check = FALSE] \/ moq' = moq
      /\ loop \in [Ends -> [pc : Stages, stream : Streams]] /\ moq \in [Ends -> Context]
  BY DEF ParseDone, Complete, SessionInv, SessionTypes
<1>2. loop'[e].pc = "replay" /\ \A f \in Ends : f # e => loop'[f] = loop[f] /\ moq'[f] = moq[f]
  BY <1>1
<1>3. Works
  BY <1>1, <1>2, TheEnds, WorksWhen
<1>4. Numbers(e)' = Numbers(e) /\ moq'[e].state = moq[e].state /\ moq'[e].connected = moq[e].connected
  BY <1>1 DEF Numbers, Context
<1>5. Steady(e)
  BY <1>1, <1>2, <1>4 DEF Steady
<1>6. \A f \in Ends : f # e => Steady(f)
  BY <1>1, <1>2, SteadyAlone
<1>. QED  BY <1>1, <1>3, <1>5, <1>6, LoopNumbers

LEMMA ConnectionGoneNumbers ==
    ASSUME SessionInv, NumbersInv, NEW e \in Ends, ConnectionGone(e)
    PROVE  NumbersInv'
<1>1. /\ UNCHANGED <<version, verdict, pc, closed, written, parsed, buffer>> /\ loop' = loop
      /\ moq' = [moq EXCEPT ![e].state = "gone"] /\ moq \in [Ends -> Context]
  BY DEF ConnectionGone, SessionInv, SessionTypes
<1>2. \A f \in Ends : f # e => moq'[f] = moq[f]
  BY <1>1
<1>3. Works
  BY <1>1 DEF Works, NumbersInv, StreamInv
<1>4. Numbers(e)' = Numbers(e) /\ moq'[e].state = "gone" /\ moq'[e].connected = moq[e].connected
  BY <1>1 DEF Numbers, Context
<1>5. Steady(e)
  BY <1>1, <1>4 DEF Steady
<1>6. \A f \in Ends : f # e => Steady(f)
  BY <1>1, <1>2, SteadyAlone
<1>. QED  BY <1>1, <1>3, <1>5, <1>6, LoopNumbers

LEMMA StutterNumbers == ASSUME SessionInv, NumbersInv, UNCHANGED vars PROVE NumbersInv'
<1>1. UNCHANGED <<version, verdict, pc, closed, written, parsed, buffer>> /\ loop' = loop /\ moq' = moq
  BY DEF vars
<1>2. Works
  BY <1>1 DEF Works, NumbersInv, StreamInv
<1>3. \A f \in Ends : Steady(f)
  BY <1>1, SteadyAlone
<1>. QED  BY <1>1, <1>2, <1>3, LoopNumbers

-----------------------------------------------------------------------------
(* The context is created.                                                   *)

\* Before new_connection nothing was read, and on version 16 nothing sent.
LEMMA NothingYet ==
    ASSUME SessionInv, NumbersInv, NEW e \in Ends, moq[e].state = "none"
    PROVE  /\ \A s \in Streams : Read(e, s) = 0
           /\ version = 16 => Sent(Peer(e), Control(e)) = <<>>
<1>1. Unborn(e)
  BY DEF NumbersInv, MessagesInv
<1>2. ASSUME NEW s \in Streams PROVE Read(e, s) = 0
  <2>1. parsed[e][s] = <<>>
    BY <1>1 DEF Unborn
  <2>2. InBuffer(written[e][s], parsed[e][s], buffer[e][s]) /\ buffer[e][s] \in Seq(Pieces)
    BY Along DEF NumbersInv, StreamInv
  <2>3. PICK n \in Nat : Len(parsed[e][s]) = 2 * n + Len(buffer[e][s])
    BY <2>2 DEF InBuffer
  <2>4. Len(parsed[e][s]) = 0 /\ Len(buffer[e][s]) \in Nat
    BY <2>1, <2>2, LenProperties
  <2>5. Len(buffer[e][s]) = 0
    <3> DEFINE a == Len(parsed[e][s])
               b == Len(buffer[e][s])
    <3>1. a = 2 * n + b /\ a = 0 /\ b \in Nat
      BY <2>3, <2>4
    <3> HIDE DEF a, b
    <3>2. b = 0
      BY <3>1
    <3>. QED  BY <3>2 DEF b
  <2>. QED  BY <2>4, <2>5 DEF Read, ReadOf
<1>3. ASSUME version = 16 PROVE Sent(Peer(e), Control(e)) = <<>>
  <2>1. Phases
    BY <1>3 DEF NumbersInv, Told16
  <2>2. Control("server") \in Streams /\ "server" \in Ends
    BY TheControls DEF Ends
  <2>3. CASE e = "client"
    BY <2>1, <2>3 DEF Phases, Started
  <2>4. CASE e = "server"
    BY <1>2, <2>1, <2>2, <2>4 DEF Phases, Started
  <2>. QED  BY <2>3, <2>4 DEF Ends
<1>. QED  BY <1>2, <1>3

LEMMA FirstIds ==
    ASSUME NEW e \in Ends
    PROVE  FirstId(e) \in Nat /\ Parity(e, FirstId(e)) /\ \A n \in Nat : Parity(e, n) => Parity(e, n + 2)
<1>1. FirstId(e) \in Nat /\ Parity(e, FirstId(e))
  BY DEF FirstId, Parity
<1>2. \A n \in Nat : (n + 2) % 2 = n % 2
  OBVIOUS
<1>. QED  BY <1>1, <1>2 DEF Parity

LEMMA CreateContextNumbers ==
    ASSUME Asking, SessionInv, NumbersInv, NEW e \in Ends, CreateContext(e)
    PROVE  NumbersInv'
<1> DEFINE f == Peer(e)
           q == Sent(f, Control(e))
<1>1. /\ UNCHANGED <<version, verdict, pc, closed, written, parsed, buffer>> /\ moq[e].state = "none"
      /\ loop' = [loop EXCEPT ![e] = Loop("opening", Control(e))] /\ moq \in [Ends -> Context]
      /\ loop \in [Ends -> [pc : Stages, stream : Streams]]
  BY DEF CreateContext, SessionInv, SessionTypes
<1>2. PICK limit \in IF version = 16 THEN Limits ELSE {0} :
         moq' = [moq EXCEPT ![e].state = "new", ![e].next = IF e = "server" THEN 1 ELSE 0,
                   ![e].expected = IF e = "server" THEN 0 ELSE 1, ![e].control = HasControl(e),
                   ![e].sent = (version >= 17), ![e].local = limit]
  BY DEF CreateContext
<1>3. limit \in Nat /\ (version = 16 => limit > 0)
  <2>1. Limits \subseteq Nat /\ 0 \notin Limits
    BY SessionAssumption DEF Asking
  <2>. QED  BY <2>1
<1>4. f \in Ends /\ f # e /\ Peer(f) = e
  BY TheEnds
<1>5. /\ moq'[e].state = "new" /\ moq'[e].next = FirstId(e) /\ moq'[e].expected = FirstId(f) /\ moq'[e].local = limit
      /\ moq'[e].max = moq[e].max /\ moq'[e].goaway = moq[e].goaway /\ moq'[e].connected = moq[e].connected
      /\ moq'[f] = moq[f]
  <2>1. /\ moq'[e].state = "new" /\ moq'[e].next = (IF e = "server" THEN 1 ELSE 0)
        /\ moq'[e].expected = (IF e = "server" THEN 0 ELSE 1) /\ moq'[e].local = limit
        /\ moq'[e].max = moq[e].max /\ moq'[e].goaway = moq[e].goaway /\ moq'[e].connected = moq[e].connected
        /\ moq'[f] = moq[f]
    BY <1>1, <1>2, <1>4 DEF Context
  <2>. QED  BY <1>4, <2>1 DEF FirstId, Peer, Ends
<1>6. loop'[e].pc = "opening" /\ loop'[f] = loop[f]
  BY <1>1, <1>4 DEF Loop
<1>7. Unborn(e) /\ Stage(e)
  BY DEF NumbersInv, MessagesInv, SessionInv, EndInv
<1>8. moq[e].max = 0 /\ moq[e].local = 0 /\ ~moq[e].connected /\ \A t \in Threads : pc[e][t].pc = "idle"
  BY <1>1, <1>7 DEF Unborn
<1>9. StreamInv' /\ Silent /\ ReadNone
  <2>1. loop[e].pc = "idle"
    BY <1>1, <1>7 DEF Stage
  <2>2. Works
    BY <1>6, <2>1, WorksWhen
  <2>3. UNCHANGED <<written, parsed, buffer>> /\ StreamInv
    BY <1>1 DEF NumbersInv
  <2>. QED  BY <2>2, <2>3, QuietStreams
<1>10. ASSUME NEW x \in Ends
       PROVE  /\ RemoteControl(x)' = RemoteControl(x) /\ Control(x)' = Control(x)
              /\ Sent(x, RemoteControl(x))' = Sent(x, RemoteControl(x))
              /\ Read(x, RemoteControl(x))' = Read(x, RemoteControl(x))
              /\ \A k : Values(x, k)' = Values(x, k)
  <2>1. version' = version /\ pc' = pc /\ UNCHANGED <<written, parsed, buffer>>
    BY <1>1
  <2>2. RemoteControl(x)' = RemoteControl(x) /\ Control(x)' = Control(x)
    BY <2>1, SameVersion
  <2>. QED  BY <2>1, <2>2 DEF Sent, Read, Values
<1>11. NoRefusal' /\ Sendable'
  <2>1. version' = version /\ UNCHANGED <<closed, verdict>>
    BY <1>1
  <2>2. Sendable'
    BY <1>9, <2>1, SendableSilent
  <2>. QED  BY <2>1, <2>2 DEF NumbersInv, MessagesInv, NoRefusal
<1>12. ASSUME NEW x \in Ends PROVE Goaways(x)' /\ Unborn(x)' /\ OwnIds(x)'
  <2>1. Goaways(x) /\ Unborn(x) /\ OwnIds(x) /\ (x = e \/ x = f)
    BY TheEnds DEF NumbersInv, MessagesInv
  <2>2. Goaways(x)'
    BY <1>1, <1>5, <1>10, <2>1, GoawaysSame
  <2>3. Unborn(x)'
    BY <1>1, <1>5, <2>1 DEF Unborn
  <2>4. OwnIds(x)'
    <3>1. CASE x = e
      BY <1>5, <1>10, <2>1, <3>1, FirstIds DEF OwnIds
    <3>2. CASE x = f
      BY <1>5, <1>10, <2>1, <3>2 DEF OwnIds, Live
    <3>. QED  BY <2>1, <3>1, <3>2
  <2>. QED  BY <2>2, <2>3, <2>4
<1>13. ASSUME version = 16 PROVE Told16'
  <2>1. Phases /\ Limits16(e) /\ Limits16(f) /\ Ids16(e) /\ Ids16(f)
    BY <1>4, <1>13 DEF NumbersInv, Told16
  <2>2. /\ RemoteControl(f) = Control(e) /\ RemoteControl(e) = Control(e) /\ Control(f) = Control(e)
        /\ RemoteControl(e) \in Streams /\ RemoteControl(f) \in Streams
    BY <1>4, <1>13, TheControls
  <2>3. Sent(f, RemoteControl(f)) = <<>> /\ Read(e, RemoteControl(e)) = 0
    BY <1>1, <1>13, <2>2, NothingYet
  <2>4. Values(e, "has_id") = {} /\ Values(e, "reserved") = {} /\ Values(e, "raised") = {}
    BY <1>8 DEF Values
  <2>5. Sent(e, RemoteControl(e)) \in Seq(Msgs) /\ Sent(f, RemoteControl(f)) \in Seq(Msgs)
    BY <1>4, <2>2, SentTypes DEF NumbersInv
  <2>6. Limits16(e)'
    BY <1>1, <1>4, <1>5, <1>10, <2>1, LimitsSame
  <2>7. Limits16(f)'
    <3> DEFINE r == Sent(f, RemoteControl(f))
               n == Read(f, RemoteControl(f))
    <3>1. r = <<>> /\ Len(r) = 0 /\ Of(r, LimitTypes) = {}
      BY <2>3 DEF Of
    <3>2. Chain(r, n, moq[f].max, moq[e].local)
      BY <1>4, <2>1 DEF Limits16
    <3>3. Chain(r, n, moq[f].max, limit)
      BY <1>3, <1>8, <2>5, <3>2, ChainRaised
    <3> HIDE DEF r, n
    <3>4. Announces(r, limit, {}, moq'[e].connected, SetupOf(e))
      BY <3>1 DEF Announces
    <3>5. r' = r /\ n' = n
      BY <1>4, <1>10 DEF r, n
    <3>6. Values(e, "raised")' = {}
      BY <1>10, <2>4
    <3>. QED  BY <1>4, <1>5, <3>3, <3>4, <3>5, <3>6 DEF Limits16, r, n
  <2>8. Ids16(e)'
    <3> DEFINE r == Sent(e, RemoteControl(e))
               n == Read(e, RemoteControl(e))
    <3>1. /\ InRow(r, FirstId(f), moq[e].local)
          /\ Issues(r, FirstId(f), moq[f].next, moq[e].local, Values(f, "has_id"), Values(f, "reserved"), Live(f))
      BY <2>1 DEF Ids16
    <3>2. Values(f, "reserved") \in SUBSET Nat
      BY <1>4 DEF SessionInv, SessionTypes, Values
    <3>3. /\ InRow(r, FirstId(f), limit)
          /\ Issues(r, FirstId(f), moq[f].next, limit, Values(f, "has_id"), Values(f, "reserved"), Live(f))
      <4>1. 0 <= limit /\ moq[e].local = 0
        BY <1>3, <1>8
      <4>. QED  BY <1>3, <2>5, <3>1, <3>2, <4>1, RowLimit
    <3> HIDE DEF r, n
    <3>4. Expects(r, 0, FirstId(f), FirstId(f))
      <4>1. \A i \in Of(r, {"REQUEST"}) : i \in Nat /\ ~(i <= 0) /\ FirstId(f) <= r[i].value
        BY <2>5, <3>3, OfTypes DEF InRow, r, Of
      <4>. QED  BY <4>1 DEF Expects, NextId
    <3>5. r' = r /\ n' = n /\ n = 0
      BY <1>10, <2>3 DEF r, n
    <3>6. /\ Values(f, "has_id")' = Values(f, "has_id") /\ Values(f, "reserved")' = Values(f, "reserved")
          /\ Live(f)' = Live(f)
      BY <1>4, <1>5, <1>10 DEF Live
    <3>. QED  BY <1>4, <1>5, <3>3, <3>4, <3>5, <3>6 DEF Ids16, r, n, FirstId
  <2>9. Ids16(f)'
    <3> DEFINE r == Sent(f, RemoteControl(f))
               n == Read(f, RemoteControl(f))
    <3>1. r = <<>> /\ Len(r) = 0 /\ Of(r, {"REQUEST"}) = {}
      BY <2>3 DEF Of
    <3>2. InRow(r, FirstId(e), moq[f].local) /\ (Live(f) => Expects(r, n, FirstId(e), moq[f].expected))
      BY <1>4, <2>1 DEF Ids16
    <3> HIDE DEF r, n
    <3>3. Issues(r, FirstId(e), moq'[e].next, moq[f].local, {}, {}, Live(e)')
      BY <1>5, <3>1 DEF Issues, NextId
    <3>4. r' = r /\ n' = n
      BY <1>4, <1>10 DEF r, n
    <3>5. Values(e, "has_id")' = {} /\ Values(e, "reserved")' = {} /\ Live(f)' = Live(f)
      BY <1>5, <1>10, <2>4 DEF Live
    <3>. QED  BY <1>4, <1>5, <3>2, <3>3, <3>4, <3>5 DEF Ids16, r, n, FirstId
  <2>10. \A x \in Ends : Started(x)' = Started(x)
    BY <1>1, <1>10 DEF Started, Sent
  <2>11. Phases'
    <3>1. Started("client")' = Started("client") /\ Started("server")' = Started("server")
      BY <2>10 DEF Ends
    <3>2. ASSUME NEW x \in Ends
          PROVE  /\ loop'[x].pc = "accepted" \/ moq'[x].connected \/ (moq'[x].max > 0 /\ closed'[x] = "open") => Started(x)'
                 /\ Live(x)' => moq'[x].local > 0
      <4>1. CASE x = e
        BY <1>3, <1>5, <1>6, <1>8, <1>13, <4>1
      <4>2. CASE x = f
        BY <1>1, <1>5, <1>6, <2>1, <2>10, <4>2 DEF Phases, Live
      <4>. QED  BY <4>1, <4>2, TheEnds
    <3>3. Read("server", Control("server"))' = Read("server", Control("server"))
      <4>1. "server" \in Ends /\ version' = version
        BY <1>1 DEF Ends
      <4>2. Control("server")' = Control("server") /\ Control("server") \in Streams
        BY <4>1, TheControls, SameVersion
      <4>. QED  BY <1>1, <4>2 DEF Read
    <3>4. ~Started(e)
      BY <2>2, <2>3 DEF Started
    <3>5. moq'["client"].state = "up" => Started("client")'
      BY <1>4, <1>5, <2>1, <3>1, TheEnds DEF Phases, Ends
    <3>6. Started("client")' => moq'["client"].state \in {"up", "gone"}
      BY <1>4, <1>5, <2>1, <3>1, <3>4, TheEnds DEF Phases, Ends
    <3>7. Started("server")' => Read("server", Control("server"))' > 0
      BY <2>1, <3>1, <3>3 DEF Phases
    <3>. QED  BY <3>2, <3>5, <3>6, <3>7 DEF Phases
  <2>12. \A x \in Ends : Limits16(x)' /\ Ids16(x)'
    BY <2>6, <2>7, <2>8, <2>9, TheEnds
  <2>. QED  BY <2>11, <2>12 DEF Told16
<1>14. version' = version
  BY <1>1
<1>. QED  BY <1>9, <1>11, <1>12, <1>13, <1>14 DEF NumbersInv, MessagesInv

-----------------------------------------------------------------------------
(* Calls that send nothing.                                                  *)

\* What the threads hold when one of them goes on.
LEMMA ThreadValues ==
    ASSUME SessionInv, NEW e \in Ends, NEW t \in Threads,
           NEW what \in {"idle", "has_id", "reserved", "raised"}, NEW value \in Nat, Goes(e, t, what, value)
    PROVE  /\ \A k : Values(Peer(e), k)' = Values(Peer(e), k)
           /\ \A k : Values(e, k)' \subseteq Values(e, k) \cup {value}
           /\ \A k : k # what => Values(e, k)' \subseteq Values(e, k)
<1>1. pc'[Peer(e)] = pc[Peer(e)] /\ \A u \in Threads : u # t => pc'[e][u] = pc[e][u]
  BY ThreadGoes
<1>2. pc'[e][t] = [pc |-> what, value |-> value]
  BY DEF Goes, SessionInv, SessionTypes
<1>3. \A k : Values(Peer(e), k)' = Values(Peer(e), k)
  BY <1>1 DEF Values
<1>4. ASSUME NEW k, NEW v \in Values(e, k)' PROVE v \in Values(e, k) \/ (k = what /\ v = value)
  <2>1. PICK u \in Threads : pc'[e][u].pc = k /\ pc'[e][u].value = v
    BY DEF Values
  <2>2. CASE u = t
    BY <1>2, <2>1, <2>2
  <2>3. CASE u # t
    BY <1>1, <2>1, <2>3 DEF Values
  <2>. QED  BY <2>2, <2>3
<1>. QED  BY <1>3, <1>4

LEMMA OneThread == ASSUME Asking, SessionInv, version = 16, NEW t \in Threads PROVE \A u \in Threads : u = t
BY DEF Asking, SessionInv, SessionTypes

\* The only thread of the end.
LEMMA AloneValues ==
    ASSUME Asking, SessionInv, version = 16, NEW e \in Ends, NEW t \in Threads
    PROVE  /\ Values(e, pc[e][t].pc) = {pc[e][t].value}
           /\ \A k : k # pc[e][t].pc => Values(e, k) = {}
<1>1. \A u \in Threads : u = t
  BY OneThread
<1>. QED  BY <1>1 DEF Values

LEMMA AloneGoes ==
    ASSUME Asking, SessionInv, version = 16, NEW e \in Ends, NEW t \in Threads,
           NEW what \in {"idle", "has_id", "reserved", "raised"}, NEW value \in Nat, Goes(e, t, what, value)
    PROVE  Values(e, what)' = {value} /\ \A k : k # what => Values(e, k)' = {}
<1>1. \A u \in Threads : u = t
  BY OneThread
<1>2. pc'[e][t] = [pc |-> what, value |-> value]
  BY DEF Goes, SessionInv, SessionTypes
<1>. QED  BY <1>1, <1>2 DEF Values

\* A call of the thread of end e that leaves the streams alone.
LEMMA CallMessages ==
    ASSUME SessionInv, NumbersInv, NEW e \in Ends,
           UNCHANGED <<version, verdict, closed, loop, written, parsed, buffer>>,
           moq'[Peer(e)] = moq[Peer(e)], pc'[Peer(e)] = pc[Peer(e)], moq'[e].goaway = moq[e].goaway,
           moq[e].state # "none", moq'[e].state = moq[e].state, OwnIds(e)'
    PROVE  /\ StreamInv' /\ MessagesInv'
           /\ \A x \in Ends : /\ RemoteControl(x)' = RemoteControl(x)
                              /\ Sent(x, RemoteControl(x))' = Sent(x, RemoteControl(x))
                              /\ Read(x, RemoteControl(x))' = Read(x, RemoteControl(x))
                              /\ Live(x)' = Live(x) /\ Started(x)' = Started(x)
           /\ Read("server", Control("server"))' = Read("server", Control("server"))
<1> DEFINE f == Peer(e)
<1>1. f \in Ends /\ f # e /\ Peer(f) = e
  BY TheEnds
<1>2. version' = version /\ UNCHANGED <<written, parsed, buffer>> /\ StreamInv
  BY DEF NumbersInv
<1>3. StreamInv' /\ Silent /\ ReadNone
  <2>1. Works
    BY DEF Works, NumbersInv, StreamInv
  <2>. QED  BY <1>2, <2>1, QuietStreams
<1>4. ASSUME NEW x \in Ends
      PROVE  /\ RemoteControl(x)' = RemoteControl(x) /\ Control(x)' = Control(x)
             /\ Sent(x, RemoteControl(x))' = Sent(x, RemoteControl(x))
             /\ Read(x, RemoteControl(x))' = Read(x, RemoteControl(x))
             /\ Live(x)' = Live(x) /\ Started(x)' = Started(x)
  <2>1. RemoteControl(x)' = RemoteControl(x) /\ Control(x)' = Control(x)
    BY <1>2, SameVersion
  <2>2. x = e \/ x = f
    BY TheEnds
  <2>. QED  BY <1>2, <2>1, <2>2 DEF Sent, Read, Live, Started
<1>5. Sendable' /\ NoRefusal'
  BY <1>2, <1>3, SendableSilent DEF NumbersInv, MessagesInv, NoRefusal
<1>6. ASSUME NEW x \in Ends PROVE Goaways(x)' /\ Unborn(x)' /\ OwnIds(x)'
  <2>1. Goaways(x) /\ Unborn(x) /\ OwnIds(x) /\ (x = e \/ x = f)
    BY TheEnds DEF NumbersInv, MessagesInv
  <2>2. Goaways(x)'
    BY <1>2, <1>4, <2>1, GoawaysSame
  <2>3. Unborn(x)'
    BY <1>2, <2>1 DEF Unborn
  <2>4. OwnIds(x)'
    <3>1. CASE x = f
      BY <1>4, <2>1, <3>1 DEF OwnIds, Values
    <3>. QED  BY <2>1, <3>1
  <2>. QED  BY <2>2, <2>3, <2>4
<1>7. Read("server", Control("server"))' = Read("server", Control("server"))
  <2>1. Control("server")' = Control("server")
    BY <1>4 DEF Ends
  <2>. QED  BY <1>2, <2>1 DEF Read
<1>. QED  BY <1>3, <1>4, <1>5, <1>6, <1>7 DEF MessagesInv

\* The phases of a session that goes on as it was.
LEMMA PhasesSame ==
    ASSUME SessionInv, Phases, NEW e \in Ends,
           \A x \in Ends : Started(x)' = Started(x) /\ Live(x)' = Live(x),
           Read("server", Control("server"))' = Read("server", Control("server")),
           UNCHANGED <<loop, closed>>, moq'[Peer(e)] = moq[Peer(e)], moq'[e].state = moq[e].state,
           moq'[e].max = moq[e].max, moq'[e].connected = moq[e].connected, moq'[e].local > 0 \/ moq'[e].local = moq[e].local
    PROVE  Phases'
<1>1. Started("client")' = Started("client") /\ Started("server")' = Started("server")
  BY DEF Ends
<1>2. moq'["client"].state = moq["client"].state
  BY TheEnds DEF Ends
<1>3. ASSUME NEW x \in Ends
      PROVE  /\ loop'[x].pc = "accepted" \/ moq'[x].connected \/ (moq'[x].max > 0 /\ closed'[x] = "open") => Started(x)'
             /\ Live(x)' => moq'[x].local > 0
  <2>1. /\ loop[x].pc = "accepted" \/ moq[x].connected \/ (moq[x].max > 0 /\ closed[x] = "open") => Started(x)
        /\ Live(x) => moq[x].local > 0
    BY DEF Phases
  <2>2. CASE x = e
    <3>. QED  BY <2>1, <2>2
  <2>3. CASE x = Peer(e)
    BY <2>1, <2>3
  <2>. QED  BY <2>2, <2>3, TheEnds
<1>4. moq'["client"].state = "up" => Started("client")'
  BY <1>1, <1>2 DEF Phases
<1>5. Started("client")' => moq'["client"].state \in {"up", "gone"}
  BY <1>1, <1>2 DEF Phases
<1>6. Started("server")' => Read("server", Control("server"))' > 0
  BY <1>1 DEF Phases
<1>. QED  BY <1>3, <1>4, <1>5, <1>6 DEF Phases

\* What the other end is sent is judged by the IDs the threads hold.
LEMMA IdsOther ==
    ASSUME NEW e \in Ends, NEW f, f = Peer(e), Ids16(f), f \in Ends, Peer(f) = e, version' = version,
           Sent(f, RemoteControl(f))' = Sent(f, RemoteControl(f)), Read(f, RemoteControl(f))' = Read(f, RemoteControl(f)),
           moq'[f] = moq[f], Live(f)' = Live(f),
           Issues(Sent(f, RemoteControl(f)), FirstId(e), moq'[e].next, moq[f].local,
                  Values(e, "has_id")', Values(e, "reserved")', Live(e)')
    PROVE  Ids16(f)'
<1> DEFINE q == Sent(f, RemoteControl(f))
           n == Read(f, RemoteControl(f))
<1>1. /\ InRow(q, FirstId(e), moq[f].local) /\ (Live(f) => Expects(q, n, FirstId(e), moq[f].expected))
  BY DEF Ids16
<1>2. Issues(q, FirstId(e), moq'[e].next, moq[f].local, Values(e, "has_id")', Values(e, "reserved")', Live(e)')
  OBVIOUS
<1>3. q' = q /\ n' = n
  OBVIOUS
<1> HIDE DEF q, n
<1>. QED  BY <1>1, <1>2, <1>3 DEF Ids16, q, n, FirstId

LEMMA GetNextRequestIdNumbers ==
    ASSUME Asking, SessionInv, NumbersInv, NEW e \in Ends, NEW t \in Threads, GetNextRequestId(e, t)
    PROVE  NumbersInv'
<1> DEFINE f == Peer(e)
           next == moq[e].next
<1>1. /\ UNCHANGED <<version, verdict, closed, loop, written, parsed, buffer>> /\ moq' = moq
      /\ Goes(e, t, "has_id", next) /\ pc[e][t].pc = "idle" /\ Live(e)
  BY DEF GetNextRequestId, Free, Live
<1>2. f \in Ends /\ f # e /\ Peer(f) = e /\ next \in Nat
  BY TheEnds DEF SessionInv, SessionTypes, Context
<1>3. pc'[f] = pc[f]
  BY <1>1, <1>2, ThreadGoes
<1>4. OwnIds(e) /\ OwnIds(e)'
  <2>1. OwnIds(e)
    BY DEF NumbersInv, MessagesInv
  <2>2. /\ Values(e, "has_id")' \subseteq Values(e, "has_id") \cup {next}
        /\ Values(e, "reserved")' \subseteq Values(e, "reserved")
    BY <1>1, <1>2, ThreadValues
  <2>. QED  BY <1>1, <2>1, <2>2 DEF OwnIds
<1>5. /\ StreamInv' /\ MessagesInv'
      /\ \A x \in Ends : /\ RemoteControl(x)' = RemoteControl(x)
                         /\ Sent(x, RemoteControl(x))' = Sent(x, RemoteControl(x))
                         /\ Read(x, RemoteControl(x))' = Read(x, RemoteControl(x))
                         /\ Live(x)' = Live(x) /\ Started(x)' = Started(x)
      /\ Read("server", Control("server"))' = Read("server", Control("server"))
  <2>1. moq[e].state # "none"
    BY <1>1 DEF Live
  <2>. QED  BY <1>1, <1>3, <1>4, <2>1, CallMessages
<1>6. ASSUME version = 16 PROVE Told16'
  <2>1. Phases /\ Limits16(e) /\ Limits16(f) /\ Ids16(e) /\ Ids16(f)
    BY <1>2, <1>6 DEF NumbersInv, Told16
  <2>2. Values(e, "has_id") = {} /\ Values(e, "reserved") = {} /\ Values(e, "raised") = {}
    BY <1>1, <1>6, AloneValues
  <2>3. Values(e, "has_id")' = {next} /\ Values(e, "reserved")' = {} /\ Values(e, "raised")' = {}
    BY <1>1, <1>2, <1>6, AloneGoes
  <2>4. \A k : Values(f, k)' = Values(f, k)
    BY <1>1, <1>2, ThreadValues
  <2>5. Phases'
    BY <1>1, <1>5, <2>1, PhasesSame
  <2>6. Limits16(e)' /\ Limits16(f)'
    BY <1>1, <1>2, <1>5, <2>1, <2>2, <2>3, <2>4, LimitsSame
  <2>7. Ids16(e)'
    BY <1>1, <1>2, <1>5, <2>1, <2>4, IdsSame
  <2>8. Ids16(f)'
    <3>1. Issues(Sent(f, RemoteControl(f)), FirstId(e), next, moq[f].local, {next}, {}, Live(e))
      BY <1>2, <2>1, <2>2 DEF Ids16, Issues
    <3>. QED  BY <1>1, <1>2, <1>5, <2>1, <2>3, <3>1, IdsOther
  <2>. QED  BY <2>5, <2>6, <2>7, <2>8, TheEnds DEF Told16
<1>7. version' = version
  BY <1>1
<1>. QED  BY <1>5, <1>6, <1>7 DEF NumbersInv

LEMMA ReserveNumbers ==
    ASSUME Asking, SessionInv, NumbersInv, NEW e \in Ends, NEW t \in Threads, Reserve(e, t)
    PROVE  NumbersInv'
<1> DEFINE f == Peer(e)
           v == pc[e][t].value
           ok == OutgoingValid(e, v)
           what == IF ok THEN "reserved" ELSE "idle"
           value == IF ok THEN v ELSE 0
<1>1. /\ UNCHANGED <<version, verdict, closed, loop, written, parsed, buffer>>
      /\ Running(e) /\ pc[e][t].pc = "has_id" /\ Goes(e, t, what, value)
      /\ moq' = IF ok THEN [moq EXCEPT ![e].next = v + 2] ELSE moq
  BY DEF Reserve
<1>2. f \in Ends /\ f # e /\ Peer(f) = e /\ v \in Nat /\ value \in Nat /\ what \in {"idle", "has_id", "reserved", "raised"}
  BY TheEnds DEF SessionInv, SessionTypes
<1>3. pc'[f] = pc[f]
  BY <1>1, <1>2, ThreadGoes
<1>4. /\ moq'[f] = moq[f] /\ moq'[e].state = moq[e].state /\ moq'[e].max = moq[e].max /\ moq'[e].local = moq[e].local
      /\ moq'[e].goaway = moq[e].goaway /\ moq'[e].connected = moq[e].connected /\ moq'[e].expected = moq[e].expected
      /\ moq'[e].next = IF ok THEN v + 2 ELSE moq[e].next
  <2>1. moq \in [Ends -> Context]
    BY DEF SessionInv, SessionTypes
  <2>. QED  BY <1>1, <1>2, <2>1 DEF Context
<1>5. Live(e) /\ Live(e)'
  <2>1. Unborn(e) /\ moq[e] \in Context
    BY DEF NumbersInv, MessagesInv, SessionInv, SessionTypes
  <2>2. moq[e].state # "none" /\ moq[e].state # "gone"
    BY <1>1, <2>1 DEF Unborn, Running
  <2>. QED  BY <1>4, <2>1, <2>2 DEF Live, Context
<1>6. ok => Parity(e, v)
  BY DEF OutgoingValid
<1> HIDE DEF ok
<1>7. OwnIds(e)'
  <2>1. OwnIds(e)
    BY DEF NumbersInv, MessagesInv
  <2>2. /\ Values(e, "has_id")' \subseteq Values(e, "has_id")
        /\ Values(e, "reserved")' \subseteq Values(e, "reserved") \cup {value}
        /\ ~ok => Values(e, "reserved")' \subseteq Values(e, "reserved")
    BY <1>1, <1>2, ThreadValues
  <2>3. ok => Parity(e, v + 2) /\ value = v
    BY <1>2, <1>6, FirstIds
  <2>4. ASSUME NEW x \in Values(e, "has_id")' \cup Values(e, "reserved")' PROVE Parity(e, x)
    BY <1>6, <2>1, <2>2, <2>3 DEF OwnIds
  <2>5. Parity(e, moq'[e].next)
    BY <1>4, <1>5, <2>1, <2>3 DEF OwnIds
  <2>. QED  BY <2>4, <2>5 DEF OwnIds
<1>8. /\ StreamInv' /\ MessagesInv'
      /\ \A x \in Ends : /\ RemoteControl(x)' = RemoteControl(x)
                         /\ Sent(x, RemoteControl(x))' = Sent(x, RemoteControl(x))
                         /\ Read(x, RemoteControl(x))' = Read(x, RemoteControl(x))
                         /\ Live(x)' = Live(x) /\ Started(x)' = Started(x)
      /\ Read("server", Control("server"))' = Read("server", Control("server"))
  <2>1. moq[e].state # "none"
    BY <1>5 DEF Live
  <2>. QED  BY <1>1, <1>3, <1>4, <1>7, <2>1, CallMessages
<1>9. ASSUME version = 16 PROVE Told16'
  <2>1. Phases /\ Limits16(e) /\ Limits16(f) /\ Ids16(e) /\ Ids16(f)
    BY <1>2, <1>9 DEF NumbersInv, Told16
  <2>2. Values(e, "has_id") = {v} /\ Values(e, "reserved") = {} /\ Values(e, "raised") = {}
    BY <1>1, <1>9, AloneValues
  <2>3. /\ Values(e, "has_id")' = {} /\ Values(e, "raised")' = {}
        /\ Values(e, "reserved")' = IF ok THEN {v} ELSE {}
    <3>1. PICK w \in {"idle", "has_id", "reserved", "raised"}, x \in Nat : Goes(e, t, w, x) /\ w = what /\ x = value
      BY <1>1, <1>2
    <3>2. Values(e, w)' = {x} /\ \A k : k # w => Values(e, k)' = {}
      BY <1>9, <3>1, AloneGoes
    <3>. QED  BY <3>1, <3>2
  <2>4. \A k : Values(f, k)' = Values(f, k)
    BY <1>1, <1>2, ThreadValues
  <2>5. Phases'
    BY <1>1, <1>4, <1>8, <2>1, PhasesSame
  <2>6. Limits16(e)' /\ Limits16(f)'
    BY <1>1, <1>2, <1>4, <1>8, <2>1, <2>2, <2>3, <2>4, LimitsSame
  <2>7. Ids16(e)'
    BY <1>1, <1>2, <1>4, <1>8, <2>1, <2>4, IdsSame
  <2>8. Ids16(f)'
    <3> DEFINE q == Sent(f, RemoteControl(f))
               limit == moq[f].local
    <3>1. Issues(q, FirstId(e), moq[e].next, limit, {v}, {}, TRUE)
      BY <1>2, <1>5, <2>1, <2>2 DEF Ids16, Issues
    <3>2. v = moq[e].next /\ NextId(q, Len(q), FirstId(e), v)
      BY <3>1 DEF Issues
    <3>3. CASE ok
      <4>1. v < moq[e].max
        BY <1>9, <3>3 DEF ok, OutgoingValid
      <4>2. moq[e].max \in Nat /\ limit \in Nat
        BY <1>2 DEF SessionInv, SessionTypes, Context
      <4>3. v < limit
        <5>1. Chain(Sent(e, RemoteControl(e)), Read(e, RemoteControl(e)), moq[e].max, limit)
          BY <2>1 DEF Limits16
        <5>2. moq[e].max <= limit \/ moq[e].max = 0
          BY <5>1 DEF Chain
        <5>. QED  BY <1>2, <4>1, <4>2, <5>2
      <4>4. q # <<>>
        <5>1. moq[e].max > 0 /\ closed[e] = "open"
          BY <1>1, <1>2, <4>1, <4>2 DEF Running
        <5>2. Started(e)
          BY <2>1, <5>1 DEF Phases
        <5>3. RemoteControl(f) = Control(e)
          BY <1>2, TheControls
        <5>. QED  BY <5>2, <5>3 DEF Started
      <4>5. Issues(q, FirstId(e), v + 2, limit, {}, {v}, TRUE)
        BY <3>2, <4>3, <4>4 DEF Issues
      <4>6. Values(e, "has_id")' = {} /\ Values(e, "reserved")' = {v} /\ moq'[e].next = v + 2 /\ Live(e)' = TRUE
        BY <1>4, <1>5, <2>3, <3>3 DEF Live
      <4> HIDE DEF q, limit
      <4>7. Issues(q, FirstId(e), moq'[e].next, limit, Values(e, "has_id")', Values(e, "reserved")', Live(e)')
        BY <4>5, <4>6
      <4>. QED  BY <1>1, <1>2, <1>4, <1>8, <2>1, <4>7, IdsOther DEF q, limit
    <3>4. CASE ~ok
      <4>1. Issues(q, FirstId(e), moq[e].next, limit, {}, {}, TRUE)
        BY <3>1 DEF Issues
      <4>2. Values(e, "has_id")' = {} /\ Values(e, "reserved")' = {} /\ moq'[e].next = moq[e].next /\ Live(e)' = TRUE
        BY <1>4, <1>5, <2>3, <3>4 DEF Live
      <4> HIDE DEF q, limit
      <4>3. Issues(q, FirstId(e), moq'[e].next, limit, Values(e, "has_id")', Values(e, "reserved")', Live(e)')
        BY <4>1, <4>2
      <4>. QED  BY <1>1, <1>2, <1>4, <1>8, <2>1, <4>3, IdsOther DEF q, limit
    <3>. QED  BY <3>3, <3>4
  <2>. QED  BY <2>5, <2>6, <2>7, <2>8, TheEnds DEF Told16
<1>10. version' = version
  BY <1>1
<1>. QED  BY <1>8, <1>9, <1>10 DEF NumbersInv

LEMMA SetMaxRequestIdNumbers ==
    ASSUME Asking, SessionInv, NumbersInv, NEW e \in Ends, NEW t \in Threads, SetMaxRequestId(e, t)
    PROVE  NumbersInv'
<1> DEFINE f == Peer(e)
<1>1. /\ UNCHANGED <<version, verdict, closed, loop, written, parsed, buffer>>
      /\ pc[e][t].pc = "idle" /\ Live(e) /\ moq[e].connected
  BY DEF SetMaxRequestId, Free, Live, Asking
<1>2. PICK max \in NewLimits :
         IF version >= 17 \/ moq[e].local >= max
         THEN UNCHANGED <<moq, pc>>
         ELSE /\ moq' = [moq EXCEPT ![e].local = max]
              /\ Goes(e, t, "raised", max - 1)
  BY DEF SetMaxRequestId
<1>3. f \in Ends /\ f # e /\ Peer(f) = e /\ max \in Nat /\ max - 1 \in Nat /\ max > 0 /\ moq[e].local \in Nat
  BY SessionAssumption, TheEnds DEF SessionInv, SessionTypes, Context
<1>4. CASE UNCHANGED <<moq, pc>>
  <2>1. UNCHANGED <<version, verdict, pc, closed, written, parsed, buffer>> /\ loop' = loop /\ moq' = moq
    BY <1>1, <1>4
  <2>2. Works
    BY <2>1 DEF Works, NumbersInv, StreamInv
  <2>3. \A x \in Ends : Steady(x)
    BY <2>1, SteadyAlone
  <2>. QED  BY <2>1, <2>2, <2>3, LoopNumbers
<1>5. CASE /\ version = 16 /\ moq[e].local < max /\ Goes(e, t, "raised", max - 1)
           /\ moq' = [moq EXCEPT ![e].local = max]
  <2>1. pc'[f] = pc[f]
    BY <1>3, <1>5, ThreadGoes
  <2>2. /\ moq'[f] = moq[f] /\ moq'[e].state = moq[e].state /\ moq'[e].max = moq[e].max /\ moq'[e].local = max
        /\ moq'[e].goaway = moq[e].goaway /\ moq'[e].connected = moq[e].connected /\ moq'[e].expected = moq[e].expected
        /\ moq'[e].next = moq[e].next
    <3>1. moq \in [Ends -> Context]
      BY DEF SessionInv, SessionTypes
    <3>. QED  BY <1>3, <1>5, <3>1 DEF Context
  <2>3. Values(e, "has_id") = {} /\ Values(e, "reserved") = {} /\ Values(e, "raised") = {}
    BY <1>1, <1>5, AloneValues
  <2>4. Values(e, "has_id")' = {} /\ Values(e, "reserved")' = {} /\ Values(e, "raised")' = {max - 1}
    BY <1>3, <1>5, AloneGoes
  <2>5. \A k : Values(f, k)' = Values(f, k)
    BY <1>3, <1>5, ThreadValues
  <2>6. OwnIds(e)'
    <3>1. OwnIds(e)
      BY DEF NumbersInv, MessagesInv
    <3>. QED  BY <1>1, <2>2, <2>4, <3>1 DEF OwnIds
  <2>7. /\ StreamInv' /\ MessagesInv'
        /\ \A x \in Ends : /\ RemoteControl(x)' = RemoteControl(x)
                           /\ Sent(x, RemoteControl(x))' = Sent(x, RemoteControl(x))
                           /\ Read(x, RemoteControl(x))' = Read(x, RemoteControl(x))
                           /\ Live(x)' = Live(x) /\ Started(x)' = Started(x)
        /\ Read("server", Control("server"))' = Read("server", Control("server"))
    <3>1. moq[e].state # "none"
      BY <1>1 DEF Live
    <3>. QED  BY <1>1, <2>1, <2>2, <2>6, <3>1, CallMessages
  <2>8. Phases /\ Limits16(e) /\ Limits16(f) /\ Ids16(e) /\ Ids16(f)
    BY <1>3, <1>5 DEF NumbersInv, Told16
  <2>9. Phases'
    BY <1>1, <1>3, <2>2, <2>7, <2>8, PhasesSame
  <2>10. Limits16(e)'
    BY <1>1, <1>3, <2>2, <2>5, <2>7, <2>8, LimitsSame
  <2>11. Limits16(f)'
    <3> DEFINE q == Sent(f, RemoteControl(f))
               n == Read(f, RemoteControl(f))
               local == moq[e].local
    <3>1. q \in Seq(Msgs)
      BY <1>3, TheControls, SentTypes DEF NumbersInv
    <3>2. Chain(q, n, moq[f].max, local) /\ Announces(q, local, {}, moq[e].connected, SetupOf(e))
      BY <1>3, <2>3, <2>8 DEF Limits16
    <3>3. \A i \in Of(q, LimitTypes) : LimitIn(q[i]) \in Nat
      BY <3>1, OfTypes, LimitNatural
    <3>4. q' = q /\ n' = n
      BY <1>3, <2>7
    <3>5. local \in Nat /\ local < max
      BY <1>3, <1>5
    <3> HIDE DEF q, n, local
    <3>6. Chain(q, n, moq[f].max, max)
      BY <1>3, <3>1, <3>2, <3>5, ChainRaised
    <3>7. Announces(q, max, {max - 1}, TRUE, SetupOf(e))
      <4>1. \A i \in Of(q, LimitTypes) : LimitIn(q[i]) < max
        BY <1>3, <3>2, <3>3, <3>5 DEF Chain
      <4>2. max - 1 + 1 = max
        BY <1>3
      <4>. QED  BY <3>2, <4>1, <4>2 DEF Announces
    <3>8. moq'[e].connected = TRUE
      <4>1. moq[e].connected \in BOOLEAN
        BY DEF SessionInv, SessionTypes, Context
      <4>. QED  BY <1>1, <2>2, <4>1
    <3>. QED  BY <1>3, <2>2, <2>4, <3>4, <3>6, <3>7, <3>8 DEF Limits16, q, n, SetupOf
  <2>12. Ids16(f)'
    <3>1. Issues(Sent(f, RemoteControl(f)), FirstId(e), moq[e].next, moq[f].local, {}, {}, Live(e))
      BY <1>3, <2>3, <2>8 DEF Ids16
    <3>2. Issues(Sent(f, RemoteControl(f)), FirstId(e), moq'[e].next, moq[f].local,
                 Values(e, "has_id")', Values(e, "reserved")', Live(e)')
      BY <2>2, <2>4, <2>7, <3>1
    <3>. QED  BY <1>1, <1>3, <2>2, <2>7, <2>8, <3>2, IdsOther
  <2>13. Ids16(e)'
    <3> DEFINE q == Sent(e, RemoteControl(e))
               n == Read(e, RemoteControl(e))
               H == Values(f, "has_id")
               S == Values(f, "reserved")
    <3>1. /\ InRow(q, FirstId(f), moq[e].local) /\ (Live(e) => Expects(q, n, FirstId(f), moq[e].expected))
          /\ Issues(q, FirstId(f), moq[f].next, moq[e].local, H, S, Live(f))
      BY <2>8 DEF Ids16
    <3>2. q \in Seq(Msgs)
      BY TheControls, SentTypes DEF NumbersInv
    <3>3. S \in SUBSET Nat
      BY <1>3 DEF SessionInv, SessionTypes, Values
    <3>4. q' = q /\ n' = n /\ H' = H /\ S' = S /\ Live(e)' = Live(e) /\ Live(f)' = Live(f)
      BY <1>3, <2>5, <2>7
    <3> HIDE DEF q, n, H, S
    <3>5. moq[e].local <= max
      BY <1>3, <1>5
    <3>6. InRow(q, FirstId(f), max) /\ Issues(q, FirstId(f), moq[f].next, max, H, S, Live(f))
      BY <1>3, <3>1, <3>2, <3>3, <3>5, RowLimit
    <3>. QED  BY <1>3, <2>2, <3>1, <3>4, <3>6 DEF Ids16, q, n, H, S, FirstId
  <2>14. version' = version
    BY <1>1
  <2>. QED  BY <2>7, <2>9, <2>10, <2>11, <2>12, <2>13, <2>14, TheEnds DEF NumbersInv, Told16
<1>6. (version >= 17 \/ moq[e].local >= max) \/ (version = 16 /\ moq[e].local < max)
  BY <1>3, Versions3 DEF SessionInv
<1>. QED  BY <1>2, <1>3, <1>4, <1>5, <1>6

-----------------------------------------------------------------------------
(* Calls that send a message.                                                *)

\* What the other end f is sent on the control stream, and the rest stays.
Adds(f, s, m) ==
    /\ s = RemoteControl(f) => Grown(Sent(f, RemoteControl(f)), Sent(f, RemoteControl(f))', m)
    /\ s # RemoteControl(f) => Sent(f, RemoteControl(f))' = Sent(f, RemoteControl(f))
    /\ Sent(Peer(f), RemoteControl(Peer(f)))' = Sent(Peer(f), RemoteControl(Peer(f)))

LEMMA WroteAdds ==
    ASSUME SessionInv, StreamInv, version' = version, NEW f \in Ends, NEW s \in Streams, NEW m \in Msgs, Wrote(f, s, m)
    PROVE  Adds(f, s, m)
<1> DEFINE e == Peer(f)
<1>1. e \in Ends /\ e # f
  BY TheEnds
<1>2. RemoteControl(f) \in Streams /\ RemoteControl(e) \in Streams
  BY <1>1, TheControls
<1>3. RemoteControl(f)' = RemoteControl(f) /\ RemoteControl(e)' = RemoteControl(e)
  BY <1>1, SameVersion
<1>4. Sent(f, RemoteControl(f)) \in Seq(Msgs)
  BY <1>2, SentTypes
<1> HIDE DEF e
<1>5. ASSUME NEW x \in Ends, NEW r, r = RemoteControl(x), r = RemoteControl(x)', r \in Streams
      PROVE  /\ x # f \/ r # s => Sent(x, RemoteControl(x))' = Sent(x, RemoteControl(x))
             /\ x = f /\ r = s => Sent(x, RemoteControl(x))' = Append(Sent(x, RemoteControl(x)), m)
  <2>1. /\ x # f \/ r # s => Sent(x, r)' = Sent(x, r)
        /\ x = f /\ r = s => Sent(x, r)' = Append(Sent(x, r), m)
    BY <1>5 DEF Wrote
  <2>2. Sent(x, RemoteControl(x))' = Sent(x, r)' /\ Sent(x, RemoteControl(x)) = Sent(x, r)
    BY <1>5 DEF Sent
  <2>. QED  BY <2>1, <2>2
<1>6. /\ s # RemoteControl(f) => Sent(f, RemoteControl(f))' = Sent(f, RemoteControl(f))
      /\ s = RemoteControl(f) => Sent(f, RemoteControl(f))' = Append(Sent(f, RemoteControl(f)), m)
  BY <1>2, <1>3, <1>5
<1>7. Sent(e, RemoteControl(e))' = Sent(e, RemoteControl(e))
  BY <1>1, <1>2, <1>3, <1>5
<1>8. Grown(Sent(f, RemoteControl(f)), Append(Sent(f, RemoteControl(f)), m), m)
  BY <1>4, Grows
<1>. QED  BY <1>6, <1>7, <1>8 DEF Adds, e

LEMMA SentMessages ==
    ASSUME SessionInv, NumbersInv, NEW e \in Ends, NEW f \in Ends, f = Peer(e), NEW s \in Streams, NEW m \in Msgs, Send(e, s, m),
           UNCHANGED <<version, verdict, closed, parsed, buffer>>, Works, MayBeSent(f, s, m),
           m.type = "GOAWAY" => Of(Sent(f, RemoteControl(f)), {"GOAWAY"}) = {},
           moq'[f] = moq[f], pc'[f] = pc[f], moq'[e].goaway = moq[e].goaway, moq'[e].state # "none",
           moq'[e].next = moq[e].next, Live(e)' => Live(e),
           Values(e, "has_id")' \subseteq Values(e, "has_id"), Values(e, "reserved")' \subseteq Values(e, "reserved")
    PROVE  /\ StreamInv' /\ MessagesInv' /\ Adds(f, s, m)
           /\ \A x \in Ends : /\ RemoteControl(x)' = RemoteControl(x)
                              /\ Read(x, RemoteControl(x))' = Read(x, RemoteControl(x))
           /\ \A k : Values(f, k)' = Values(f, k)
           /\ Live(f)' = Live(f)
<1>1. f # e /\ Peer(f) = e
  BY TheEnds
<1>2. version' = version /\ UNCHANGED <<parsed, buffer>> /\ StreamInv
  BY DEF NumbersInv
<1>3. StreamInv' /\ Wrote(f, s, m) /\ ReadNone
  BY <1>2, SentStreams
<1>4. Adds(f, s, m)
  BY <1>2, <1>3, WroteAdds
<1>5. ASSUME NEW x \in Ends
      PROVE  /\ RemoteControl(x)' = RemoteControl(x)
             /\ Read(x, RemoteControl(x))' = Read(x, RemoteControl(x))
             /\ RemoteControl(x) \in Streams
  <2>1. RemoteControl(x)' = RemoteControl(x) /\ RemoteControl(x) \in Streams
    BY <1>2, SameVersion, TheControls
  <2>. QED  BY <1>2, <2>1 DEF Read
<1>6. (\A k : Values(f, k)' = Values(f, k)) /\ Live(f)' = Live(f)
  BY DEF Values, Live
<1>7. Sendable' /\ NoRefusal'
  <2>1. Sendable'
    BY <1>2, <1>3, SendableWrote
  <2>. QED  BY <2>1 DEF NumbersInv, MessagesInv, NoRefusal
<1>8. ASSUME NEW x \in Ends PROVE Goaways(x)'
  <2> DEFINE q == Sent(x, RemoteControl(x))
             n == Read(x, RemoteControl(x))
  <2>1. GoawayOnce(q, n, moq[x].goaway) /\ (x = e \/ x = f)
    BY TheEnds DEF NumbersInv, MessagesInv, Goaways
  <2>2. n' = n /\ moq'[x].goaway = moq[x].goaway
    BY <1>5, <2>1
  <2>3. q \in Seq(Msgs) /\ n \in Nat
    BY <1>5, SentTypes DEF NumbersInv
  <2>4. CASE q' = q
    BY <2>1, <2>2, <2>4 DEF Goaways
  <2>5. CASE q' # q
    <3>1. x = f /\ s = RemoteControl(f)
      BY <1>1, <1>4, <2>1, <2>5 DEF Adds
    <3>2. Grown(q, q', m) /\ (m.type = "GOAWAY" => Of(q, {"GOAWAY"}) = {})
      BY <1>4, <3>1 DEF Adds
    <3> HIDE DEF q, n
    <3>3. GoawayOnce(q', n, moq[x].goaway)
      BY <2>1, <2>3, <3>2, GoawayGrown
    <3>. QED  BY <2>2, <3>3 DEF Goaways, q, n
  <2>. QED  BY <2>4, <2>5
<1>9. ASSUME NEW x \in Ends PROVE Unborn(x)' /\ OwnIds(x)'
  <2>1. Unborn(x) /\ OwnIds(x) /\ (x = e \/ x = f)
    BY TheEnds DEF NumbersInv, MessagesInv
  <2>2. Unborn(x)'
    BY <1>2, <2>1 DEF Unborn
  <2>3. OwnIds(x)'
    BY <1>6, <2>1 DEF OwnIds
  <2>. QED  BY <2>2, <2>3
<1>. QED  BY <1>3, <1>4, <1>5, <1>6, <1>7, <1>8, <1>9 DEF MessagesInv

\* The limits of an end that sends a message on the control stream of version 16.
LEMMA LimitsSent ==
    ASSUME SessionInv, NumbersInv, version = 16, NEW e \in Ends, NEW f \in Ends, f = Peer(e), NEW m \in Msgs,
           Adds(f, Control(e), m), version' = version, Read(f, RemoteControl(f))' = Read(f, RemoteControl(f)),
           moq'[f].max = moq[f].max, moq'[e].local = moq[e].local, moq'[e].connected = moq[e].connected,
           m.type = SetupOf(e) <=> Sent(f, RemoteControl(f)) = <<>>,
           \/ /\ m.type \notin LimitTypes /\ Values(e, "raised")' = Values(e, "raised")
              /\ Sent(f, RemoteControl(f)) # <<>>
           \/ /\ m.type \in LimitTypes /\ LimitIn(m) = moq[e].local /\ moq[e].local > 0 /\ Values(e, "raised")' = {}
              /\ \A i \in Of(Sent(f, RemoteControl(f)), LimitTypes) : LimitIn(Sent(f, RemoteControl(f))[i]) < moq[e].local
    PROVE  Limits16(f)'
<1> DEFINE q == Sent(f, RemoteControl(f))
           n == Read(f, RemoteControl(f))
           local == moq[e].local
           max == moq[f].max
           R == Values(e, "raised")
           connected == moq[e].connected
<1>1. Peer(f) = e
  BY TheEnds
<1>2. RemoteControl(f) = Control(e) /\ RemoteControl(f) \in Streams
  BY <1>1, TheControls
<1>3. q \in Seq(Msgs) /\ n \in Nat /\ n <= Len(q)
  BY <1>2, SentTypes DEF NumbersInv
<1>4. local \in Nat /\ max \in Nat /\ R \in SUBSET Nat
  BY DEF SessionInv, SessionTypes, Context, Values
<1>5. Chain(q, n, max, local) /\ Announces(q, local, R, connected, SetupOf(e))
  BY <1>1 DEF NumbersInv, Told16, Limits16
<1>6. Grown(q, q', m)
  BY <1>2 DEF Adds
<1>7. n' = n /\ local' = local /\ max' = max /\ connected' = connected
  OBVIOUS
<1>8. SetupOf(e) \in LimitTypes
  BY DEF SetupOf, LimitTypes
<1>9. \/ m.type \notin LimitTypes /\ R' = R /\ q # <<>>
      \/ m.type \in LimitTypes /\ LimitIn(m) = local /\ local > 0 /\ R' = {} /\ \A i \in Of(q, LimitTypes) : LimitIn(q[i]) < local
  OBVIOUS
<1>10. m.type = SetupOf(e) <=> Len(q) = 0
  BY <1>3, EmptySeq
<1>11. R' \in SUBSET Nat
  BY <1>4, <1>9
<1> HIDE DEF q, n, local, max, R, connected
<1>12. Chain(q', n, max, local)
  <2>1. m.type \in LimitTypes => /\ 0 < LimitIn(m) /\ LimitIn(m) <= local
                                 /\ \A i \in Of(q, LimitTypes) : LimitIn(q[i]) < LimitIn(m)
    BY <1>4, <1>9
  <2>. QED  BY <1>3, <1>4, <1>5, <1>6, <2>1, ChainGrown
<1>13. Announces(q', local, R', connected, SetupOf(e))
  BY <1>4, <1>5, <1>6, <1>8, <1>9, <1>10, <1>11, AnnouncesGrown
<1>. QED  BY <1>1, <1>7, <1>12, <1>13 DEF Limits16, q, n, local, max, R, connected, SetupOf

\* The IDs when the message is not a request.
LEMMA IdsSent ==
    ASSUME SessionInv, NumbersInv, version = 16, NEW e \in Ends, NEW f \in Ends, f = Peer(e), NEW m \in Msgs,
           Adds(f, Control(e), m), version' = version, Read(f, RemoteControl(f))' = Read(f, RemoteControl(f)),
           moq'[f] = moq[f], moq'[e].next = moq[e].next, Live(e)' = Live(e), Live(f)' = Live(f),
           Values(e, "has_id")' = Values(e, "has_id"), Values(e, "reserved")' = Values(e, "reserved"),
           m.type # "REQUEST"
    PROVE  Ids16(f)'
<1> DEFINE q == Sent(f, RemoteControl(f))
           n == Read(f, RemoteControl(f))
           H == Values(e, "has_id")
           S == Values(e, "reserved")
           limit == moq[f].local
           next == moq[e].next
           expected == moq[f].expected
<1>1. Peer(f) = e
  BY TheEnds
<1>2. RemoteControl(f) = Control(e) /\ RemoteControl(f) \in Streams
  BY <1>1, TheControls
<1>3. q \in Seq(Msgs) /\ n \in Nat /\ n <= Len(q)
  BY <1>2, SentTypes DEF NumbersInv
<1>4. limit \in Nat /\ next \in Nat /\ expected \in Nat /\ FirstId(e) \in Nat
  BY FirstIds DEF SessionInv, SessionTypes, Context
<1>5. /\ InRow(q, FirstId(e), limit) /\ Issues(q, FirstId(e), next, limit, H, S, Live(e))
      /\ Live(f) => Expects(q, n, FirstId(e), expected)
  BY <1>1 DEF NumbersInv, Told16, Ids16
<1>6. Grown(q, q', m)
  BY <1>2 DEF Adds
<1>7. n' = n /\ H' = H /\ S' = S /\ limit' = limit /\ next' = next /\ expected' = expected
  OBVIOUS
<1> HIDE DEF q, n, H, S, limit, next, expected
<1>8. InRow(q', FirstId(e), limit)
  BY <1>4, <1>5, <1>6, RowOther
<1>9. Issues(q', FirstId(e), next, limit, H, S, Live(e))
  BY <1>4, <1>5, <1>6, IssuesGrown
<1>10. Live(f) => Expects(q', n, FirstId(e), expected)
  BY <1>3, <1>4, <1>5, <1>6, ExpectsGrown
<1>. QED  BY <1>1, <1>7, <1>8, <1>9, <1>10 DEF Ids16, q, n, H, S, limit, next, expected, FirstId

\* The session goes on, and its control stream has one message more.
LEMMA ToldSent ==
    ASSUME SessionInv, NumbersInv, version = 16, NEW e \in Ends, NEW f \in Ends, f = Peer(e), NEW m \in Msgs,
           Adds(f, Control(e), m), Started(e), UNCHANGED <<version, moq, loop, closed, parsed, buffer>>,
           \A x \in Ends : /\ RemoteControl(x)' = RemoteControl(x)
                           /\ Read(x, RemoteControl(x))' = Read(x, RemoteControl(x)),
           \A k : Values(f, k)' = Values(f, k),
           Limits16(f)', Ids16(f)'
    PROVE  Told16'
<1>1. Peer(f) = e /\ f # e
  BY TheEnds
<1>2. /\ RemoteControl(f) = Control(e) /\ RemoteControl(e) = Control(f) /\ RemoteControl(f) \in Streams
      /\ Control("server") \in Streams
  BY <1>1, TheControls DEF Ends
<1>3. version' = version /\ moq' = moq /\ loop' = loop /\ closed' = closed
  OBVIOUS
<1>4. Phases /\ Limits16(e) /\ Ids16(e)
  BY DEF NumbersInv, Told16
<1>5. Grown(Sent(f, RemoteControl(f)), Sent(f, RemoteControl(f))', m)
      /\ Sent(e, RemoteControl(e))' = Sent(e, RemoteControl(e))
  BY <1>1, <1>2 DEF Adds
<1>6. Sent(f, RemoteControl(f)) # <<>> /\ Sent(f, RemoteControl(f))' # <<>>
  <2>1. Sent(f, RemoteControl(f)) # <<>>
    BY <1>2 DEF Started
  <2>2. Sent(f, RemoteControl(f))' # <<>>
    <3> DEFINE r == Sent(f, RemoteControl(f))'
    <3>1. r \in Seq(Msgs) /\ Len(r) # 0
      BY <1>5 DEF Grown
    <3> HIDE DEF r
    <3>2. r # <<>>
      BY <3>1, EmptySeq
    <3>. QED  BY <3>2 DEF r
  <2>. QED  BY <2>1, <2>2
<1>7. ASSUME NEW x \in Ends PROVE Started(x)' = Started(x) /\ Live(x)' = Live(x)
  <2>1. Control(x) = RemoteControl(Peer(x)) /\ Peer(x) \in Ends /\ Control(x)' = Control(x)
    BY <1>3, TheEnds, TheControls, SameVersion
  <2>2. RemoteControl(Peer(x))' = RemoteControl(Peer(x))
    BY <2>1
  <2>3. Started(x) <=> Sent(Peer(x), RemoteControl(Peer(x))) # <<>>
    BY <2>1 DEF Started
  <2>4. Started(x)' <=> Sent(Peer(x), RemoteControl(Peer(x)))' # <<>>
    BY <2>1, <2>2 DEF Started, Sent
  <2>5. (Sent(Peer(x), RemoteControl(Peer(x)))' # <<>>) <=> Sent(Peer(x), RemoteControl(Peer(x))) # <<>>
    <3>1. CASE x = e
      BY <1>6, <3>1
    <3>2. CASE x = f
      BY <1>1, <1>5, <3>2
    <3>. QED  BY <3>1, <3>2, TheEnds
  <2>6. Live(x)' = Live(x)
    BY <1>3 DEF Live
  <2>. QED  BY <2>3, <2>4, <2>5, <2>6 DEF Started
<1>8. Read("server", Control("server"))' = Read("server", Control("server"))
  <2>1. "server" \in Ends
    BY DEF Ends
  <2>2. Control("server")' = Control("server")
    BY <1>3, <2>1, SameVersion
  <2>. QED  BY <2>2 DEF Read
<1>9. Phases'
  BY <1>3, <1>4, <1>7, <1>8, PhasesSame
<1>10. Limits16(e)' /\ Ids16(e)'
  <2>1. Limits16(e)'
    BY <1>3, <1>4, <1>5, LimitsSame
  <2>2. Ids16(e)'
    BY <1>3, <1>4, <1>5, <1>7, IdsSame
  <2>. QED  BY <2>1, <2>2
<1>. QED  BY <1>9, <1>10, TheEnds DEF Told16

\* One message of no consequence for limits and IDs.
LEMMA SendControlNumbers ==
    ASSUME SessionInv, NumbersInv, NEW e \in Ends, NEW t \in Threads, NEW m \in Msgs, SendControl(e, t, m),
           MayBeSent(Peer(e), Control(e), m), m.type \notin LimitTypes, m.type # "REQUEST",
           m.type = "GOAWAY" => Of(Sent(Peer(e), Control(e)), {"GOAWAY"}) = {}
    PROVE  NumbersInv'
<1> DEFINE f == Peer(e)
<1>1. /\ UNCHANGED <<version, verdict, closed, parsed, buffer>> /\ moq' = moq /\ loop' = loop /\ pc' = pc
      /\ Live(e) /\ moq[e].connected /\ Send(e, Control(e), m)
  BY DEF SendControl, Free, Live
<1>2. f \in Ends /\ Peer(f) = e /\ RemoteControl(f) = Control(e) /\ Control(e) \in Streams
  BY TheEnds, TheControls
<1>3. Works /\ Live(e)' = Live(e) /\ \A k : Values(e, k)' = Values(e, k)
  BY <1>1 DEF Works, NumbersInv, StreamInv, Live, Values
<1>4. /\ StreamInv' /\ MessagesInv' /\ Adds(f, Control(e), m)
      /\ \A x \in Ends : /\ RemoteControl(x)' = RemoteControl(x)
                         /\ Read(x, RemoteControl(x))' = Read(x, RemoteControl(x))
      /\ \A k : Values(f, k)' = Values(f, k)
      /\ Live(f)' = Live(f)
  <2>1. m.type = "GOAWAY" => Of(Sent(f, RemoteControl(f)), {"GOAWAY"}) = {}
    BY <1>2
  <2>2. moq[e].state # "none" /\ MayBeSent(f, Control(e), m)
    BY <1>1 DEF Live
  <2> HIDE DEF f
  <2>3. f = Peer(e)
    BY DEF f
  <2>. QED  BY <1>1, <1>2, <1>3, <2>1, <2>2, <2>3, SentMessages
<1>5. ASSUME version = 16 PROVE Told16'
  <2>1. Started(e)
    BY <1>1, <1>5 DEF NumbersInv, Told16, Phases
  <2>2. Sent(f, RemoteControl(f)) # <<>>
    BY <1>2, <2>1 DEF Started
  <2>3. m.type # SetupOf(e)
    BY DEF SetupOf, LimitTypes
  <2>4. f = Peer(e) /\ version' = version /\ UNCHANGED <<version, moq, loop, closed, parsed, buffer>>
    BY <1>1
  <2> HIDE DEF f
  <2>5. Limits16(f)'
    BY <1>1, <1>2, <1>3, <1>4, <1>5, <2>2, <2>3, <2>4, LimitsSent
  <2>6. Ids16(f)'
    BY <1>1, <1>2, <1>3, <1>4, <1>5, <2>4, IdsSent
  <2>. QED  BY <1>2, <1>4, <1>5, <2>1, <2>4, <2>5, <2>6, ToldSent
<1>6. version' = version
  BY <1>1
<1>. QED  BY <1>4, <1>5, <1>6 DEF NumbersInv

LEMMA RequestsBlockedNumbers ==
    ASSUME SessionInv, NumbersInv, NEW e \in Ends, NEW t \in Threads, RequestsBlocked(e, t)
    PROVE  NumbersInv'
<1> DEFINE m == Msg("REQUESTS_BLOCKED", moq[e].max)
<1>1. version = 16 /\ SendControl(e, t, m)
  BY DEF RequestsBlocked
<1>2. m \in Msgs /\ m.type = "REQUESTS_BLOCKED"
  BY DEF SessionInv, SessionTypes, Context, Msg, Msgs, Types
<1>3. Peer(e) \in Ends /\ RemoteControl(Peer(e)) = Control(e)
  BY TheEnds, TheControls
<1>4. MayBeSent(Peer(e), Control(e), m)
  BY <1>1, <1>2, <1>3 DEF MayBeSent
<1> HIDE DEF m
<1>. QED  BY <1>1, <1>2, <1>4, SendControlNumbers DEF LimitTypes

\* No GOAWAY was sent.
LEMMA SentNone ==
    ASSUME SessionInv, NumbersInv, NEW e \in Ends, SendsOnce(e)
    PROVE  Of(Sent(Peer(e), Control(e)), {"GOAWAY"}) = {}
<1> DEFINE f == Peer(e)
           s == Control(e)
           w == written[f][s]
           q == Sent(f, s)
<1>1. f \in Ends /\ s \in Streams
  BY TheEnds, TheControls
<1>2. w \in Seq(Pieces) /\ Paired(w)
  BY <1>1, Along DEF NumbersInv, StreamInv
<1>3. Halving(w, q)
  BY <1>2, PairedMessages DEF Sent
<1> SUFFICES ASSUME NEW i \in Of(q, {"GOAWAY"}) PROVE FALSE
  OBVIOUS
<1>4. i \in 1 .. Len(q) /\ q[i].type = "GOAWAY"
  BY DEF Of
<1>5. 2 * i \in DOMAIN w /\ w[2 * i] = <<q[i], 2>>
  BY <1>2, <1>3, <1>4 DEF Halving
<1>6. w[2 * i][1] = q[i]
  BY <1>5
<1>. QED  BY <1>4, <1>5, <1>6 DEF SendsOnce

LEMMA GoawayNumbers ==
    ASSUME Asking, SessionInv, NumbersInv, NEW e \in Ends, NEW t \in Threads, Goaway(e, t)
    PROVE  NumbersInv'
<1>1. version \in {16, 17}
  BY Versions3 DEF Goaway, Asking, SessionInv
<1> DEFINE m == Msg("GOAWAY", 0)
<1>2. SendControl(e, t, m) /\ SendsOnce(e)
  BY <1>1 DEF Goaway
<1>3. m \in Msgs /\ m.type = "GOAWAY"
  BY DEF Msg, Msgs, Types
<1>4. Peer(e) \in Ends /\ RemoteControl(Peer(e)) = Control(e)
  BY TheEnds, TheControls
<1>5. MayBeSent(Peer(e), Control(e), m)
  BY <1>1, <1>3, <1>4 DEF MayBeSent
<1>6. Of(Sent(Peer(e), Control(e)), {"GOAWAY"}) = {}
  BY <1>2, SentNone
<1> HIDE DEF m
<1>. QED  BY <1>2, <1>3, <1>5, <1>6, SendControlNumbers DEF LimitTypes

\* An object of no consequence for limits and IDs.
LEMMA SendObjectNumbers ==
    ASSUME SessionInv, NumbersInv, NEW e \in Ends, NEW t \in Threads, SendObject(e, t)
    PROVE  NumbersInv'
<1> DEFINE m == Msg("OBJECT", 0)
<1>1. PICK f \in Ends, s \in Streams : f = Peer(e) /\ s = DataStream(e) /\ Peer(f) = e /\ s # Control(e)
  BY TheEnds, TheStreams
<1>2. /\ UNCHANGED <<version, verdict, closed, parsed, buffer>> /\ moq' = moq /\ loop' = loop /\ pc' = pc
      /\ moq[e].state # "none" /\ Send(e, s, m)
  BY <1>1 DEF SendObject, Free
<1>3. Works /\ \A x \in Ends : Live(x)' = Live(x) /\ \A k : Values(x, k)' = Values(x, k)
  BY <1>2 DEF Works, NumbersInv, StreamInv, Live, Values
<1>4. m \in Msgs /\ m.type = "OBJECT" /\ MayBeSent(f, s, m)
  BY <1>1 DEF Msg, Msgs, Types, MayBeSent
<1> HIDE DEF m
<1>5. /\ StreamInv' /\ MessagesInv' /\ Adds(f, s, m)
      /\ \A x \in Ends : /\ RemoteControl(x)' = RemoteControl(x)
                         /\ Read(x, RemoteControl(x))' = Read(x, RemoteControl(x))
  BY <1>1, <1>2, <1>3, <1>4, SentMessages
<1>6. version' = version
  BY <1>2
<1>7. ASSUME version = 16 PROVE Told16'
  <2>1. \A x \in Ends : Control(x) = RemoteControl(Peer(x)) /\ Peer(x) \in Ends /\ Control(x)' = Control(x)
    BY <1>6, TheEnds, TheControls, SameVersion
  <2>2. ASSUME NEW x \in Ends PROVE Sent(x, RemoteControl(x))' = Sent(x, RemoteControl(x))
    <3>1. s # RemoteControl(f)
      BY <1>1, <2>1
    <3>. QED  BY <1>1, <1>5, <3>1, TheEnds DEF Adds
  <2>3. ASSUME NEW x \in Ends PROVE Started(x)' = Started(x)
    <3>1. RemoteControl(Peer(x))' = RemoteControl(Peer(x)) /\ Sent(Peer(x), RemoteControl(Peer(x)))' = Sent(Peer(x), RemoteControl(Peer(x)))
      BY <1>5, <2>1, <2>2
    <3>2. Started(x) <=> Sent(Peer(x), RemoteControl(Peer(x))) # <<>>
      BY <2>1 DEF Started
    <3>3. Started(x)' <=> Sent(Peer(x), RemoteControl(Peer(x)))' # <<>>
      BY <2>1, <3>1 DEF Started, Sent
    <3>. QED  BY <3>1, <3>2, <3>3 DEF Started
  <2>4. Read("server", Control("server"))' = Read("server", Control("server"))
    <3>1. "server" \in Ends
      BY DEF Ends
    <3>2. Control("server")' = Control("server")
      BY <2>1, <3>1
    <3>. QED  BY <1>2, <3>2 DEF Read
  <2>5. Phases /\ \A x \in Ends : Limits16(x) /\ Ids16(x)
    BY <1>7 DEF NumbersInv, Told16
  <2>6. Phases'
    BY <1>2, <1>3, <2>3, <2>4, <2>5, PhasesSame
  <2>7. ASSUME NEW x \in Ends PROVE Limits16(x)' /\ Ids16(x)'
    <3>1. Limits16(x)'
      BY <1>2, <1>3, <1>5, <1>6, <2>1, <2>2, <2>5, LimitsSame
    <3>2. Ids16(x)'
      BY <1>2, <1>3, <1>5, <1>6, <2>1, <2>2, <2>5, IdsSame
    <3>. QED  BY <3>1, <3>2
  <2>. QED  BY <2>6, <2>7 DEF Told16
<1>. QED  BY <1>5, <1>6, <1>7 DEF NumbersInv

\* The limit that was raised is announced.
LEMMA AnnounceLimitNumbers ==
    ASSUME Asking, SessionInv, NumbersInv, NEW e \in Ends, NEW t \in Threads, AnnounceLimit(e, t)
    PROVE  NumbersInv'
<1> DEFINE v == pc[e][t].value
           m == Msg("MAX_REQUEST_ID", v)
           local == moq[e].local
<1>1. PICK f \in Ends, s \in Streams : f = Peer(e) /\ s = Control(e) /\ Peer(f) = e
  BY TheEnds, TheStreams
<1>2. /\ UNCHANGED <<version, verdict, closed, parsed, buffer>> /\ moq' = moq /\ loop' = loop
      /\ pc[e][t].pc = "raised" /\ Goes(e, t, "idle", 0)
      /\ moq[e].connected => Send(e, s, m)
  BY <1>1 DEF AnnounceLimit
<1>3. version' = version /\ version = 16
  <2>1. Stage(e) /\ version \in {16, 17, 18}
    BY Versions3 DEF SessionInv, EndInv
  <2>. QED  BY <1>2, <2>1 DEF Stage
<1>4. v \in Nat /\ local \in Nat /\ m \in Msgs /\ m.type = "MAX_REQUEST_ID" /\ m.value = v
  BY DEF SessionInv, SessionTypes, Context, Msg, Msgs, Types
<1>5. s = RemoteControl(f) /\ RemoteControl(f) = Control(e)
  BY <1>1, TheControls
<1>6. /\ Values(e, "raised") = {v} /\ Values(e, "has_id") = {} /\ Values(e, "reserved") = {}
      /\ \A k : k # "idle" => Values(e, k)' = {}
  BY <1>2, <1>3, AloneValues, AloneGoes
<1>7. /\ v + 1 = local /\ moq[e].connected
      /\ \A i \in Of(Sent(f, RemoteControl(f)), LimitTypes) : LimitIn(Sent(f, RemoteControl(f))[i]) < local
  <2>1. Announces(Sent(f, RemoteControl(f)), local, Values(e, "raised"), moq[e].connected, SetupOf(e))
    BY <1>1, <1>3 DEF NumbersInv, Told16, Limits16
  <2>. QED  BY <1>6, <2>1 DEF Announces
<1>8. Send(e, s, m)
  BY <1>2, <1>7
<1>9. Works /\ \A x \in Ends : Live(x)' = Live(x)
  BY <1>2 DEF Works, NumbersInv, StreamInv, Live
<1>10. MayBeSent(f, s, m)
  BY <1>3, <1>4, <1>5 DEF MayBeSent
<1>11. pc'[f] = pc[f]
  BY <1>1, <1>2, ThreadGoes
<1>12. Started(e) /\ moq[e].state # "none"
  <2>1. Phases /\ Unborn(e)
    BY <1>3 DEF NumbersInv, Told16, MessagesInv
  <2>. QED  BY <1>7, <2>1 DEF Phases, Unborn
<1>13. LimitIn(m) = v + 1 /\ m.type \in LimitTypes
  BY <1>4 DEF LimitIn, LimitTypes
<1> HIDE DEF m, v, local
<1>14. /\ StreamInv' /\ MessagesInv' /\ Adds(f, s, m)
       /\ \A x \in Ends : /\ RemoteControl(x)' = RemoteControl(x)
                          /\ Read(x, RemoteControl(x))' = Read(x, RemoteControl(x))
       /\ \A k : Values(f, k)' = Values(f, k)
  BY <1>1, <1>2, <1>4, <1>6, <1>8, <1>9, <1>10, <1>11, <1>12, SentMessages
<1>15. Sent(f, RemoteControl(f)) # <<>>
  BY <1>5, <1>12, <1>1 DEF Started
<1>16. m.type # SetupOf(e) /\ Values(e, "raised")' = {} /\ Values(e, "has_id")' = {} /\ Values(e, "reserved")' = {}
  BY <1>4, <1>6 DEF SetupOf
<1>17. Limits16(f)'
  <2>1. m.type \in LimitTypes /\ LimitIn(m) = moq[e].local /\ moq[e].local > 0
    BY <1>4, <1>7, <1>13 DEF local
  <2>2. \A i \in Of(Sent(f, RemoteControl(f)), LimitTypes) : LimitIn(Sent(f, RemoteControl(f))[i]) < moq[e].local
    BY <1>7 DEF local
  <2>. QED  BY <1>1, <1>2, <1>3, <1>4, <1>14, <1>15, <1>16, <2>1, <2>2, LimitsSent
<1>18. Ids16(f)'
  BY <1>1, <1>2, <1>3, <1>4, <1>6, <1>9, <1>14, <1>16, IdsSent
<1>19. Told16'
  BY <1>1, <1>2, <1>3, <1>4, <1>12, <1>14, <1>17, <1>18, ToldSent
<1>. QED  BY <1>3, <1>14, <1>19 DEF NumbersInv

\* A request is sent.
LEMMA SendRequestNumbers ==
    ASSUME Asking, SessionInv, NumbersInv, NEW e \in Ends, NEW t \in Threads, SendRequest(e, t)
    PROVE  NumbersInv'
<1> DEFINE v == pc[e][t].value
           m == Msg("REQUEST", v)
<1>1. PICK f \in Ends : f = Peer(e) /\ Peer(f) = e
  BY TheEnds
<1>2. PICK s \in RequestStreams(e) : Send(e, s, m)
  BY DEF SendRequest
<1>3. /\ UNCHANGED <<version, verdict, closed, parsed, buffer>> /\ moq' = moq /\ loop' = loop
      /\ Running(e) /\ pc[e][t].pc = "reserved" /\ Goes(e, t, "idle", 0)
  BY DEF SendRequest
<1>4. version' = version /\ version \in {16, 17, 18}
  BY <1>3, Versions3 DEF SessionInv
<1>5. v \in Nat /\ m \in Msgs /\ m.type = "REQUEST" /\ m.value = v
  BY DEF SessionInv, SessionTypes, Msg, Msgs, Types
<1>6. RemoteControl(f) = Control(e)
  BY <1>1, TheControls
<1>7. Parity(e, v)
  <2>1. v \in Values(e, "reserved")
    BY <1>3 DEF Values
  <2>. QED  BY <2>1 DEF NumbersInv, MessagesInv, OwnIds
<1>8. s \in Streams /\ MayBeSent(f, s, m)
  <2>1. CASE version = 16
    <3>1. s = Control(e)
      BY <1>2, <2>1 DEF RequestStreams
    <3>. QED  BY <1>1, <1>5, <1>6, <1>7, <2>1, <3>1, TheStreams DEF MayBeSent
  <2>2. CASE version # 16
    <3>1. PICK k \in 1 .. MaxCalls[e] : s = <<e, k>>
      BY <1>2, <2>2 DEF RequestStreams
    <3>2. s \in Streams /\ k # 0 /\ k # MaxCalls[e] + 1
      BY <3>1, TheStreams
    <3>3. Bidirectional(s)
      BY <3>1, <3>2 DEF Bidirectional, DataStream
    <3>4. s # RemoteControl(f)
      BY <1>6, <3>1, <3>2 DEF Control
    <3>. QED  BY <1>1, <1>4, <1>5, <1>7, <2>2, <3>2, <3>3, <3>4 DEF MayBeSent
  <2>. QED  BY <2>1, <2>2
<1>9. pc'[f] = pc[f]
  BY <1>1, <1>3, ThreadGoes
<1>10. Values(e, "has_id")' \subseteq Values(e, "has_id") /\ Values(e, "reserved")' \subseteq Values(e, "reserved")
  BY <1>3, ThreadValues
<1>11. Live(e) /\ moq[e].state # "none"
  <2>1. Unborn(e) /\ moq[e] \in Context
    BY DEF NumbersInv, MessagesInv, SessionInv, SessionTypes
  <2>2. moq[e].state # "none" /\ moq[e].state # "gone"
    BY <1>3, <2>1 DEF Unborn, Running
  <2>. QED  BY <2>1, <2>2 DEF Live, Context
<1>12. Works /\ \A x \in Ends : Live(x)' = Live(x)
  BY <1>3 DEF Works, NumbersInv, StreamInv, Live
<1> HIDE DEF m, v
<1>13. /\ StreamInv' /\ MessagesInv' /\ Adds(f, s, m)
       /\ \A x \in Ends : /\ RemoteControl(x)' = RemoteControl(x)
                          /\ Read(x, RemoteControl(x))' = Read(x, RemoteControl(x))
       /\ \A k : Values(f, k)' = Values(f, k)
  BY <1>1, <1>2, <1>3, <1>5, <1>8, <1>9, <1>10, <1>11, <1>12, SentMessages
<1>14. ASSUME version = 16 PROVE Told16'
  <2> DEFINE q == Sent(f, RemoteControl(f))
             n == Read(f, RemoteControl(f))
             limit == moq[f].local
             next == moq[e].next
             expected == moq[f].expected
             first == FirstId(e)
  <2>1. s = Control(e)
    BY <1>2, <1>14 DEF RequestStreams
  <2>2. /\ Values(e, "reserved") = {v} /\ Values(e, "has_id") = {} /\ Values(e, "raised") = {}
        /\ Values(e, "reserved")' = {} /\ Values(e, "has_id")' = {} /\ Values(e, "raised")' = {}
    BY <1>3, <1>14, AloneValues, AloneGoes DEF v
  <2>3. /\ InRow(q, first, limit) /\ Issues(q, first, next, limit, {}, {v}, Live(e))
        /\ Live(f) => Expects(q, n, first, expected)
    BY <1>1, <1>14, <2>2 DEF NumbersInv, Told16, Ids16
  <2>4. v + 2 = next /\ v < limit /\ q # <<>> /\ NextId(q, Len(q), first, v)
    BY <1>11, <2>3 DEF Issues
  <2>5. Grown(q, q', m)
    BY <1>6, <1>13, <2>1 DEF Adds
  <2>6. RemoteControl(f) \in Streams /\ limit \in Nat /\ expected \in Nat /\ first \in Nat
    BY TheControls, FirstIds, <1>1 DEF SessionInv, SessionTypes, Context
  <2>7. q \in Seq(Msgs) /\ n \in Nat /\ n <= Len(q) /\ n' = n
    BY <1>13, <2>6, SentTypes DEF NumbersInv
  <2>8. limit' = limit /\ next' = next /\ expected' = expected
    BY <1>3
  <2>9. Started(e)
    BY <1>1, <1>6, <2>4 DEF Started
  <2>10. m.type # SetupOf(e) /\ m.type \notin LimitTypes
    BY <1>5 DEF SetupOf, LimitTypes
  <2>11. Limits16(f)'
    BY <1>1, <1>3, <1>4, <1>5, <1>13, <1>14, <2>1, <2>2, <2>4, <2>10, LimitsSent
  <2>12. Ids16(f)'
    <3> HIDE DEF q, n, limit, next, expected, first
    <3>1. InRow(q', first, limit) /\ NextId(q', Len(q'), first, v + 2)
      BY <1>5, <2>3, <2>4, <2>5, <2>6, RowGrown
    <3>2. Issues(q', first, next, limit, {}, {}, Live(e))
      BY <2>4, <3>1 DEF Issues
    <3>3. Live(f) => Expects(q', n, first, expected)
      BY <1>5, <2>3, <2>4, <2>5, <2>6, <2>7, ExpectsGrown
    <3>. QED  BY <1>1, <1>12, <2>2, <2>7, <2>8, <3>1, <3>2, <3>3 DEF Ids16, q, n, limit, next, expected, first, FirstId
  <2>. QED  BY <1>1, <1>3, <1>4, <1>5, <1>13, <1>14, <2>1, <2>9, <2>11, <2>12, ToldSent
<1>. QED  BY <1>4, <1>13, <1>14 DEF NumbersInv

-----------------------------------------------------------------------------
(* The session is set up.                                                    *)

\* What the first message of version 16 says.
LEMMA FirstSent ==
    ASSUME SessionInv, NumbersInv, version = 16, NEW e \in Ends, NEW f \in Ends, f = Peer(e), NEW m \in Msgs,
           Sent(f, RemoteControl(f)) = <<>>, m.type = SetupOf(e), m.value = moq[e].local, Live(e), Live(e)',
           Adds(f, Control(e), m), version' = version, Read(f, RemoteControl(f))' = Read(f, RemoteControl(f)),
           moq'[f] = moq[f], moq'[e].local = moq[e].local, moq'[e].connected = moq[e].connected,
           moq'[e].next = moq[e].next, pc' = pc
    PROVE  Limits16(f)' /\ Ids16(f)'
<1>1. /\ \A x \in Ends : \A k : Values(x, k)' = Values(x, k)
      /\ Live(f)' = Live(f) /\ Live(e)' = Live(e) /\ moq'[f].max = moq[f].max
  BY DEF Values, Live
<1>2. RemoteControl(f) = Control(e) /\ Peer(f) = e
  BY TheEnds, TheControls
<1>3. Values(e, "raised") = {} /\ moq[e].local > 0
  <2>1. Phases /\ Announces(Sent(f, RemoteControl(f)), moq[e].local, Values(e, "raised"), moq[e].connected, SetupOf(e))
    BY <1>2 DEF NumbersInv, Told16, Limits16
  <2>2. ~Started(e)
    BY <1>2 DEF Started
  <2>3. ~moq[e].connected /\ moq[e].local > 0
    BY <2>1, <2>2 DEF Phases
  <2>. QED  BY <2>1, <2>3 DEF Announces
<1>4. m.type \in LimitTypes /\ LimitIn(m) = moq[e].local /\ m.type # "REQUEST"
  BY DEF SetupOf, LimitTypes, LimitIn
<1>5. \A i \in Of(Sent(f, RemoteControl(f)), LimitTypes) : LimitIn(Sent(f, RemoteControl(f))[i]) < moq[e].local
  BY DEF Of
<1>6. Values(e, "raised")' = {}
  BY <1>1, <1>3
<1>7. Limits16(f)'
  BY <1>1, <1>3, <1>4, <1>5, <1>6, LimitsSent
<1>8. Ids16(f)'
  BY <1>1, <1>4, IdsSent
<1>. QED  BY <1>7, <1>8

\* The first message of an end was sent.
LEMMA NowStarted ==
    ASSUME SessionInv, NumbersInv, version = 16, version' = version, NEW e \in Ends, NEW f \in Ends, f = Peer(e), NEW m \in Msgs,
           Adds(f, Control(e), m)
    PROVE  Started(e)' /\ Started(f)' = Started(f)
<1>1. RemoteControl(f) = Control(e) /\ RemoteControl(e) = Control(f) /\ Peer(f) = e
  BY TheEnds, TheControls
<1>2. Control(e)' = Control(e) /\ RemoteControl(f)' = RemoteControl(f) /\ Control(f)' = Control(f) /\ RemoteControl(e)' = RemoteControl(e)
  BY SameVersion
<1>3. Grown(Sent(f, RemoteControl(f)), Sent(f, RemoteControl(f))', m)
      /\ Sent(e, RemoteControl(e))' = Sent(e, RemoteControl(e))
  BY <1>1 DEF Adds
<1>4. Sent(f, RemoteControl(f))' # <<>>
  <2> DEFINE r == Sent(f, RemoteControl(f))'
  <2>1. r \in Seq(Msgs) /\ Len(r) # 0
    BY <1>3 DEF Grown
  <2> HIDE DEF r
  <2>2. r # <<>>
    BY <2>1, EmptySeq
  <2>. QED  BY <2>2 DEF r
<1>5. Sent(f, Control(e))' # <<>>
  BY <1>1, <1>2, <1>4 DEF Sent
<1>6. Sent(e, Control(f))' = Sent(e, Control(f))
  <2>1. Sent(e, Control(f))' = Sent(e, RemoteControl(e))'
    BY <1>1, <1>2 DEF Sent
  <2>. QED  BY <1>1, <1>3, <2>1
<1>. QED  BY <1>1, <1>5, <1>6 DEF Started

LEMMA SendSetupNumbers ==
    ASSUME SessionInv, NumbersInv, NEW e \in Ends, SendSetup(e)
    PROVE  NumbersInv'
<1> DEFINE m == Msg("SETUP", moq[e].local)
<1>1. PICK f \in Ends, s \in Streams : f = Peer(e) /\ s = Control(e) /\ Peer(f) = e /\ f # e /\ RemoteControl(f) = s
  BY TheEnds, TheStreams, TheControls
<1>2. /\ UNCHANGED <<version, verdict, pc, closed, parsed, buffer>> /\ loop[e].pc = "opening"
      /\ loop' = [loop EXCEPT ![e] = Loop("replay", Control(e))] /\ moq' = [moq EXCEPT ![e].state = "up"]
      /\ loop \in [Ends -> [pc : Stages, stream : Streams]] /\ moq \in [Ends -> Context]
      /\ IF version = 16 /\ e = "server" THEN UNCHANGED <<wire, written>> ELSE Send(e, s, m)
  BY <1>1 DEF SendSetup, SessionInv, SessionTypes
<1>3. /\ loop'[e].pc = "replay" /\ loop'[f] = loop[f] /\ moq'[f] = moq[f]
      /\ Numbers(e)' = Numbers(e) /\ moq'[e].state = "up" /\ moq'[e].connected = moq[e].connected
  BY <1>1, <1>2 DEF Loop, Numbers, Context
<1>4. moq[e].state = "new"
  BY <1>2 DEF SessionInv, EndInv, Stage
<1>5. Works
  BY <1>1, <1>2, <1>3, WorksWhen
<1>6. CASE version = 16 /\ e = "server"
  <2>1. Steady(e)
    BY <1>3, <1>4, <1>6 DEF Steady
  <2>2. Steady(f)
    BY <1>2, <1>3, SteadyAlone
  <2>3. \A x \in Ends : Steady(x)
    BY <1>1, <2>1, <2>2, TheEnds
  <2>4. UNCHANGED <<version, verdict, pc, closed, written, parsed, buffer>>
    BY <1>2, <1>6
  <2>. QED  BY <1>5, <2>3, <2>4, LoopNumbers
<1>7. CASE ~(version = 16 /\ e = "server")
  <2>1. Send(e, s, m)
    BY <1>2, <1>7
  <2>2. version' = version /\ version \in {16, 17, 18}
    BY <1>2, Versions3 DEF SessionInv
  <2>3. m \in Msgs /\ m.type = "SETUP" /\ m.value = moq[e].local
    BY <1>2 DEF Context, Msg, Msgs, Types
  <2>4. version = 16 => m.type = SetupOf(e) /\ e = "client"
    BY <1>7, <2>3 DEF SetupOf, Ends
  <2>5. MayBeSent(f, s, m)
    BY <1>1, <2>2, <2>3, <2>4 DEF MayBeSent
  <2>6. /\ moq'[e].goaway = moq[e].goaway /\ moq'[e].next = moq[e].next /\ moq'[e].local = moq[e].local
        /\ moq'[e].expected = moq[e].expected /\ moq'[e].max = moq[e].max
    BY <1>3 DEF Numbers
  <2>7. Live(e) /\ Live(e)'
    BY <1>3, <1>4 DEF Live
  <2>8. /\ \A k : Values(e, k)' = Values(e, k) /\ Values(f, k)' = Values(f, k)
        /\ pc'[f] = pc[f] /\ Live(f)' = Live(f)
    BY <1>2, <1>3 DEF Values, Live
  <2> HIDE DEF m
  <2>9. /\ StreamInv' /\ MessagesInv' /\ Adds(f, s, m)
        /\ \A x \in Ends : /\ RemoteControl(x)' = RemoteControl(x)
                           /\ Read(x, RemoteControl(x))' = Read(x, RemoteControl(x))
    BY <1>1, <1>2, <1>3, <1>5, <2>1, <2>3, <2>5, <2>6, <2>7, <2>8, SentMessages
  <2>10. ASSUME version = 16 PROVE Told16'
    <3>1. Phases /\ Limits16(e) /\ Ids16(e) /\ e = "client" /\ f = "server"
      BY <1>1, <2>4, <2>10 DEF NumbersInv, Told16, Peer
    <3>2. Sent(f, RemoteControl(f)) = <<>>
      BY <1>1, <1>4, <3>1 DEF Phases, Started
    <3>3. Limits16(f)' /\ Ids16(f)'
      BY <1>1, <1>2, <1>3, <2>2, <2>3, <2>4, <2>6, <2>7, <2>9, <2>10, <3>2, FirstSent
    <3>4. Started(e)' /\ Started(f)' = Started(f)
      BY <1>1, <2>2, <2>3, <2>9, <2>10, NowStarted
    <3>5. Sent(e, RemoteControl(e))' = Sent(e, RemoteControl(e))
      BY <1>1, <2>9 DEF Adds
    <3>6. Limits16(e)' /\ Ids16(e)'
      <4>1. Limits16(e)'
        BY <1>1, <1>3, <2>2, <2>6, <2>8, <2>9, <3>1, <3>5, LimitsSame
      <4>2. Ids16(e)'
        BY <1>1, <1>3, <2>2, <2>6, <2>7, <2>8, <2>9, <3>1, <3>5, IdsSame
      <4>. QED  BY <4>1, <4>2
    <3>7. Read("server", Control("server"))' = Read("server", Control("server"))
      <4>1. Control(f)' = Control(f)
        BY <2>2, SameVersion
      <4>. QED  BY <1>2, <3>1, <4>1 DEF Read
    <3>8. Phases'
      <4>1. ASSUME NEW x \in Ends
            PROVE  /\ loop'[x].pc = "accepted" \/ moq'[x].connected \/ (moq'[x].max > 0 /\ closed'[x] = "open") => Started(x)'
                   /\ Live(x)' => moq'[x].local > 0
        <5>1. /\ loop[x].pc = "accepted" \/ moq[x].connected \/ (moq[x].max > 0 /\ closed[x] = "open") => Started(x)
              /\ Live(x) => moq[x].local > 0
          BY <3>1 DEF Phases
        <5>2. CASE x = e
          BY <2>6, <2>7, <3>4, <5>1, <5>2
        <5>3. CASE x = f
          BY <1>2, <1>3, <2>8, <3>4, <5>1, <5>3
        <5>. QED  BY <1>1, <5>2, <5>3, TheEnds
      <4>2. Started("server")' => Read("server", Control("server"))' > 0
        BY <3>1, <3>4, <3>7 DEF Phases
      <4>3. moq'["client"].state = "up" /\ Started("client")'
        BY <1>3, <3>1, <3>4
      <4>. QED  BY <4>1, <4>2, <4>3 DEF Phases
    <3>. QED  BY <1>1, <3>3, <3>6, <3>8, TheEnds DEF Told16
  <2>. QED  BY <2>2, <2>9, <2>10 DEF NumbersInv
<1>. QED  BY <1>6, <1>7

-----------------------------------------------------------------------------
(* The messages are heeded.                                                  *)

\* What the message m, that is not refused, does to the numbers of end e.
Heeds(e, m) ==
    /\ moq'[Peer(e)] = moq[Peer(e)] /\ moq'[e].state = moq[e].state
    /\ moq'[e].next = moq[e].next /\ moq'[e].local = moq[e].local
    /\ moq'[e].goaway => moq[e].goaway \/ m.type = "GOAWAY"
    /\ moq[e].connected => moq'[e].connected
    /\ version = 16 => /\ moq'[e].max = IF m.type \in LimitTypes THEN LimitIn(m) ELSE moq[e].max
                       /\ moq'[e].expected = IF m.type = "REQUEST" THEN m.value + 2 ELSE moq[e].expected
                       /\ moq'[e].connected => moq[e].connected \/ m.type = "SERVER_SETUP"

\* What the end does about it.
Passes == UNCHANGED <<wire, written, closed, loop>>
Rejects(e, m) ==
    /\ version = 16 /\ m.type = "SETUP" /\ verdict > 0 /\ UNCHANGED <<wire, written, loop>>
    /\ closed'[e] = "rejected" /\ closed'[Peer(e)] = closed[Peer(e)]
Accepts(e, m) ==
    /\ version = 16 /\ m.type = "SETUP" /\ e = "server" /\ UNCHANGED closed
    /\ Send(e, Control(e), Msg("SERVER_SETUP", moq[e].local)) /\ moq'[e].connected = moq[e].connected
    /\ loop'[e].pc = "accepted" /\ loop'[e].stream = loop[e].stream /\ loop'[Peer(e)] = loop[Peer(e)]
Answers(e, m) ==
    \/ Passes /\ (version = 16 => m.type # "SETUP")
    \/ Rejects(e, m) \/ Accepts(e, m)

LEMMA HeedsTold ==
    ASSUME NEW e \in Ends, NEW m \in Msgs, Told, m.type \in {"OBJECT", "REQUESTS_BLOCKED"}
    PROVE  Heeds(e, m) /\ Passes
BY DEF Told, Heeds, Passes, LimitTypes

LEMMA HeedsClientSetup ==
    ASSUME SessionInv, version = 16, NEW e \in Ends, e = "server", NEW m \in Msgs, m.type = "SETUP", m.value > 0,
           ParseClientSetup(e, m)
    PROVE  Heeds(e, m) /\ (Rejects(e, m) \/ Accepts(e, m))
<1>1. Peer(e) \in Ends /\ Peer(e) # e /\ moq \in [Ends -> Context] /\ loop \in [Ends -> [pc : Stages, stream : Streams]]
      /\ closed \in [Ends -> Reasons]
  BY TheEnds DEF SessionInv, SessionTypes, Reasons
<1>2. LimitOf(m, moq[e].max) = m.value /\ LimitIn(m) = m.value /\ m.type \in LimitTypes
  BY DEF LimitOf, LimitIn, LimitTypes
<1>3. /\ moq' = [moq EXCEPT ![e].max = m.value]
      /\ IF verdict > 0
         THEN Close(e, "rejected") /\ UNCHANGED <<loop, wire, written>>
         ELSE /\ Send(e, Control(e), Msg("SERVER_SETUP", moq[e].local))
              /\ loop' = [loop EXCEPT ![e].pc = "accepted"] /\ UNCHANGED closed
  BY <1>2 DEF ParseClientSetup
<1>4. /\ moq'[Peer(e)] = moq[Peer(e)] /\ moq'[e].state = moq[e].state /\ moq'[e].next = moq[e].next
      /\ moq'[e].local = moq[e].local /\ moq'[e].goaway = moq[e].goaway /\ moq'[e].connected = moq[e].connected
      /\ moq'[e].max = m.value /\ moq'[e].expected = moq[e].expected
  BY <1>1, <1>3 DEF Context
<1>5. Heeds(e, m)
  BY <1>2, <1>4 DEF Heeds
<1>6. CASE verdict > 0
  BY <1>1, <1>3, <1>5, <1>6 DEF Rejects, Close
<1>7. CASE ~(verdict > 0)
  <2>1. loop'[e].pc = "accepted" /\ loop'[e].stream = loop[e].stream /\ loop'[Peer(e)] = loop[Peer(e)]
    BY <1>1, <1>3, <1>7
  <2>. QED  BY <1>3, <1>4, <1>5, <1>7, <2>1 DEF Accepts
<1>. QED  BY <1>6, <1>7

LEMMA HeedsServerSetup ==
    ASSUME SessionInv, version = 16, NEW e \in Ends, e # "server", NEW m \in Msgs, m.type = "SERVER_SETUP", m.value > 0,
           ParseServerSetup(e, m)
    PROVE  Heeds(e, m) /\ Passes
<1>1. Peer(e) \in Ends /\ Peer(e) # e /\ moq \in [Ends -> Context]
  BY TheEnds DEF SessionInv, SessionTypes
<1>2. LimitOf(m, moq[e].max) = m.value /\ LimitIn(m) = m.value /\ m.type \in LimitTypes
  BY DEF LimitOf, LimitIn, LimitTypes
<1>3. moq' = [moq EXCEPT ![e].max = m.value, ![e].connected = TRUE] /\ UNCHANGED <<closed, loop, wire, written>>
  BY <1>2 DEF ParseServerSetup
<1>4. /\ moq'[Peer(e)] = moq[Peer(e)] /\ moq'[e].state = moq[e].state /\ moq'[e].next = moq[e].next
      /\ moq'[e].local = moq[e].local /\ moq'[e].goaway = moq[e].goaway /\ moq'[e].connected = TRUE
      /\ moq'[e].max = m.value /\ moq'[e].expected = moq[e].expected
  BY <1>1, <1>3 DEF Context
<1>. QED  BY <1>2, <1>3, <1>4 DEF Heeds, Passes

LEMMA HeedsSetup ==
    ASSUME SessionInv, version >= 17, NEW e \in Ends, NEW m \in Msgs, m.type = "SETUP", ParseSetup(e, m)
    PROVE  Heeds(e, m) /\ Passes
<1>1. Peer(e) \in Ends /\ Peer(e) # e /\ moq \in [Ends -> Context] /\ version # 16
  BY TheEnds DEF SessionInv, SessionTypes
<1> DEFINE max == LimitOf(Msg("SETUP", 0), moq[e].max)
           connected == moq[e].connected \/ moq[e].sent
           check == moq[e].check \/ moq[e].sent
           r == [moq[e] EXCEPT !.max = max, !.recvd = TRUE, !.connected = connected, !.check = check]
<1>2. moq' = [moq EXCEPT ![e] = r] /\ UNCHANGED <<closed, loop, wire, written>>
  BY <1>1 DEF ParseSetup, Context
<1>3. /\ r.state = moq[e].state /\ r.next = moq[e].next /\ r.local = moq[e].local /\ r.goaway = moq[e].goaway
      /\ moq[e].connected => r.connected
  BY <1>1 DEF Context
<1> HIDE DEF r
<1>4. moq'[Peer(e)] = moq[Peer(e)] /\ moq'[e] = r
  BY <1>1, <1>2
<1>. QED  BY <1>1, <1>2, <1>3, <1>4 DEF Heeds, Passes

LEMMA HeedsMaxRequestId ==
    ASSUME SessionInv, version = 16, NEW e \in Ends, NEW m \in Msgs, m.type = "MAX_REQUEST_ID", moq[e].max < m.value + 1,
           ParseMaxRequestId(e, m)
    PROVE  Heeds(e, m) /\ Passes
<1>1. Peer(e) \in Ends /\ Peer(e) # e /\ moq \in [Ends -> Context]
  BY TheEnds DEF SessionInv, SessionTypes
<1>2. LimitIn(m) = m.value + 1 /\ m.type \in LimitTypes
  BY DEF LimitIn, LimitTypes
<1>3. moq' = [moq EXCEPT ![e].max = m.value + 1] /\ UNCHANGED <<closed, loop, wire, written>>
  <2>1. m.value \in Nat /\ moq[e].max \in Nat
    BY <1>1 DEF Msgs, Context
  <2>2. ~(m.value + 1 <= moq[e].max)
    BY <2>1
  <2>. QED  BY <2>2 DEF ParseMaxRequestId
<1>4. /\ moq'[Peer(e)] = moq[Peer(e)] /\ moq'[e].state = moq[e].state /\ moq'[e].next = moq[e].next
      /\ moq'[e].local = moq[e].local /\ moq'[e].goaway = moq[e].goaway /\ moq'[e].connected = moq[e].connected
      /\ moq'[e].max = m.value + 1 /\ moq'[e].expected = moq[e].expected
  BY <1>1, <1>3 DEF Context
<1>. QED  BY <1>2, <1>3, <1>4 DEF Heeds, Passes

LEMMA HeedsGoaway ==
    ASSUME SessionInv, version # 18, NEW e \in Ends, NEW m \in Msgs, m.type = "GOAWAY", ~moq[e].goaway, ParseGoaway(e, m)
    PROVE  Heeds(e, m) /\ Passes
<1>1. Peer(e) \in Ends /\ Peer(e) # e /\ moq \in [Ends -> Context]
  BY TheEnds DEF SessionInv, SessionTypes
<1>2. moq' = [moq EXCEPT ![e].goaway = TRUE, ![e].expected = moq[e].expected] /\ UNCHANGED <<closed, loop, wire, written>>
  BY DEF ParseGoaway
<1> DEFINE r == [moq[e] EXCEPT !.goaway = TRUE, !.expected = moq[e].expected]
<1>3. moq' = [moq EXCEPT ![e] = r]
  BY <1>1, <1>2 DEF Context
<1>4. /\ r.state = moq[e].state /\ r.next = moq[e].next /\ r.local = moq[e].local /\ r.max = moq[e].max
      /\ r.connected = moq[e].connected /\ r.expected = moq[e].expected
  BY <1>1 DEF Context
<1> HIDE DEF r
<1>5. moq'[Peer(e)] = moq[Peer(e)] /\ moq'[e] = r
  BY <1>1, <1>3
<1>. QED  BY <1>2, <1>4, <1>5 DEF Heeds, Passes, LimitTypes

LEMMA HeedsRequest ==
    ASSUME SessionInv, NEW e \in Ends, NEW m \in Msgs, m.type = "REQUEST", IncomingValid(e, m.value), ParseRequest(e, m)
    PROVE  Heeds(e, m) /\ Passes
<1>1. Peer(e) \in Ends /\ Peer(e) # e /\ moq \in [Ends -> Context]
  BY TheEnds DEF SessionInv, SessionTypes
<1>2. moq' = [moq EXCEPT ![e].expected = m.value + 2] /\ UNCHANGED <<closed, loop, wire, written>>
  BY DEF ParseRequest
<1>3. /\ moq'[Peer(e)] = moq[Peer(e)] /\ moq'[e].state = moq[e].state /\ moq'[e].next = moq[e].next
      /\ moq'[e].local = moq[e].local /\ moq'[e].goaway = moq[e].goaway /\ moq'[e].connected = moq[e].connected
      /\ moq'[e].max = moq[e].max /\ moq'[e].expected = m.value + 2
  BY <1>1, <1>2 DEF Context
<1>. QED  BY <1>2, <1>3 DEF Heeds, Passes, LimitTypes

\* The message that is handled.
LEMMA TheMessage ==
    ASSUME SessionInv, NumbersInv, NEW e \in Ends, Parse(e), NEW s, s = loop[e].stream, NEW m, m = buffer[e][s][1][1]
    PROVE  /\ s \in Streams /\ m \in Msgs /\ MayBeSent(e, s, m) /\ moq[e].state = "up" /\ Live(e) /\ closed[e] = "open"
           /\ Sent(e, s) \in Seq(Msgs) /\ Read(e, s) \in Nat
           /\ Read(e, s) + 1 \in 1 .. Len(Sent(e, s)) /\ m = Sent(e, s)[Read(e, s) + 1]
<1> DEFINE n == Read(e, s) + 1
<1>1. StreamInv /\ Sendable
  BY DEF NumbersInv, MessagesInv
<1>2. s \in Streams /\ n \in 1 .. Len(Sent(e, s)) /\ m = Sent(e, s)[n]
  BY <1>1, ReadStreams
<1>3. Sent(e, s) \in Seq(Msgs) /\ Read(e, s) \in Nat
  BY <1>1, <1>2, SentTypes
<1>4. m \in Msgs
  BY <1>2, <1>3, ElementOfSeq
<1>5. MayBeSent(e, s, m)
  BY <1>1, <1>2 DEF Sendable
<1>6. closed[e] = "open" /\ moq[e].state # "gone" /\ loop[e].pc = "parsing"
  BY DEF Parse, Running
<1>7. moq[e].state = "up"
  <2>1. Stage(e) /\ moq[e] \in Context
    BY DEF SessionInv, SessionTypes, EndInv
  <2>. QED  BY <1>6, <2>1 DEF Stage, Context
<1>. QED  BY <1>2, <1>3, <1>4, <1>5, <1>6, <1>7 DEF Live

\* Nothing is refused.
LEMMA Heeded ==
    ASSUME SessionInv, NumbersInv, NEW e \in Ends, Parse(e), NEW s, s = loop[e].stream, NEW m, m = buffer[e][s][1][1]
    PROVE  Heeds(e, m) /\ Answers(e, m)
<1> DEFINE q == Sent(e, s)
           n == Read(e, s)
<1>1. /\ s \in Streams /\ m \in Msgs /\ MayBeSent(e, s, m) /\ Live(e)
      /\ q \in Seq(Msgs) /\ n \in Nat /\ n + 1 \in 1 .. Len(q) /\ m = q[n + 1]
  BY TheMessage
<1>2. IF m.type = "REQUEST" /\ (s # RemoteControl(e) \/ version = 16)
      THEN ParseRequest(e, m)
      ELSE IF s = RemoteControl(e) THEN ControlMessage(e, m) ELSE Told
  BY DEF Parse
<1>3. version \in {16, 17, 18} /\ Peer(e) \in Ends /\ Peer(e) # e /\ Peer(Peer(e)) = e
  BY Versions3, TheEnds DEF SessionInv
<1>4. ASSUME version = 16, s = RemoteControl(e)
      PROVE  /\ m.type \in LimitTypes => moq[e].max < LimitIn(m) /\ 0 < LimitIn(m)
             /\ m.type = "REQUEST" => m.value = moq[e].expected /\ m.value < moq[e].local
  <2> DEFINE f == Peer(e)
             max == moq[e].max
             sent == moq[f].local
             local == moq[e].local
             expected == moq[e].expected
  <2>1. max \in Nat /\ sent \in Nat /\ local \in Nat /\ expected \in Nat /\ FirstId(f) \in Nat
    BY <1>3, FirstIds DEF SessionInv, SessionTypes, Context
  <2>2. Chain(q, n, max, sent) /\ InRow(q, FirstId(f), local) /\ Expects(q, n, FirstId(f), expected)
    BY <1>1, <1>4 DEF NumbersInv, Told16, Limits16, Ids16
  <2> HIDE DEF q, n, f, max, sent, local, expected
  <2>3. m.type \in LimitTypes => max < LimitIn(m) /\ 0 < LimitIn(m)
    BY <1>1, <2>1, <2>2, ChainRead
  <2>4. m.type = "REQUEST" => m.value = expected /\ expected < local
    BY <1>1, <2>1, <2>2, ExpectsRead
  <2>. QED  BY <2>3, <2>4 DEF max, local, expected
<1>5. ASSUME m.type = "GOAWAY" PROVE s = RemoteControl(e) /\ version # 18 /\ ~moq[e].goaway
  <2>1. s = RemoteControl(e) /\ version # 18
    BY <1>1, <1>3, <1>5 DEF MayBeSent
  <2>2. GoawayOnce(q, n, moq[e].goaway)
    BY <2>1 DEF NumbersInv, MessagesInv, Goaways
  <2> HIDE DEF q, n
  <2>3. ~moq[e].goaway
    BY <1>1, <1>5, <2>2, GoawayRead
  <2>. QED  BY <2>1, <2>3
<1>6. CASE m.type = "REQUEST"
  <2>1. Parity(Peer(e), m.value) /\ (version = 16 => s = RemoteControl(e)) /\ (version # 16 => s # RemoteControl(e))
    BY <1>1, <1>3, <1>6 DEF MayBeSent, SetupOf
  <2>2. ParseRequest(e, m)
    BY <1>2, <1>6, <2>1
  <2>3. ~Parity(e, m.value)
    <3>1. m.value \in Nat
      BY <1>1 DEF Msgs
    <3>2. (Peer(e) = "server") <=> (e # "server")
      BY <1>3 DEF Ends
    <3>. QED  BY <2>1, <3>1, <3>2 DEF Parity
  <2>4. IncomingValid(e, m.value)
    BY <1>4, <1>6, <2>1, <2>3 DEF IncomingValid
  <2>. QED  BY <1>1, <1>6, <2>2, <2>4, HeedsRequest DEF Answers
<1>7. CASE m.type = "OBJECT"
  <2>1. s = DataStream(Peer(e))
    BY <1>1, <1>7 DEF MayBeSent, SetupOf
  <2>2. s # RemoteControl(e)
    BY <1>3, <2>1, TheStreams DEF RemoteControl
  <2>3. Told
    BY <1>2, <1>7, <2>2
  <2>. QED  BY <1>1, <1>7, <2>3, HeedsTold DEF Answers
<1>8. CASE m.type \notin {"REQUEST", "OBJECT"}
  <2>1. s = RemoteControl(e)
    BY <1>1, <1>8 DEF MayBeSent
  <2>2. ControlMessage(e, m)
    BY <1>2, <1>8, <2>1
  <2>3. CASE m.type = "SETUP" /\ version = 16
    <3>1. e = "server" /\ m.value > 0
      <4>1. SetupOf(Peer(e)) = "SETUP"
        BY <1>1, <2>1, <2>3, <1>3, TheStreams DEF MayBeSent
      <4>2. e = "server"
        BY <1>3, <4>1 DEF SetupOf, Ends
      <4>3. m.type \in LimitTypes /\ LimitIn(m) = m.value
        BY <2>3 DEF LimitTypes, LimitIn
      <4>. QED  BY <1>4, <2>1, <2>3, <4>2, <4>3
    <3>2. ParseClientSetup(e, m)
      BY <2>2, <2>3 DEF ControlMessage
    <3>. QED  BY <1>1, <2>3, <3>1, <3>2, HeedsClientSetup DEF Answers
  <2>4. CASE m.type = "SERVER_SETUP"
    <3>1. version = 16
      BY <1>1, <1>3, <2>1, <2>4, TheStreams DEF MayBeSent
    <3>2. e # "server" /\ m.value > 0
      <4>1. SetupOf(Peer(e)) = "SERVER_SETUP"
        BY <1>1, <2>1, <2>4, <3>1, <1>3, TheStreams DEF MayBeSent
      <4>2. e # "server"
        BY <1>3, <4>1 DEF SetupOf, Ends
      <4>3. m.type \in LimitTypes /\ LimitIn(m) = m.value
        BY <2>4 DEF LimitTypes, LimitIn
      <4>. QED  BY <1>4, <2>1, <3>1, <4>2, <4>3
    <3>3. ParseServerSetup(e, m)
      BY <2>2, <2>4, <3>1 DEF ControlMessage
    <3>. QED  BY <1>1, <2>4, <3>1, <3>2, <3>3, HeedsServerSetup DEF Answers
  <2>5. CASE m.type = "SETUP" /\ version # 16
    <3>1. version >= 17
      BY <1>3, <2>5
    <3>2. ParseSetup(e, m)
      BY <2>2, <2>5, <3>1 DEF ControlMessage
    <3>. QED  BY <1>1, <2>5, <3>1, <3>2, HeedsSetup DEF Answers
  <2>6. CASE m.type = "MAX_REQUEST_ID"
    <3>1. version = 16
      BY <1>1, <1>3, <2>1, <2>6, TheStreams DEF MayBeSent
    <3>2. moq[e].max < m.value + 1
      <4>1. m.type \in LimitTypes /\ LimitIn(m) = m.value + 1
        BY <2>6 DEF LimitTypes, LimitIn
      <4>. QED  BY <1>4, <2>1, <3>1, <4>1
    <3>3. ParseMaxRequestId(e, m)
      BY <2>2, <2>6, <3>1 DEF ControlMessage
    <3>. QED  BY <1>1, <2>6, <3>1, <3>2, <3>3, HeedsMaxRequestId DEF Answers
  <2>7. CASE m.type = "REQUESTS_BLOCKED"
    <3>1. version = 16
      BY <1>1, <1>3, <2>1, <2>7, TheStreams DEF MayBeSent
    <3>2. Told
      BY <2>2, <2>7, <3>1 DEF ControlMessage
    <3>. QED  BY <1>1, <2>7, <3>2, HeedsTold DEF Answers
  <2>8. CASE m.type = "GOAWAY"
    <3>1. ParseGoaway(e, m)
      BY <2>2, <2>8 DEF ControlMessage
    <3>. QED  BY <1>1, <1>5, <2>8, <3>1, HeedsGoaway DEF Answers
  <2>. QED  BY <1>1, <1>8, <2>3, <2>4, <2>5, <2>6, <2>7, <2>8 DEF Msgs, Types
<1>. QED  BY <1>6, <1>7, <1>8

\* What was sent and read when the message has been handled.
LEMMA Parsed ==
    ASSUME SessionInv, NumbersInv, NEW e \in Ends, NEW f \in Ends, f = Peer(e), Parse(e), NEW s, s = loop[e].stream,
           NEW m, m = buffer[e][s][1][1], Answers(e, m), NEW x, x = Msg("SERVER_SETUP", moq[e].local)
    PROVE  /\ StreamInv' /\ x \in Msgs
           /\ UNCHANGED <<version, verdict, pc, parsed>>
           /\ \A g \in Ends : RemoteControl(g)' = RemoteControl(g) /\ Control(g)' = Control(g)
           /\ Sent(e, RemoteControl(e))' = Sent(e, RemoteControl(e))
           /\ Read(f, RemoteControl(f))' = Read(f, RemoteControl(f))
           /\ s = RemoteControl(e) => Read(e, RemoteControl(e))' = Read(e, RemoteControl(e)) + 1
           /\ s # RemoteControl(e) => Read(e, RemoteControl(e))' = Read(e, RemoteControl(e))
           /\ Passes \/ Rejects(e, m) => Silent /\ Sent(f, RemoteControl(f))' = Sent(f, RemoteControl(f))
           /\ Accepts(e, m) => Wrote(f, Control(e), x) /\ Adds(f, Control(e), x)
<1>1. StreamInv /\ Peer(f) = e /\ f # e
  BY TheEnds DEF NumbersInv
<1>2. UNCHANGED <<version, verdict, pc, parsed>> /\ version' = version
  BY DEF Parse
<1>3. StreamInv' /\ ReadOne(e, s)
  BY <1>1, ReadStreams
<1>4. x \in Msgs
  BY DEF SessionInv, SessionTypes, Context, Msg, Msgs, Types
<1>5. ASSUME NEW g \in Ends
      PROVE  RemoteControl(g)' = RemoteControl(g) /\ Control(g)' = Control(g) /\ RemoteControl(g) \in Streams
             /\ Control(g) \in Streams
  BY <1>2, SameVersion, TheControls
<1>6. ASSUME NEW g \in Ends
      PROVE  /\ Read(g, RemoteControl(g))' = IF g = e /\ s = RemoteControl(g) THEN Read(g, RemoteControl(g)) + 1
                                             ELSE Read(g, RemoteControl(g))
             /\ Silent => Sent(g, RemoteControl(g))' = Sent(g, RemoteControl(g))
  <2>1. PICK r \in Streams : r = RemoteControl(g) /\ RemoteControl(g)' = r
    BY <1>5
  <2>2. Read(g, RemoteControl(g))' = Read(g, r)' /\ Sent(g, RemoteControl(g))' = Sent(g, r)'
    BY <2>1 DEF Read, Sent
  <2>3. Read(g, r)' = IF g = e /\ s = r THEN Read(g, r) + 1 ELSE Read(g, r)
    BY <1>3, <2>1 DEF ReadOne
  <2>4. Silent => Sent(g, r)' = Sent(g, r)
    BY DEF Silent
  <2>. QED  BY <2>1, <2>2, <2>3, <2>4
<1>7. Passes \/ Rejects(e, m) => Silent
  BY DEF Passes, Rejects, Silent, Sent
<1>8. Accepts(e, m) => Wrote(f, Control(e), x) /\ Adds(f, Control(e), x)
  <2> SUFFICES ASSUME Accepts(e, m) PROVE Wrote(f, Control(e), x) /\ Adds(f, Control(e), x)
    OBVIOUS
  <2>1. Send(e, Control(e), x) /\ Control(e) \in Streams
    BY <1>5 DEF Accepts
  <2>2. Wrote(f, Control(e), x)
    BY <1>1, <1>4, <2>1, SendStreams
  <2>3. PICK c \in Streams : c = Control(e)
    BY <1>5
  <2>4. Adds(f, c, x)
    BY <1>1, <1>2, <1>4, <2>2, <2>3, WroteAdds
  <2>. QED  BY <2>2, <2>3, <2>4
<1>9. Sent(e, RemoteControl(e))' = Sent(e, RemoteControl(e))
  <2>1. Accepts(e, m) => Sent(e, RemoteControl(e))' = Sent(e, RemoteControl(e))
    BY <1>1, <1>8 DEF Adds
  <2>. QED  BY <1>6, <1>7, <2>1 DEF Answers
<1>. QED  BY <1>1, <1>2, <1>3, <1>4, <1>5, <1>6, <1>7, <1>8, <1>9

LEMMA ParseMessages ==
    ASSUME SessionInv, NumbersInv, NEW e \in Ends, Parse(e)
    PROVE  MessagesInv'
<1>1. PICK f \in Ends, s \in Streams, m \in Msgs, x \in Msgs :
        /\ f = Peer(e) /\ Peer(f) = e /\ f # e /\ s = loop[e].stream /\ m = buffer[e][s][1][1]
        /\ x = Msg("SERVER_SETUP", moq[e].local)
  <2>1. loop[e].stream \in Streams /\ buffer[e][loop[e].stream][1][1] \in Msgs
    BY TheMessage
  <2>2. Msg("SERVER_SETUP", moq[e].local) \in Msgs
    BY DEF SessionInv, SessionTypes, Context, Msg, Msgs, Types
  <2>. QED  BY <2>1, <2>2, TheEnds
<1>2. /\ MayBeSent(e, s, m) /\ moq[e].state = "up"
      /\ Read(e, s) \in Nat /\ Sent(e, s) \in Seq(Msgs)
      /\ Read(e, s) + 1 \in 1 .. Len(Sent(e, s)) /\ m = Sent(e, s)[Read(e, s) + 1]
  BY <1>1, TheMessage
<1>3. Heeds(e, m) /\ Answers(e, m)
  BY <1>1, Heeded
<1>4. /\ UNCHANGED <<version, verdict, pc, parsed>> /\ version' = version /\ verdict' = verdict
      /\ Sent(e, RemoteControl(e))' = Sent(e, RemoteControl(e))
      /\ Read(f, RemoteControl(f))' = Read(f, RemoteControl(f))
      /\ s = RemoteControl(e) => Read(e, RemoteControl(e))' = Read(e, RemoteControl(e)) + 1
      /\ s # RemoteControl(e) => Read(e, RemoteControl(e))' = Read(e, RemoteControl(e))
      /\ Passes \/ Rejects(e, m) => Silent /\ Sent(f, RemoteControl(f))' = Sent(f, RemoteControl(f))
      /\ Accepts(e, m) => Wrote(f, Control(e), x) /\ Adds(f, Control(e), x)
  BY <1>1, <1>3, Parsed
<1>5. /\ moq'[f] = moq[f] /\ moq'[e].state = moq[e].state /\ moq'[e].next = moq[e].next
      /\ moq'[e].goaway => moq[e].goaway \/ m.type = "GOAWAY"
  BY <1>1, <1>3 DEF Heeds
<1>6. Control(e) \in Streams /\ RemoteControl(f) = Control(e) /\ RemoteControl(e) \in Streams /\ RemoteControl(f) \in Streams
  BY <1>1, TheControls
<1>7. x.type = "SERVER_SETUP"
  BY <1>1 DEF Msg
<1>8. NoRefusal'
  <2>1. NoRefusal
    BY DEF NumbersInv, MessagesInv
  <2>2. CASE closed' = closed
    BY <1>4, <2>1, <2>2 DEF NoRefusal
  <2>3. CASE Rejects(e, m)
    BY <1>1, <1>4, <2>1, <2>3, TheEnds DEF NoRefusal, Rejects
  <2>. QED  BY <1>3, <2>2, <2>3 DEF Answers, Passes, Accepts
<1>9. Sendable'
  <2>1. CASE Accepts(e, m)
    <3>1. MayBeSent(f, Control(e), x)
      BY <1>1, <1>6, <1>7, <2>1 DEF MayBeSent, Accepts, SetupOf
    <3>2. PICK c \in Streams : c = Control(e)
      BY <1>6
    <3>3. Wrote(f, c, x) /\ MayBeSent(f, c, x)
      BY <1>4, <2>1, <3>1, <3>2
    <3>. QED  BY <1>4, <3>3, SendableWrote
  <2>2. CASE Silent
    BY <1>4, <2>2, SendableSilent
  <2>. QED  BY <1>3, <1>4, <2>1, <2>2 DEF Answers
<1>10. Goaways(e)'
  <2> DEFINE q == Sent(e, RemoteControl(e))
             n == Read(e, RemoteControl(e))
             goaway == moq[e].goaway
  <2>1. GoawayOnce(q, n, goaway) /\ q \in Seq(Msgs) /\ n \in Nat
    BY <1>6, SentTypes DEF NumbersInv, MessagesInv, Goaways
  <2>2. q' = q /\ (goaway' => goaway \/ m.type = "GOAWAY")
    BY <1>4, <1>5
  <2>3. CASE s = RemoteControl(e)
    <3>1. n' = n + 1 /\ n + 1 \in 1 .. Len(q) /\ m = q[n + 1]
      BY <1>2, <1>4, <2>3
    <3> HIDE DEF q, n, goaway
    <3>2. /\ m.type = "GOAWAY" => GoawayOnce(q, n + 1, TRUE)
          /\ GoawayOnce(q, n + 1, goaway)
      BY <2>1, <3>1, GoawayRead
    <3>3. GoawayOnce(q', n', goaway')
      BY <2>2, <3>1, <3>2 DEF GoawayOnce
    <3>. QED  BY <3>3 DEF Goaways, q, n, goaway
  <2>4. CASE s # RemoteControl(e)
    <3>1. m.type # "GOAWAY" /\ n' = n
      BY <1>2, <1>4, <2>4 DEF MayBeSent
    <3> HIDE DEF q, n, goaway
    <3>2. GoawayOnce(q', n', goaway')
      BY <2>1, <2>2, <3>1 DEF GoawayOnce
    <3>. QED  BY <3>2 DEF Goaways, q, n, goaway
  <2>. QED  BY <2>3, <2>4
<1>11. Goaways(f)'
  <2> DEFINE q == Sent(f, RemoteControl(f))
             n == Read(f, RemoteControl(f))
             goaway == moq[f].goaway
  <2>1. GoawayOnce(q, n, goaway) /\ q \in Seq(Msgs) /\ n \in Nat
    BY <1>6, SentTypes DEF NumbersInv, MessagesInv, Goaways
  <2>2. n' = n /\ goaway' = goaway
    BY <1>4, <1>5
  <2>3. q' = q \/ Grown(q, q', x)
    BY <1>3, <1>4, <1>6 DEF Answers, Adds
  <2> HIDE DEF q, n, goaway
  <2>4. GoawayOnce(q', n, goaway)
    BY <1>7, <2>1, <2>3, GoawayGrown
  <2>. QED  BY <2>2, <2>4 DEF Goaways, q, n, goaway
<1>12. ASSUME NEW g \in Ends PROVE Unborn(g)' /\ OwnIds(g)'
  <2>1. Unborn(g) /\ OwnIds(g)
    BY DEF NumbersInv, MessagesInv
  <2>2. (g = e \/ g = f) /\ \A k : Values(g, k)' = Values(g, k)
    BY <1>1, <1>4, TheEnds DEF Values
  <2>3. moq'[g].next = moq[g].next /\ Live(g)' = Live(g)
    BY <1>5, <2>2 DEF Live
  <2>4. OwnIds(g)'
    BY <2>1, <2>2, <2>3, OwnIdsSame
  <2>5. Unborn(g)'
    BY <1>2, <1>4, <1>5, <2>1, <2>2 DEF Unborn
  <2>. QED  BY <2>4, <2>5
<1>. QED  BY <1>1, <1>8, <1>9, <1>10, <1>11, <1>12, TheEnds DEF MessagesInv

\* The limits and the IDs when the message has been handled.
LEMMA HeardNumbers ==
    ASSUME SessionInv, NumbersInv, version = 16, version' = version, NEW e \in Ends, NEW f \in Ends, f = Peer(e),
           NEW s \in Streams, NEW m \in Msgs, MayBeSent(e, s, m), m = Sent(e, s)[Read(e, s) + 1],
           Read(e, s) + 1 \in 1 .. Len(Sent(e, s)), Heeds(e, m), pc' = pc, Live(e),
           Sent(e, RemoteControl(e))' = Sent(e, RemoteControl(e)),
           s = RemoteControl(e) => Read(e, RemoteControl(e))' = Read(e, RemoteControl(e)) + 1,
           s # RemoteControl(e) => Read(e, RemoteControl(e))' = Read(e, RemoteControl(e))
    PROVE  Limits16(e)' /\ Ids16(e)'
<1> DEFINE q == Sent(e, RemoteControl(e))
           n == Read(e, RemoteControl(e))
           max == moq[e].max
           expected == moq[e].expected
           local == moq[e].local
           sent == moq[f].local
           first == FirstId(f)
<1>1. /\ moq'[f] = moq[f] /\ moq'[e].state = moq[e].state /\ moq'[e].local = moq[e].local
      /\ max' = IF m.type \in LimitTypes THEN LimitIn(m) ELSE max
      /\ expected' = IF m.type = "REQUEST" THEN m.value + 2 ELSE expected
  BY DEF Heeds
<1>2. (\A k : Values(f, k)' = Values(f, k)) /\ Live(f)' = Live(f) /\ Live(e)
  BY <1>1 DEF Values, Live
<1>3. max \in Nat /\ sent \in Nat /\ local \in Nat /\ expected \in Nat /\ first \in Nat
  BY FirstIds DEF SessionInv, SessionTypes, Context
<1>4. q \in Seq(Msgs) /\ n \in Nat
  <2>1. RemoteControl(e) \in Streams
    BY TheControls
  <2>. QED  BY <2>1, SentTypes DEF NumbersInv
<1>5. /\ Chain(q, n, max, sent) /\ Announces(q, sent, Values(f, "raised"), moq[f].connected, SetupOf(f))
      /\ InRow(q, first, local) /\ Expects(q, n, first, expected)
      /\ Issues(q, first, moq[f].next, local, Values(f, "has_id"), Values(f, "reserved"), Live(f))
  BY <1>2 DEF NumbersInv, Told16, Limits16, Ids16
<1>6. \/ n' = n + 1 /\ n + 1 \in 1 .. Len(q) /\ m = q[n + 1]
      \/ n' = n /\ m.type = "OBJECT"
  <2>1. CASE s = RemoteControl(e)
    BY <2>1
  <2>2. CASE s # RemoteControl(e)
    BY <2>2 DEF MayBeSent
  <2>. QED  BY <2>1, <2>2
<1>7. m.value \in Nat /\ LimitIn(m) \in Nat
  BY LimitNatural DEF Msgs
<1>8. q' = q
  OBVIOUS
<1> HIDE DEF q, n, max, expected, local, sent, first
<1>9. Chain(q, n', max', sent)
  <2>1. CASE n' = n + 1 /\ n + 1 \in 1 .. Len(q) /\ m = q[n + 1]
    BY <1>1, <1>3, <1>4, <1>5, <2>1, ChainRead
  <2>2. CASE n' = n /\ m.type = "OBJECT"
    BY <1>1, <1>5, <2>2 DEF LimitTypes
  <2>. QED  BY <1>6, <2>1, <2>2
<1>10. Expects(q, n', first, expected')
  <2>1. CASE n' = n + 1 /\ n + 1 \in 1 .. Len(q) /\ m = q[n + 1]
    BY <1>1, <1>3, <1>4, <1>5, <2>1, ExpectsRead
  <2>2. CASE n' = n /\ m.type = "OBJECT"
    BY <1>1, <1>5, <2>2
  <2>. QED  BY <1>6, <2>1, <2>2
<1>11. Limits16(e)'
  BY <1>1, <1>2, <1>5, <1>8, <1>9 DEF Limits16, q, n, max, sent, SetupOf
<1>12. Ids16(e)'
  BY <1>1, <1>2, <1>5, <1>8, <1>10 DEF Ids16, q, n, expected, local, first, FirstId
<1>. QED  BY <1>11, <1>12

LEMMA ParseTold ==
    ASSUME SessionInv, NumbersInv, version = 16, NEW e \in Ends, Parse(e)
    PROVE  Told16'
<1>1. PICK f \in Ends, s \in Streams, m \in Msgs, x \in Msgs :
        /\ f = Peer(e) /\ Peer(f) = e /\ f # e /\ s = loop[e].stream /\ m = buffer[e][s][1][1]
        /\ x = Msg("SERVER_SETUP", moq[e].local)
  <2>1. loop[e].stream \in Streams /\ buffer[e][loop[e].stream][1][1] \in Msgs
    BY TheMessage
  <2>2. Msg("SERVER_SETUP", moq[e].local) \in Msgs
    BY DEF SessionInv, SessionTypes, Context, Msg, Msgs, Types
  <2>. QED  BY <2>1, <2>2, TheEnds
<1>2. /\ MayBeSent(e, s, m) /\ moq[e].state = "up" /\ Live(e) /\ closed[e] = "open"
      /\ Read(e, s) \in Nat /\ Sent(e, s) \in Seq(Msgs)
      /\ Read(e, s) + 1 \in 1 .. Len(Sent(e, s)) /\ m = Sent(e, s)[Read(e, s) + 1]
  BY <1>1, TheMessage
<1>3. Heeds(e, m) /\ Answers(e, m)
  BY <1>1, Heeded
<1>4. /\ pc' = pc /\ version' = version
      /\ Sent(e, RemoteControl(e))' = Sent(e, RemoteControl(e))
      /\ Read(f, RemoteControl(f))' = Read(f, RemoteControl(f))
      /\ s = RemoteControl(e) => Read(e, RemoteControl(e))' = Read(e, RemoteControl(e)) + 1
      /\ s # RemoteControl(e) => Read(e, RemoteControl(e))' = Read(e, RemoteControl(e))
      /\ Passes \/ Rejects(e, m) => Sent(f, RemoteControl(f))' = Sent(f, RemoteControl(f))
      /\ Accepts(e, m) => Adds(f, Control(e), x)
      /\ \A g \in Ends : RemoteControl(g)' = RemoteControl(g) /\ Control(g)' = Control(g)
  BY <1>1, <1>3, Parsed
<1>5. /\ moq'[f] = moq[f] /\ moq'[e].state = moq[e].state /\ moq'[e].next = moq[e].next /\ moq'[e].local = moq[e].local
      /\ moq[e].connected => moq'[e].connected
      /\ moq'[e].connected => moq[e].connected \/ m.type = "SERVER_SETUP"
      /\ moq'[e].max = IF m.type \in LimitTypes THEN LimitIn(m) ELSE moq[e].max
  BY <1>1, <1>3 DEF Heeds
<1>6. /\ RemoteControl(f) = Control(e) /\ RemoteControl(e) = Control(f) /\ Control(e) = Control(f)
      /\ RemoteControl(e) \in Streams
  BY <1>1, TheControls
<1>7. /\ Phases /\ Limits16(f) /\ Ids16(f)
      /\ Announces(Sent(e, RemoteControl(e)), moq[f].local, Values(f, "raised"), moq[f].connected, SetupOf(f))
      /\ Chain(Sent(e, RemoteControl(e)), Read(e, RemoteControl(e)), moq[e].max, moq[f].local)
  BY <1>1 DEF NumbersInv, Told16, Limits16
<1>8. (\A g \in Ends : \A k : Values(g, k)' = Values(g, k)) /\ Live(f)' = Live(f) /\ Live(e)' = Live(e)
  BY <1>4, <1>5 DEF Values, Live
<1>9. Limits16(e)' /\ Ids16(e)'
  BY <1>1, <1>2, <1>3, <1>4, HeardNumbers
<1>10. m.type = "SETUP" => s = RemoteControl(e) /\ Sent(f, RemoteControl(f)) = <<>> /\ e = "server"
  <2> SUFFICES ASSUME m.type = "SETUP" PROVE s = RemoteControl(e) /\ Sent(f, RemoteControl(f)) = <<>> /\ e = "server"
    OBVIOUS
  <2>1. s = RemoteControl(e) /\ SetupOf(f) = "SETUP"
    BY <1>1, <1>2 DEF MayBeSent
  <2>2. e = "server"
    BY <1>1, <2>1 DEF SetupOf, Ends
  <2>3. Read(e, RemoteControl(e)) = 0
    <3> DEFINE q == Sent(e, RemoteControl(e))
               n == Read(e, RemoteControl(e))
    <3>1. n \in Nat /\ n + 1 \in 1 .. Len(q) /\ q[n + 1].type = SetupOf(f)
      BY <1>2, <2>1
    <3>2. \A i \in 1 .. Len(q) : i = 1 <=> q[i].type = SetupOf(f)
      BY <1>7 DEF Announces
    <3> HIDE DEF q, n
    <3>3. n = 0
      BY <3>1, <3>2
    <3>. QED  BY <3>3 DEF n
  <2>4. ~Started(e)
    BY <1>6, <1>7, <2>2, <2>3, <1>1 DEF Phases
  <2>. QED  BY <1>1, <1>6, <2>1, <2>2, <2>4 DEF Started
<1>11. Limits16(f)' /\ Ids16(f)'
  <2>1. CASE Accepts(e, m)
    <3>1. x.type = SetupOf(e) /\ x.value = moq[e].local
      BY <1>1, <2>1 DEF Accepts, Msg, SetupOf
    <3>2. Sent(f, RemoteControl(f)) = <<>> /\ moq'[e].connected = moq[e].connected
      BY <1>10, <2>1 DEF Accepts
    <3>3. Adds(f, Control(e), x)
      BY <1>4, <2>1
    <3>4. Live(e)'
      BY <1>2, <1>8
    <3>. QED  BY <1>1, <1>2, <1>4, <1>5, <3>1, <3>2, <3>3, <3>4, FirstSent
  <2>2. CASE Passes \/ Rejects(e, m)
    <3>1. Sent(f, RemoteControl(f))' = Sent(f, RemoteControl(f))
      BY <1>4, <2>2
    <3>2. Limits16(f)'
      BY <1>1, <1>4, <1>5, <1>7, <1>8, <3>1, LimitsSame
    <3>3. Ids16(f)'
      BY <1>1, <1>4, <1>5, <1>7, <1>8, <3>1, IdsSame
    <3>. QED  BY <3>2, <3>3
  <2>. QED  BY <1>3, <2>1, <2>2 DEF Answers
<1>12. /\ Started(f)' = Started(f)
       /\ Accepts(e, m) => Started(e)'
       /\ ~Accepts(e, m) => Started(e)' = Started(e)
  <2>1. CASE Accepts(e, m)
    <3>1. Adds(f, Control(e), x)
      BY <1>4, <2>1
    <3>. QED  BY <1>1, <1>4, <2>1, <3>1, NowStarted
  <2>2. CASE ~Accepts(e, m)
    <3>1. Sent(f, RemoteControl(f))' = Sent(f, RemoteControl(f))
      BY <1>3, <1>4, <2>2 DEF Answers
    <3>2. /\ Sent(f, RemoteControl(f))' = Sent(f, Control(e))' /\ Sent(f, RemoteControl(f)) = Sent(f, Control(e))
          /\ Sent(e, RemoteControl(e))' = Sent(e, Control(f))' /\ Sent(e, RemoteControl(e)) = Sent(e, Control(f))
      BY <1>4, <1>6 DEF Sent
    <3>3. Sent(f, Control(e))' = Sent(f, Control(e)) /\ Sent(e, Control(f))' = Sent(e, Control(f))
      BY <1>4, <3>1, <3>2
    <3>. QED  BY <1>1, <2>2, <3>3 DEF Started
  <2>. QED  BY <2>1, <2>2
<1>13. ASSUME NEW g \in Ends
       PROVE  /\ Read(g, Control(g)) = Read(g, RemoteControl(g)) /\ Read(g, Control(g))' = Read(g, RemoteControl(g))'
              /\ Read(g, RemoteControl(g)) \in Nat
  <2>1. Control(g) = RemoteControl(g) /\ RemoteControl(g) \in Streams
    BY TheControls
  <2>. QED  BY <1>4, <2>1, SentTypes DEF Read, NumbersInv
<1>14. Started("server")' => Read("server", Control("server"))' > 0
  <2>1. CASE e = "server"
    <3>1. Started(e) => Read(e, RemoteControl(e)) > 0
      BY <1>7, <1>13, <2>1 DEF Phases
    <3>2. Accepts(e, m) => s = RemoteControl(e)
      BY <1>10 DEF Accepts
    <3>3. Started(e)' => Read(e, RemoteControl(e))' > 0
      <4> DEFINE n == Read(e, RemoteControl(e))
      <4>1. n \in Nat /\ (n' = n + 1 \/ n' = n) /\ (Accepts(e, m) => n' = n + 1)
        BY <1>4, <1>13, <3>2
      <4>2. Accepts(e, m) \/ (Started(e)' => Started(e))
        BY <1>12
      <4>3. Started(e) => n > 0
        BY <3>1
      <4> HIDE DEF n
      <4>4. n' > 0 \/ ~Started(e)'
        BY ONLY <4>1, <4>2, <4>3
      <4>. QED  BY <4>4 DEF n
    <3>. QED  BY <1>13, <2>1, <3>3
  <2>2. CASE f = "server"
    <3>1. Started(f) => Read(f, RemoteControl(f)) > 0
      BY <1>7, <1>13, <2>2 DEF Phases
    <3>2. Started(f)' => Read(f, RemoteControl(f))' > 0
      BY <1>4, <1>12, <3>1
    <3>. QED  BY <1>13, <2>2, <3>2
  <2>. QED  BY <1>1, <2>1, <2>2 DEF Ends
<1>15. e = "client" => Started(e)
  BY <1>2, <1>7 DEF Phases
<1>16. m.type \in {"SERVER_SETUP", "MAX_REQUEST_ID"} => Started(e)
  <2>1. ASSUME m.type \in {"SERVER_SETUP", "MAX_REQUEST_ID"} PROVE s = RemoteControl(e)
    BY <1>2, <2>1 DEF MayBeSent
  <2>2. ASSUME m.type = "SERVER_SETUP" PROVE Started(e)
    <3>1. SetupOf(f) = "SERVER_SETUP"
      BY <1>1, <1>2, <2>1, <2>2 DEF MayBeSent
    <3>. QED  BY <1>1, <1>15, <3>1 DEF SetupOf, Ends
  <2>3. ASSUME m.type = "MAX_REQUEST_ID" PROVE Started(e)
    <3> DEFINE q == Sent(e, RemoteControl(e))
               n == Read(e, RemoteControl(e))
               max == moq[e].max
               sent == moq[f].local
    <3>1. n \in Nat /\ n + 1 \in 1 .. Len(q) /\ m = q[n + 1] /\ q \in Seq(Msgs) /\ max \in Nat
      BY <1>2, <2>1, <2>3 DEF SessionInv, SessionTypes, Context
    <3>2. (\A i \in 1 .. Len(q) : i = 1 <=> q[i].type = SetupOf(f)) /\ Chain(q, n, max, sent)
      BY <1>7 DEF Announces
    <3>3. SetupOf(f) \in LimitTypes /\ SetupOf(f) # "MAX_REQUEST_ID"
      BY DEF SetupOf, LimitTypes
    <3> HIDE DEF q, n, max, sent
    <3>4. Len(q) \in Nat
      BY <3>1, LenProperties
    <3>5. 1 \in 1 .. Len(q) /\ 1 <= n
      BY <2>3, <3>1, <3>2, <3>3, <3>4
    <3>6. 1 \in Of(q, LimitTypes) /\ q[1] \in Msgs
      <4>1. q[1].type = SetupOf(f)
        BY <3>2, <3>5
      <4>. QED  BY <3>1, <3>3, <3>5, <4>1, ElementOfSeq DEF Of
    <3>7. 0 < LimitIn(q[1]) /\ LimitIn(q[1]) <= max /\ LimitIn(q[1]) \in Nat
      BY <3>2, <3>5, <3>6, LimitNatural DEF Chain
    <3>8. max > 0
      BY <3>1, <3>7
    <3>. QED  BY <1>2, <1>7, <3>8 DEF Phases, max
  <2>. QED  BY <2>2, <2>3
<1>17. ASSUME NEW g \in Ends
       PROVE  /\ loop'[g].pc = "accepted" \/ moq'[g].connected \/ (moq'[g].max > 0 /\ closed'[g] = "open") => Started(g)'
              /\ Live(g)' => moq'[g].local > 0
  <2>1. /\ loop[g].pc = "accepted" \/ moq[g].connected \/ (moq[g].max > 0 /\ closed[g] = "open") => Started(g)
        /\ Live(g) => moq[g].local > 0
    BY <1>7 DEF Phases
  <2>2. CASE g = f
    <3>1. loop'[f] = loop[f] /\ closed'[f] = closed[f]
      BY <1>1, <1>3 DEF Answers, Passes, Rejects, Accepts
    <3>. QED  BY <1>5, <1>8, <1>12, <2>1, <2>2, <3>1
  <2>3. CASE g = e
    <3>1. Live(e)' => moq'[e].local > 0
      BY <1>5, <1>8, <2>1, <2>3
    <3>2. CASE Accepts(e, m)
      BY <1>12, <2>3, <3>1, <3>2
    <3>3. CASE ~Accepts(e, m)
      <4>1. loop' = loop /\ (closed'[e] = "open" => m.type # "SETUP")
        BY <1>3, <3>3 DEF Answers, Passes, Rejects
      <4>2. moq'[e].connected => Started(e)
        BY <1>5, <1>16, <2>1, <2>3
      <4>3. moq'[e].max > 0 /\ closed'[e] = "open" => Started(e)
        BY <1>2, <1>5, <1>16, <2>1, <2>3, <4>1 DEF LimitTypes
      <4>4. Started(e)' = Started(e)
        BY <1>12, <3>3
      <4>. QED  BY <2>1, <2>3, <3>1, <4>1, <4>2, <4>3, <4>4
    <3>. QED  BY <3>2, <3>3
  <2>. QED  BY <1>1, <2>2, <2>3, TheEnds
<1>18. /\ moq'["client"].state = "up" => Started("client")'
       /\ Started("client")' => moq'["client"].state \in {"up", "gone"}
  <2>1. moq'["client"].state = moq["client"].state
    BY <1>1, <1>5 DEF Ends
  <2>2. Started("client")' = Started("client")
    <3>1. CASE e = "client"
      BY <1>12, <3>1 DEF Accepts
    <3>2. CASE f = "client"
      BY <1>12, <3>2
    <3>. QED  BY <1>1, <3>1, <3>2 DEF Ends
  <2>. QED  BY <1>7, <2>1, <2>2 DEF Phases
<1>19. Phases'
  BY <1>14, <1>17, <1>18 DEF Phases
<1>. QED  BY <1>1, <1>9, <1>11, <1>19, TheEnds DEF Told16

LEMMA ParseNumbers ==
    ASSUME SessionInv, NumbersInv, NEW e \in Ends, Parse(e)
    PROVE  NumbersInv'
<1>1. StreamInv'
  BY ReadStreams DEF NumbersInv
<1>2. MessagesInv' /\ (version = 16 => Told16')
  BY ParseMessages, ParseTold
<1>3. version' = version
  BY DEF Parse
<1>. QED  BY <1>1, <1>2, <1>3 DEF NumbersInv

-----------------------------------------------------------------------------
(* From the initial states on.                                               *)

LEMMA NumbersInit ==
    ASSUME Init PROVE NumbersInv
<1>1. SessionInv
  BY SessionInit
<1>2. ASSUME NEW e \in Ends
      PROVE  /\ moq[e].state = "none" /\ moq[e].max = 0 /\ moq[e].local = 0 /\ ~moq[e].connected /\ ~moq[e].goaway
             /\ moq[e].next = 0 /\ moq[e].expected = 0
             /\ loop[e].pc = "idle" /\ closed[e] = "open"
             /\ \A t \in Threads : pc[e][t].pc = "idle"
             /\ \A s \in Streams : written[e][s] = <<>> /\ parsed[e][s] = <<>> /\ buffer[e][s] = <<>>
  BY Nothing DEF Init, Idle
<1>3. Len(<<>>) = 0 /\ Paired(<<>>) /\ InBuffer(<<>>, <<>>, <<>>)
  <2>1. Len(<<>>) = 0 /\ \A i \in 1 .. 0 : FALSE
    OBVIOUS
  <2>2. Paired(<<>>)
    BY <2>1 DEF Paired
  <2>3. InBuffer(<<>>, <<>>, <<>>)
    BY <2>1 DEF InBuffer
  <2>. QED  BY <2>1, <2>2, <2>3
<1>4. StreamInv
  BY <1>2, <1>3 DEF StreamInv
<1>5. ASSUME NEW e \in Ends, NEW s \in Streams PROVE Sent(e, s) = <<>> /\ Read(e, s) = 0
  <2>1. Sent(e, s) \in Seq(Msgs) /\ Read(e, s) \in Nat /\ Read(e, s) <= Len(Sent(e, s)) /\ Len(Sent(e, s)) \in Nat
    BY <1>1, <1>4, SentTypes
  <2>2. Halving(written[e][s], Sent(e, s))
    BY <1>1, <1>4, Along, PairedMessages DEF StreamInv, Sent
  <2>3. Len(Sent(e, s)) = 0
    <3> DEFINE a == Len(Sent(e, s))
    <3>1. a \in Nat /\ 0 = 2 * a
      BY <1>2, <1>3, <2>2 DEF Halving
    <3> HIDE DEF a
    <3>2. a = 0
      BY <3>1
    <3>. QED  BY <3>2 DEF a
  <2>. QED  BY <2>1, <2>3, EmptySeq
<1>6. ASSUME NEW e \in Ends, NEW what \in {"has_id", "reserved", "raised"} PROVE Values(e, what) = {}
  BY <1>2 DEF Values
<1>7. MessagesInv
  <2>1. NoRefusal
    BY <1>2 DEF NoRefusal
  <2>2. Sendable
    BY <1>5 DEF Sendable
  <2>3. ASSUME NEW e \in Ends PROVE Goaways(e) /\ Unborn(e) /\ OwnIds(e)
    <3>1. RemoteControl(e) \in Streams
      BY TheControls
    <3>2. GoawayOnce(<<>>, 0, moq[e].goaway)
      BY <1>2 DEF GoawayOnce, Of
    <3>3. Goaways(e)
      BY <1>5, <3>1, <3>2 DEF Goaways
    <3>. QED  BY <1>2, <1>6, <3>3 DEF Unborn, OwnIds, Live
  <2>. QED  BY <2>1, <2>2, <2>3 DEF MessagesInv
<1>8. ASSUME version = 16 PROVE Told16
  <2>1. ASSUME NEW e \in Ends
        PROVE  ~Started(e) /\ ~Live(e) /\ Sent(e, RemoteControl(e)) = <<>> /\ Read(e, RemoteControl(e)) = 0
    BY <1>2, <1>5, TheControls, TheEnds DEF Started, Live
  <2>2. Phases
    <3>1. "client" \in Ends /\ "server" \in Ends
      BY DEF Ends
    <3>. QED  BY <1>2, <2>1, <3>1 DEF Phases
  <2>3. ASSUME NEW e \in Ends PROVE Limits16(e) /\ Ids16(e)
    <3>1. PICK f \in Ends : f = Peer(e)
      BY TheEnds
    <3>2. Chain(<<>>, 0, 0, 0) /\ Announces(<<>>, 0, {}, FALSE, SetupOf(f))
      BY <1>3 DEF Chain, Announces, Of
    <3>3. moq[f].connected = FALSE
      BY <1>2, <3>1 DEF Init
    <3>4. Limits16(e)
      BY <1>2, <1>6, <2>1, <3>1, <3>2, <3>3 DEF Limits16
    <3>5. InRow(<<>>, FirstId(f), 0) /\ Issues(<<>>, FirstId(f), 0, 0, {}, {}, FALSE)
      BY <1>3 DEF InRow, Issues, Of
    <3>6. Live(f) = FALSE /\ Live(e) = FALSE
      BY <1>2 DEF Live
    <3>7. Ids16(e)
      BY <1>2, <1>6, <2>1, <3>1, <3>5, <3>6 DEF Ids16
    <3>. QED  BY <3>4, <3>7
  <2>. QED  BY <2>2, <2>3 DEF Told16
<1>. QED  BY <1>4, <1>7, <1>8 DEF NumbersInv

LEMMA NumbersNext ==
    ASSUME Asking, SessionInv, SessionInv', NumbersInv, [Next]_vars
    PROVE  NumbersInv'
<1>1. ASSUME NEW e \in Ends, LoopStep(e) PROVE NumbersInv'
  <2>1. CASE CreateContext(e)
    BY <2>1, CreateContextNumbers
  <2>2. CASE SendSetup(e)
    BY <2>2, SendSetupNumbers
  <2>3. CASE Deliver(e)
    BY <2>3, DeliverNumbers DEF Asking
  <2>4. CASE Replay(e)
    BY <2>4, ReplayNumbers
  <2>5. CASE ReplayDone(e)
    BY <2>5, ReplayDoneNumbers
  <2>6. CASE Parse(e)
    BY <2>6, ParseNumbers
  <2>7. CASE Connected(e)
    BY <2>7, ConnectedNumbers
  <2>8. CASE ParseDone(e)
    BY <2>8, ParseDoneNumbers
  <2>9. CASE ConnectionGone(e)
    BY <2>9, ConnectionGoneNumbers
  <2>. QED  BY <1>1, <2>1, <2>2, <2>3, <2>4, <2>5, <2>6, <2>7, <2>8, <2>9 DEF LoopStep
<1>2. ASSUME NEW e \in Ends, NEW t \in Threads, CallStep(e, t) \/ Call(e, t) PROVE NumbersInv'
  <2>1. CASE Reserve(e, t)
    BY <2>1, ReserveNumbers
  <2>2. CASE SendRequest(e, t)
    BY <2>2, SendRequestNumbers
  <2>3. CASE AnnounceLimit(e, t)
    BY <2>3, AnnounceLimitNumbers
  <2>4. CASE GetNextRequestId(e, t)
    BY <2>4, GetNextRequestIdNumbers
  <2>5. CASE SetMaxRequestId(e, t)
    BY <2>5, SetMaxRequestIdNumbers
  <2>6. CASE RequestsBlocked(e, t)
    BY <2>6, RequestsBlockedNumbers
  <2>7. CASE Goaway(e, t)
    BY <2>7, GoawayNumbers
  <2>8. CASE SendObject(e, t)
    BY <2>8, SendObjectNumbers
  <2>. QED  BY <1>2, <2>1, <2>2, <2>3, <2>4, <2>5, <2>6, <2>7, <2>8 DEF CallStep, Call
<1>3. CASE UNCHANGED vars
  BY <1>3, StutterNumbers
<1>. QED  BY <1>1, <1>2, <1>3 DEF Next

LEMMA InvLimitTold ==
    ASSUME SessionInv, NumbersInv PROVE LimitTold
<1> SUFFICES ASSUME version = 16, \A e \in Ends : moq[e].connected /\ Running(e) /\ Quiet(e), NEW e \in Ends
             PROVE  moq[Peer(e)].max = IF moq[e].local = 0 THEN 1 ELSE moq[e].local
  BY DEF LimitTold
<1>1. PICK f \in Ends, c \in Streams : f = Peer(e) /\ Peer(f) = e /\ c = RemoteControl(f) /\ c = Control(e)
  BY TheEnds, TheControls
<1> DEFINE q == Sent(f, c)
           n == Read(f, c)
           max == moq[f].max
           local == moq[e].local
           w == written[f][c]
           b == buffer[f][c]
<1>2. Chain(q, n, max, local) /\ Announces(q, local, Values(e, "raised"), moq[e].connected, SetupOf(e)) /\ Started(e)
  BY <1>1 DEF NumbersInv, Told16, Limits16, Phases
<1>3. max \in Nat /\ local \in Nat /\ q \in Seq(Msgs) /\ Len(q) \in Nat /\ n \in Nat
  BY SentTypes DEF SessionInv, SessionTypes, Context, NumbersInv
<1>4. Values(e, "raised") = {} /\ q # <<>>
  BY <1>1, <1>2 DEF Quiet, Values, Started
<1>5. parsed[f][c] = w
  <2>1. wire[f][c] = <<>> /\ loop[f].pc = "idle"
    BY Nothing DEF Quiet
  <2>. QED  BY <2>1, InvInOrder DEF StreamsInOrder, NothingHeldBack
<1>6. n = Len(q)
  <2>1. w \in Seq(Pieces) /\ b \in Seq(Pieces) /\ Paired(w) /\ InBuffer(w, w, b) /\ Len(b) \in Nat
    BY <1>5, Along, LenProperties DEF NumbersInv, StreamInv
  <2>2. Halving(w, q)
    BY <2>1, PairedMessages DEF Sent
  <2>3. Len(w) = 2 * Len(q)
    BY <2>2 DEF Halving
  <2>4. Len(w) = 2 * n + Len(b)
    <3>1. n = ReadOf(w, b)
      BY <1>5 DEF Read
    <3>2. Len(w) <= Len(w)
      BY <1>3, <2>3
    <3> HIDE DEF n, w, b
    <3>. QED  BY <2>1, <3>1, <3>2, ReadCount
  <2>5. ~(Len(b) >= 2)
    <3>1. loop[f].pc = "idle"
      BY DEF Quiet
    <3>. QED  BY <3>1 DEF NumbersInv, StreamInv
  <2> DEFINE k == Len(q)
             j == Len(b)
  <2>6. 2 * k = 2 * n + j /\ k \in Nat /\ n \in Nat /\ j \in Nat /\ ~(j >= 2)
    BY <1>3, <2>1, <2>3, <2>4, <2>5
  <2> HIDE DEF k, j, n
  <2>7. n = k
    BY <2>6
  <2>. QED  BY <2>7 DEF k
<1> HIDE DEF q, n, max, local, w, b
<1>7. PICK i \in Of(q, LimitTypes) : LimitIn(q[i]) = local
  BY <1>2, <1>4 DEF Announces
<1>8. i <= n /\ 0 < local /\ local <= max
  <2>1. i <= n
    BY <1>3, <1>6, OfTypes
  <2>. QED  BY <1>2, <1>7, <2>1 DEF Chain
<1>9. max <= local
  <2>1. PICK j \in Of(q, LimitTypes) : LimitIn(q[j]) = max
    BY <1>2, <1>3, <1>8 DEF Chain
  <2>. QED  BY <1>2, <2>1 DEF Chain
<1>10. max = local /\ local # 0
  BY <1>3, <1>8, <1>9
<1>. QED  BY <1>1, <1>10 DEF max, local

(* No end of a session closes the connection over what the API of the other *)
(* end wrote: the SETUP is the first message of its kind, limits only grow, *)
(* the requests of an end carry the IDs that are expected, within the limit *)
(* that was given, and GOAWAY comes once (imquic_moq_parse_client_setup,    *)
(* imquic_moq_parse_max_request_id, imquic_moq_parse_goaway,                *)
(* moq_is_request_id_valid).  On version 16 it takes one caller at each end *)
(* and a limit that is given in new_connection; on versions 17 and 18 any   *)
(* number of threads may call.                                              *)
THEOREM NeverRefused ==
    ASSUME Asking
    PROVE  Spec => []NoRefusal
<1>1. Init => SessionInv /\ NumbersInv
  BY SessionInit, NumbersInit
<1>2. SessionInv /\ NumbersInv /\ [Next]_vars => SessionInv' /\ NumbersInv'
  BY SessionNext, NumbersNext DEF Asking
<1>3. NumbersInv => NoRefusal
  BY DEF NumbersInv, MessagesInv
<1>. QED  BY <1>1, <1>2, <1>3, PTL DEF Spec

(* Once nothing is on its way, the limit that an end of version 16 enforces *)
(* on the requests of the other is the limit the other end goes by          *)
(* (imquic_moq_set_max_request_id, imquic_moq_parse_max_request_id).        *)
THEOREM LimitsTold ==
    ASSUME Asking
    PROVE  Spec => []LimitTold
<1>1. Init => SessionInv /\ NumbersInv
  BY SessionInit, NumbersInit
<1>2. SessionInv /\ NumbersInv /\ [Next]_vars => SessionInv' /\ NumbersInv'
  BY SessionNext, NumbersNext DEF Asking
<1>3. SessionInv /\ NumbersInv => LimitTold
  BY InvLimitTold
<1>. QED  BY <1>1, <1>2, <1>3, PTL DEF Spec

=============================================================================
