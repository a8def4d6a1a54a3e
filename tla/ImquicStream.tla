---------------------------- MODULE ImquicStream ----------------------------
(***************************************************************************)
(* QUIC stream identifiers and the per-stream state imquic keeps beside    *)
(* picoquic (src/src/stream.c, src/src/internal/stream.h).                 *)
(***************************************************************************)
EXTENDS Naturals

(***************************************************************************)
(* imquic_stream_state.  The values are ordered because the code compares  *)
(* them ("out_state >= IMQUIC_STREAM_RESET").                              *)
(***************************************************************************)
INACTIVE == 0
READY    == 1
BLOCKED  == 2
RESET    == 3
COMPLETE == 4

StreamState == INACTIVE .. COMPLETE

\* Mutant: the bit of the initiator is the other way round.
BuildStreamIdOther(id, client, bidi) ==
    4 * id + (IF bidi THEN 0 ELSE 2) + (IF client THEN 1 ELSE 0)

(***************************************************************************)
(* The two low bits of a stream ID say who opened the stream and whether   *)
(* it is bidirectional; the rest is a counter.                             *)
(***************************************************************************)
BuildStreamId(id, client, bidi) ==
    4 * id + (IF bidi THEN 0 ELSE 2) + (IF client THEN 0 ELSE 1)

ActualId(sid)        == sid \div 4
ClientInitiated(sid) == sid % 4 \in {0, 2}
Bidirectional(sid)   == sid % 4 \in {0, 1}

(***************************************************************************)
(* A stream as imquic_stream_create leaves it: the structure is zeroed,    *)
(* nothing sets can_send or can_receive, and both states follow from them. *)
(***************************************************************************)
Stream == [can_send : BOOLEAN, can_receive : BOOLEAN,
           in : StreamState, out : StreamState]

StreamCreate ==
    LET can_send == FALSE
        can_receive == FALSE
    IN  [can_send    |-> can_send,
         can_receive |-> can_receive,
         in          |-> IF can_receive THEN READY ELSE INACTIVE,
         out         |-> IF can_send THEN READY ELSE INACTIVE]

MarkComplete(st, incoming) ==
    IF incoming THEN [st EXCEPT !.in = COMPLETE]
                ELSE [st EXCEPT !.out = COMPLETE]
=============================================================================
