---------------------------- MODULE OrderedSend ----------------------------
(***************************************************************************)
(* What imquic promises an application that writes each stream from one    *)
(* thread: every chunk a send accepts reaches the QUIC stack at most once  *)
(* and in the order the sends were accepted, stream by stream, and a       *)
(* stream accepts nothing after its FIN.  Delivery may stop (the           *)
(* connection may close), but it never skips a chunk.                      *)
(***************************************************************************)
EXTENDS Naturals, Sequences

CONSTANTS
    Streams,    \* stream identifiers
    Chunk       \* pieces of data, records with a "fin" flag

VARIABLES
    accepted,   \* per stream, the chunks accepted so far
    delivered   \* per stream, the chunks handed to the QUIC stack

Init ==
    /\ accepted = [s \in Streams |-> <<>>]
    /\ delivered = [s \in Streams |-> <<>>]

Finished(s) == \E i \in 1 .. Len(accepted[s]) : accepted[s][i].fin

Accept(s, chunk) ==
    /\ ~Finished(s)
    /\ accepted' = [accepted EXCEPT ![s] = Append(@, chunk)]
    /\ UNCHANGED delivered

Deliver(s) ==
    /\ Len(delivered[s]) < Len(accepted[s])
    /\ delivered' = [delivered EXCEPT
                       ![s] = Append(@, accepted[s][Len(delivered[s]) + 1])]
    /\ UNCHANGED accepted

Next == \E s \in Streams : Deliver(s) \/ \E chunk \in Chunk : Accept(s, chunk)

Spec == Init /\ [][Next]_<<accepted, delivered>>
=============================================================================
