---------------------------- MODULE MCConnection ----------------------------
(***************************************************************************)
(* Small instances of ImquicConnection.                                    *)
(***************************************************************************)
EXTENDS ImquicConnection, TLC

CONSTANTS t1, t2

\* The streams the peer may open.
NoSids == {}
OneClientSid == {0}

\* Application threads are alike.  (Only in a run without liveness.)
Interchangeable == Permutations(Threads)

=============================================================================
