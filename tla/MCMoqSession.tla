---------------------------- MODULE MCMoqSession ----------------------------
(* MoqSession for TLC: the application threads are model values.            *)
EXTENDS MoqSession
CONSTANTS t1
\* Two calls of the client meet one of the server.
CallsOfEnds == [e \in Ends |-> IF e = "client" THEN 2 ELSE 1]
=============================================================================
