------------------------------- MODULE MCRoq -------------------------------
(* Instances of Roq: flow 70 takes two bytes as a varint, flow 5 one.      *)
EXTENDS Roq

CONSTANTS t1, t2

OwnFlows == (t1 :> {5} @@ t2 :> {70})
SharedFlow == (t1 :> {5} @@ t2 :> {5})
=============================================================================
