---------------------------- MODULE MCMoqObjects ----------------------------
(* An instance of MoqObjects: a thread that serves a FETCH or a subgroup.    *)
EXTENDS MoqObjects, TLC

CONSTANTS t1

FetchAndSubgroup == (t1 :> {FetchKey, <<1, 0>>})
=============================================================================
