------------------------------ MODULE MCHttp3 -------------------------------
(* Protocols in another order at the other end, none at both, at one end, or *)
(* none in common.                                                           *)
EXTENDS Http3

Config(client, server) == [e \in Ends |-> IF e = "client" THEN client ELSE server]

MCConfigurations ==
    {Config(<<1, 2>>, <<3, 2, 1>>), Config(NULL, NULL), Config(<<1>>, <<3>>), Config(<<1>>, NULL), Config(NULL, <<3>>)}
MCOne == {Config(<<1, 2>>, <<3, 2, 1>>)}
MCWithin == {<<p, p>> : p \in 1..3}
MCPayload == {<<7, 1, 9>>}
=============================================================================
