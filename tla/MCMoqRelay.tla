----------------------------- MODULE MCMoqRelay -----------------------------
(* Two namespaces under one prefix, one of them watched by its own name too, *)
(* and a prefix without any; tracks of three objects in two groups; ranges   *)
(* up to the whole of a group and up to an object of one.                    *)
EXTENDS MoqRelay

MCNamespaces == {<<"a", "b">>, <<"a", "c">>}
MCWatched == {<<"a", "b">>, <<"a">>, <<"d">>}
MCTrack == {<<<<"a", "b">>, "t">>}
MCTracks == {<<<<"a", "b">>, "t">>, <<<<"a", "b">>, "u">>}
MCLocations == <<<<0, 0>>, <<0, 2>>, <<1, 0>>>>
MCLayer == [loc \in Range(MCLocations) |-> IF loc[2] = 0 THEN 0 ELSE 1]
MCFilters == {[type |-> "largest"], [type |-> "range", start |-> <<0, 1>>, endGroup |-> 1]}
MCRanges == {[start |-> <<0, 1>>, end |-> <<1, 0>>], [start |-> <<0, 0>>, end |-> <<0, 2>>]}
MCNoLimit == -1
MCJoins == {[absolute |-> FALSE, start |-> 0]}
=============================================================================
