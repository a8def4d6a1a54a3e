----------------------------- MODULE MoqCatalog -----------------------------
(***************************************************************************)
(* The catalog of a MoQ publisher and its JSON form (imquic-moq.c).  A     *)
(* catalog is a version and a list of tracks, a track a function from the  *)
(* fields that are set; JSON is a function from keys to typed values.      *)
(***************************************************************************)
EXTENDS Integers, Sequences, SequencesExt, TLC

String(v) == [type |-> "string", v |-> v]
Integer(v) == [type |-> "integer", v |-> v]
Bool(v) == [type |-> "bool", v |-> v]
Array(v) == [type |-> "array", v |-> v]

(* What must be in a track and of which type; the keys are named as in JSON. *)
TrackTypes ==
    [namespace |-> "string", name |-> "string", packaging |-> "string", eventType |-> "string", isLive |-> "bool",
     targetLatency |-> "integer", role |-> "string", label |-> "string", renderGroup |-> "integer",
     altGroup |-> "integer", initData |-> "string", depends |-> "array", temporalId |-> "integer",
     spatialId |-> "integer", codec |-> "string", mimeType |-> "string", framerate |-> "integer",
     timescale |-> "integer", bitrate |-> "integer", width |-> "integer", height |-> "integer",
     samplerate |-> "integer", channelConfig |-> "string", displayWidth |-> "integer",
     displayHeight |-> "integer", lang |-> "string", parentName |-> "string", trackDuration |-> "integer"]
TrackRequired == {"name", "packaging", "isLive"}

CatalogTypes ==
    [version |-> "string", deltaUpdate |-> "bool", addTracks |-> "array", removeTracks |-> "array",
     cloneTracks |-> "array", generatedAt |-> "integer", isComplete |-> "bool", tracks |-> "array"]
CatalogRequired == {"version", "tracks"}

(* Every integer must not be negative. *)
Valid(json, types, required) ==
    /\ required \subseteq DOMAIN json
    /\ \A key \in DOMAIN json \cap DOMAIN types :
          /\ json[key].type = types[key]
          /\ json[key].type = "integer" => json[key].v >= 0

-----------------------------------------------------------------------------
(* Bits of the fields of a track: what JSON says is cut to as many.          *)
Bits == [targetLatency |-> 64, renderGroup |-> 8, temporalId |-> 8, spatialId |-> 8, samplerate |-> 32,
         width |-> 16, height |-> 16, framerate |-> 8, bitrate |-> 32]
Texts == {"namespace", "name", "packaging", "role", "codec", "channelConfig"}

Cut(n, bits) == IF bits < 32 THEN n % 2^bits ELSE n

NoCatalog == [version |-> "none", tracks |-> <<>>]

Create(version) == [version |-> version, tracks |-> <<>>]

(* An empty ns stands for NULL. *)
CreateTrack(ns, name, packaging, live) ==
    ("name" :> name) @@ ("packaging" :> packaging) @@ ("isLive" :> live)
    @@ (IF ns = "" THEN <<>> ELSE "namespace" :> ns) @@ [key \in DOMAIN Bits |-> 0]

AddTrack(catalog, track) == [catalog EXCEPT !.tracks = Append(@, track)]

ParseTrack(json) ==
    [key \in (DOMAIN json \cap (Texts \cup {"isLive"})) \cup DOMAIN Bits |->
        IF key \in DOMAIN json
        THEN IF key \in DOMAIN Bits THEN Cut(json[key].v, Bits[key]) ELSE json[key].v
        ELSE 0]

(* Versions that do not start with "draft-" are not for us. *)
IsDraft(version) == version \in {"draft-01", "draft-02"}

Parse(json) ==
    IF /\ Valid(json, CatalogTypes, CatalogRequired)
       /\ \A i \in DOMAIN json["tracks"].v : Valid(json["tracks"].v[i], TrackTypes, TrackRequired)
       /\ IsDraft(json["version"].v)
    THEN [version |-> json["version"].v,
          tracks |-> [i \in DOMAIN json["tracks"].v |-> ParseTrack(json["tracks"].v[i])]]
    ELSE NoCatalog

(* Numbers that are zero are left out. *)
SerializeTrack(track) ==
    [key \in {k \in DOMAIN track : k \in DOMAIN Bits => track[k] > 0} |->
        IF key \in DOMAIN Bits THEN Integer(track[key])
        ELSE IF key = "isLive" THEN Bool(track[key]) ELSE String(track[key])]

Serialize(catalog) ==
    ("version" :> String(catalog.version)) @@ ("generatedAt" :> Integer(0))
    @@ ("tracks" :> Array([i \in DOMAIN catalog.tracks |-> SerializeTrack(catalog.tracks[i])]))
=============================================================================
