--------------------------- MODULE MCMoqRequests ---------------------------
(* Instances of MoqRequests for TLC. *)
EXTENDS MoqRequests

(* Short messages often have bodies of one length: here all answers do, all *)
(* requests with the updates, and all notices.                              *)
Answers == TypedOks \cup {"REQUEST_OK", "REQUEST_ERROR"}
PlainSizes ==
  [k \in Kinds |-> CASE k \in Answers -> 1
                     [] k \in AllTypes \cup {"REQUEST_UPDATE"} -> 2
                     [] k \in Notes -> 3
                     [] k = "PUBLISH_DONE" -> 4
                     [] k = "GOAWAY" -> 5]

=============================================================================
