------------------------- MODULE MoqRequestContract -------------------------
(***************************************************************************)
(* What MoQ promises about a request, or about an update of one: the       *)
(* application that answers decides once, and the application that asked   *)
(* is told at most once, and only what was decided.                        *)
(***************************************************************************)
EXTENDS Sequences

CONSTANTS Ids           \* requests and updates

Answers == {"OK", "ERROR"}

VARIABLES
  decision,             \* [Ids -> Seq(Answers)]: what the responder answered
  told                  \* [Ids -> Seq(Answers)]: callbacks of the requester

contractVars == <<decision, told>>

Init ==
  /\ decision = [i \in Ids |-> <<>>]
  /\ told = [i \in Ids |-> <<>>]

Decide(i) ==
  /\ decision[i] = <<>>
  /\ \E a \in Answers: decision' = [decision EXCEPT ![i] = <<a>>]
  /\ UNCHANGED told

Tell(i) ==
  /\ decision[i] # <<>>
  /\ told[i] = <<>>
  /\ told' = [told EXCEPT ![i] = decision[i]]
  /\ UNCHANGED decision

Next == \E i \in Ids: Decide(i) \/ Tell(i)

Spec == Init /\ [][Next]_contractVars

=============================================================================
