CONSTANTS
  Callers = {c1, c2}
  Answerers = {a1}
  Requests = {r1}
  Updates = {u1, u2}
  None = None
  Version = 17
  Types = {"SUBSCRIBE", "PUBLISH", "FETCH", "SUBSCRIBE_NAMESPACE"}
  Handled = {"SUBSCRIBE", "PUBLISH", "FETCH", "SUBSCRIBE_NAMESPACE"}
  HandlesUpdates = TRUE
  Size <- PlainSizes
  MaxNotes = 1
SPECIFICATION LiveSpec
INVARIANTS
    NoViolation
    StatesAgree
PROPERTIES
    AnswersMatch
    AnswerArrives
CHECK_DEADLOCK FALSE
