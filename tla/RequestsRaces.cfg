CONSTANTS
  Callers = {c1, c2}
  Answerers = {a1, a2}
  Requests = {r1}
  Updates = {u1}
  None = None
  Version = 18
  Types = {"SUBSCRIBE", "PUBLISH", "SUBSCRIBE_NAMESPACE", "SUBSCRIBE_TRACKS", "TRACK_STATUS", "FETCH", "PUBLISH_NAMESPACE"}
  Handled = {"SUBSCRIBE", "PUBLISH", "SUBSCRIBE_TRACKS", "TRACK_STATUS", "PUBLISH_NAMESPACE"}
  HandlesUpdates = TRUE
  Size <- PlainSizes
  MaxNotes = 2
SPECIFICATION Spec
INVARIANTS
    
    UnhandledRejected
CHECK_DEADLOCK FALSE
