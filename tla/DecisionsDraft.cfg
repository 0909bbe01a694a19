SPECIFICATION Spec
CONSTANTS
  Cases = {c1}
  Replays = {}
  Promotions = {}
  Sayings = {"no gst", "photos"}
  Photos = {"false"}
  Clients = {"new"}
  MaxFailures = 0
INVARIANT ApprovedDraftIsSent
CHECK_DEADLOCK FALSE
