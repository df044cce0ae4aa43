\* One request at a time about one session.
SPECIFICATION Spec
CONSTANTS
  None = None
  MaxSessions = 1
  Limit = 1
  Requests = {h1}
  MayOverlap = {}
  MaxFaults = 0
INVARIANT HolderIsServed
CHECK_DEADLOCK FALSE
