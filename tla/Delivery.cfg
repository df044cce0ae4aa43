\* Two notifications, two workers and two requests; at most four failed calls
\* and two jobs taken for dead.
SPECIFICATION MCSpec
CONSTANTS
  None = None
  Notes = {n1, n2}
  Workers = {w1, w2}
  Callers = {q1, q2}
  Unreachable = {"email", "push"}
  Muted = {"in_app"}
  Calls = {"create", "markRead", "markAllRead", "subscribe"}
  MayOverlap = TRUE
  MaxFaults = 4
  MaxStalls = 2
INVARIANTS DeliverySafe UnreadExactInTurns
PROPERTIES InboxKept SentInTheEnd
\* When every notification was created and every job has ended, nothing is left.
CHECK_DEADLOCK FALSE
