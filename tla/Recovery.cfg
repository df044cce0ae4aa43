\* Two requests about the recovery codes of a user, in turns or together.
SPECIFICATION MCSpec
CONSTANTS
  Requests = {h1, h2}
  MayOverlap = {"generate", "revoke", "acknowledge", "verify"}
  CodeCount = 3
  MaxAttempts = 2
  MaxBatches = 2
  MaxCount = 5
  MaxFaults = 1
SYMMETRY Symmetric
INVARIANT BatchesSafe
PROPERTY LedgerKept
\* When the bounds are reached and verification is locked, nothing is left.
CHECK_DEADLOCK FALSE
