\* Two requests about two passkeys, one of which counts its signatures.
SPECIFICATION MCSpec
CONSTANTS
  Requests = {h1, h2}
  MayOverlap = {"register", "revoke", "login", "mfa", "challenge"}
  Keys = {k1, k2}
  Counting = {k1}
  MaxIssued = 2
  MaxCount = 2
  MaxFaults = 1
SYMMETRY Symmetric
INVARIANT KeysSafe
PROPERTIES CounterGrowsInTurns ImplementsKeyRing
\* When the bounds are reached nothing may be left.
CHECK_DEADLOCK FALSE
