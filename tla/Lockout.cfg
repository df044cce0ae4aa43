\* Two requests or jobs about an account, in turns, overlapping, or with the
\* unlock job beside them; three wrong passwords per half hour.
SPECIFICATION MCSpec
CONSTANTS
  None = None
  Requests = {h1, h2}
  Uses <- Operations
  MayOverlap <- Careless
  Threshold = 2
  Block = 3
  MaxTime = 2
  MaxWrong = 3
  MaxFaults = 1
INVARIANTS AccountSafe MissesBlockUnlessLifted LockHoldsWithoutJob
PROPERTY LockEnds
