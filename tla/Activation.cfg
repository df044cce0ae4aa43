\* Two requests about one customer; up to four challenges, one change of
\* status by staff, one purchase, one failing call.
SPECIFICATION MCSpec
CONSTANTS
  None = None
  Requests = {h1, h2}
  Customers = {c1}
  Uses <- Operations
  MayOverlap <- Operations
  MaxRows = 4
  MaxChanges = 1
  MaxPurchases = 1
  MaxFaults = 1
INVARIANTS RowsSafe OneSetupPerOtpInTurns NotStrandedInChain
PROPERTY ArtifactsGo
\* When everything has expired and the bounds are reached, nothing is left.
CHECK_DEADLOCK FALSE
