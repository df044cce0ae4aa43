\* Two requests about the sessions of a user: in turns, beside readers, or
\* together.  Three sessions in turns, two or one otherwise.
SPECIFICATION MCSpec
CONSTANTS
  None = None
  MaxSessions = 3
  Limit = 2
  Requests = {h1, h2}
  MayOverlap <- Operations
  MaxFaults = 1
INVARIANTS CachesSafe RevokedStaysForReaders
PROPERTIES ImplementsLiveSessions ListConverges
