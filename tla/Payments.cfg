\* Two accounts with a purchase each and two requests in flight; the provider
\* and the PCRF may fail.
SPECIFICATION MCSpec
CONSTANTS
  c1 = c1  c2 = c2  t1 = t1  t2 = t2
  None = None
  Customers = {c1, c2}
  Transactions = {t1, t2}
  CustomerOf <- TwoOwners
  Requests = {h1, h2}
  Methods = {"mobile_money", "prn"}
  Price = 1
  Simulate = {FALSE, TRUE}
  Statuses = {"deactivated", "active"}
  Counts = {1, 2}
  Words = {"missing", "paid", "failed", "processing", "expired"}
  MaxSessions = 2
  MaxNotices = 2
  MaxFaults = 1
SYMMETRY Slots
INVARIANTS TypeOK SavesAreBacked ProvisionedIsFulfilled
INVARIANTS TotalsNeverOverstated PaidFor RowsTrueInTurns
PROPERTY ImplementsLedger
