\* Two positive notices for one payment, handled together.
SPECIFICATION Spec
CONSTANTS
  c1 = c1  c2 = c2  t1 = t1  t2 = t2
  None = None
  Customers = {c1}
  Transactions = {t1}
  CustomerOf <- OneOwner
  Requests = {h1, h2}
  Methods = {"mobile_money"}
  Price = 1
  Simulate = {FALSE}
  Statuses = {"active"}
  Counts = {1}
  Words = {"paid", "failed"}
  MaxSessions = 1
  MaxNotices = 2
  MaxFaults = 0
SYMMETRY Slots
INVARIANTS ProvisionedOnce
