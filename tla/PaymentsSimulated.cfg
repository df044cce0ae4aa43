\* The simulation timers against requests, no outages: liveness.
SPECIFICATION MCSpec
CONSTANTS
  c1 = c1  c2 = c2  t1 = t1  t2 = t2
  None = None
  Customers = {c1}
  Transactions = {t1}
  CustomerOf <- OneOwner
  Requests = {h1, h2}
  Methods = {"mobile_money", "card"}
  Price = 1
  Simulate = {TRUE}
  Statuses = {"active"}
  Counts = {1}
  Words = {"paid", "failed"}
  MaxSessions = 1
  MaxNotices = 1
  MaxFaults = 0
PROPERTIES RequestsEnd SimulationDelivers
