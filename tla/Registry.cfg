\* Two accounts, three numbers, two APNs and two requests in flight; the APN
\* provider and the PCRF may fail.
SPECIFICATION MCSpec
CONSTANTS
  c1 = c1  c2 = c2  n1 = n1  n2 = n2  n3 = n3
  None = None
  Customers = {c1, c2}
  Numbers = {n1, n2, n3}
  Apns = {a1, a2}
  Requests = {h1, h2}
  Owned <- OneRegistered
  HomeApn = a1
  MaxUpload = 2
  MaxCount = 2
  MaxFaults = 1
SYMMETRY Symmetric
INVARIANTS TypeOK RemovedAtPcrf MembersVerified AccountsTrueInTurns
PROPERTIES BundleKeptInTurns ImplementsBook
