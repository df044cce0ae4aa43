------------------------ MODULE MCRegistryScenarios ------------------------
(***************************************************************************)
(* NumberRegistry in three scenarios, and the promise of NumberBook:       *)
(*   "together"  requests about one account and number overlap at every    *)
(*               step of a save, while the account changes its APN         *)
(*   "turns"     requests about an account or a number wait for one        *)
(*               another; two accounts compete for numbers                 *)
(*   "renamed"   so they do; an account changes its APN and its name is    *)
(*               registered again; the database or the process fails once  *)
(* The APN provider and the PCRF may fail in all of them.                  *)
(***************************************************************************)
EXTENDS MCRegistry

VARIABLE scenario

Began(h) == request[h] = Idle /\ request'[h] # Idle

\* The numbers a request is about.
Concerns(r) ==
  ({r.number, r.primary} \union r.todo \union r.added) \ {None}

\* Another request about the account, or about a number, is in flight.
Meets(h) ==
  LET r == request'[h] IN
  \E g \in Requests \ {h} :
    /\ request[g] # Idle
    /\ \/ request[g].who = r.who
       \/ Concerns(request[g]) \cap Concerns(r) # {}

\* Requests that clients send in each scenario.
Plays(h) ==
  LET r == request'[h] IN
  CASE scenario = "together" ->
         /\ r.who = c1
         /\ r.op \in {"addPrimary", "add", "remove", "update"}
         /\ r.number \in {None, n2}
         /\ r.primary \in {None, n1}
         /\ r.todo = {} \/ r.op = "update"
         /\ r.op = "add" => r.cus.count = 0
    [] scenario = "turns" ->
         /\ ~Meets(h)
         /\ r.cus.apn = HomeApn
         /\ r.op = "register" => ~customer[r.who].known
    [] OTHER ->
         /\ ~Meets(h)
         /\ r.who = c1
         /\ {r.number, r.primary} \subseteq {None, n1, n2}
         /\ r.todo = {} \/ r.op = "update"

MCInit == Init /\ scenario \in {"together", "turns", "renamed"}

MCNext ==
  /\ Next
  /\ UNCHANGED scenario
  /\ \A h \in Requests : Began(h) => Plays(h)
  /\ scenario # "renamed" => faults' = 0

MCSpec == MCInit /\ [][MCNext]_<<vars, scenario>>

Turns == scenario = "turns"

\* While requests about an account wait for one another, the count of its row
\* is that of its secondary numbers, and its primary numbers were verified for
\* the APN it changed to.
AccountsTrueInTurns ==
  scenario # "together" => CountExact /\ PrimariesVerified

\* A bundle on a number is not wiped by the row of zeros that adding the
\* number, or looking at its balance, creates, while no account is registered
\* again.
BundleKeptInTurns ==
  [][Turns => \A n \in Numbers :
       balance[n] = "bundle" => balance'[n] = "bundle"]_vars

Book == INSTANCE NumberBook WITH
  primaryOf <- [n \in Numbers |->
                  IF Turns THEN {c \in Customers : n \in customer[c].primaries}
                  ELSE {c \in Customers : n \in Owned[c]}],
  secondaryOf <- [n \in Numbers |->
                    {c \in Customers :
                       Turns /\ Secondary(n) /\ member[n].who = c}]

\* NumberRegistry implements NumberBook while requests about one account or
\* number do not overlap: whatever fails, a number has one place, a primary
\* number is never lost, and a secondary one leaves only its own account.
ImplementsBook == Book!Spec

=============================================================================
