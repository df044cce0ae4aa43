------------------------- MODULE MCPaymentScenarios -------------------------
(***************************************************************************)
(* Payments in three scenarios, and the promise of PurchaseLedger:           *)
(*   "together"  requests about one account overlap                        *)
(*   "failing"   so they do, timers fire and a call to the database or the *)
(*               process fails                                             *)
(*   "turns"     requests about an account wait for one another, those     *)
(*               about another do not; staff deactivate accounts           *)
(***************************************************************************)
EXTENDS MCPayments

VARIABLE scenario

Began(h) == request[h] = Idle /\ request'[h] # Idle

\* Another request about the account is in flight.
Meets(h) ==
  \E g \in Requests \ {h} :
    request'[h].who # None /\ request[g].who = request'[h].who

\* Sessions that exist or that an admitted request is going to create.
Sessions ==
  Cardinality({s \in SessionIds : Exists(s)}) +
  Cardinality({h \in Requests : request[h].at \in
    {"insertTransaction", "reopenTransaction", "insertSession"}})

\* Who sends requests in each scenario, what they say, and what staff do.
Plays(h) ==
  LET r == request'[h] IN
  CASE scenario = "together" ->
         /\ r.who = c1
         /\ r.cus.status = "active"
         /\ r.op = "create" => r.count = 2
         /\ r.want \in {"none", "confirmed", "failed"}
    [] scenario = "failing" ->
         /\ r.who = c1
         /\ r.cus.status = "active"
         /\ r.op = "create" => r.count = 1
         /\ r.op \in {"create", "retry"} => Sessions = 0
         /\ r.want # "failed"
         /\ r.want = "confirmed" /\ r.op # "simulate" => notices[t1] = 0
    [] OTHER ->
         /\ ~Meets(h)
         /\ r.op = "create" => r.count = 2
         /\ r.want \in {"none", "confirmed", "failed"}

\* What providers, timers and faults do.
Fits ==
  IF scenario = "failing"
  THEN /\ \A s \in SessionIds : Exists(s)' => session'[s].method = "prn"
       /\ \A h \in Requests :
            request[h].at = "initiate" /\ request'[h] = Idle /\ session' # session
              => timers' # timers
  ELSE /\ \A s \in SessionIds :
            Exists(s)' => session'[s].method = "mobile_money"
       /\ timers' = {}
       /\ faults' = 0
       /\ notices'[t2] <= 1

MCInit == Init /\ scenario \in {"together", "failing", "turns"}

MCNext ==
  /\ Next
  /\ UNCHANGED scenario
  /\ \A h \in Requests : Began(h) => Plays(h)
  /\ Fits

MCSpec == MCInit /\ [][MCNext]_<<vars, scenario>>

Turns == scenario = "turns"

\* A bundle is subscribed for a reported payment only, and as many are claimed
\* as were paid for, also when notices overlap, are late or are about a
\* session that a retry replaced.
PaidFor == SubscribedOnNotice /\ UnitsPaidFor

\* While requests about an account wait for one another, a receipt is final,
\* the totals of an account row are those of its provisioned sessions, and an
\* account keeps the status staff gave it.
RowsTrueInTurns == Turns => ReceiptsAreFinal /\ TotalsExact /\ StatusSticks

\* A transaction counts as provisioned from the PCRF's acknowledgement on,
\* although its row is saved some steps later.
Committed(t) ==
  \E h \in Requests :
    /\ request[h].txn = t
    /\ request[h].at = "saving"
    /\ "transaction" \in request[h].writes
    /\ request[h].tStatus = "provisioned"

Ledger == INSTANCE PurchaseLedger WITH
  stage <- [t \in Transactions |->
              IF ~Turns THEN "absent"
              ELSE IF Committed(t) THEN "provisioned"
              ELSE transaction[t].status],
  noticed <- {t \in Transactions : Turns /\ notices[t] > 0},
  delivered <- IF Turns THEN fulfilled ELSE [t \in Transactions |-> 0]

\* Payments implements PurchaseLedger while no two requests about one
\* customer overlap and neither the database nor the process fails: failure
\* of the provider or the PCRF, retries, late and repeated notices included.
ImplementsLedger == Ledger!Spec

=============================================================================
