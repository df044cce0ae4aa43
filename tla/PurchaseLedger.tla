--------------------------- MODULE PurchaseLedger ---------------------------
(***************************************************************************)
(* What the purchase workflow promises its callers: a transaction is       *)
(* opened, may fail and be retried any number of times, and is fulfilled   *)
(* at most once, after a payment notice, for good.                         *)
(***************************************************************************)
EXTENDS Naturals

CONSTANT Transactions

VARIABLES
  stage,      \* "absent", "pending", "failed" or "provisioned"
  noticed,    \* transactions whose payment was reported
  delivered   \* how often the bundle of a transaction was provisioned

ledger == <<stage, noticed, delivered>>

Init ==
  /\ stage = [t \in Transactions |-> "absent"]
  /\ noticed = {}
  /\ delivered = [t \in Transactions |-> 0]

Open(t) ==
  /\ stage[t] = "absent"
  /\ stage' = [stage EXCEPT ![t] = "pending"]
  /\ UNCHANGED <<noticed, delivered>>

Fail(t) ==
  /\ stage[t] = "pending"
  /\ stage' = [stage EXCEPT ![t] = "failed"]
  /\ UNCHANGED <<noticed, delivered>>

Retry(t) ==
  /\ stage[t] = "failed"
  /\ stage' = [stage EXCEPT ![t] = "pending"]
  /\ UNCHANGED <<noticed, delivered>>

Notice(t) ==
  /\ stage[t] # "absent"
  /\ noticed' = noticed \union {t}
  /\ UNCHANGED <<stage, delivered>>

\* A failed transaction is fulfilled too when its payment arrives late.
Fulfil(t) ==
  /\ t \in noticed
  /\ stage[t] \in {"pending", "failed"}
  /\ delivered[t] = 0
  /\ stage' = [stage EXCEPT ![t] = "provisioned"]
  /\ delivered' = [delivered EXCEPT ![t] = 1]
  /\ UNCHANGED noticed

Next ==
  \E t \in Transactions :
    Open(t) \/ Fail(t) \/ Retry(t) \/ Notice(t) \/ Fulfil(t)

Spec == Init /\ [][Next]_ledger
=============================================================================
