----------------------------- MODULE NumberBook -----------------------------
(***************************************************************************)
(* What the registry promises about a mobile number: it is free, or the    *)
(* primary number of one account for good, or a secondary number of one    *)
(* account until that account gives it up.                                 *)
(***************************************************************************)
CONSTANTS Customers, Numbers, Owned

VARIABLES
  primaryOf,     \* the accounts a number is a primary number of
  secondaryOf    \* the accounts it is a secondary number of

book == <<primaryOf, secondaryOf>>

Init ==
  /\ primaryOf = [n \in Numbers |-> {c \in Customers : n \in Owned[c]}]
  /\ secondaryOf = [n \in Numbers |-> {}]

Free(n) == primaryOf[n] = {} /\ secondaryOf[n] = {}

Claim(n, c) ==
  /\ Free(n)
  /\ primaryOf' = [primaryOf EXCEPT ![n] = {c}]
  /\ UNCHANGED secondaryOf

Join(n, c) ==
  /\ Free(n)
  /\ secondaryOf' = [secondaryOf EXCEPT ![n] = {c}]
  /\ UNCHANGED primaryOf

Leave(n, c) ==
  /\ secondaryOf[n] = {c}
  /\ secondaryOf' = [secondaryOf EXCEPT ![n] = {}]
  /\ UNCHANGED primaryOf

Next ==
  \E n \in Numbers, c \in Customers : Claim(n, c) \/ Join(n, c) \/ Leave(n, c)

Spec == Init /\ [][Next]_book
=============================================================================
