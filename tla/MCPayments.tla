---------------------------- MODULE MCPayments ----------------------------
(***************************************************************************)
(* Instances of Payments for TLC.                                          *)
(***************************************************************************)
EXTENDS Payments, TLC

CONSTANTS c1, c2, t1, t2

OneOwner == [t \in Transactions |-> c1]
TwoOwners == [t \in Transactions |-> IF t = t1 THEN c1 ELSE c2]

Slots == Permutations(Requests)

=============================================================================
