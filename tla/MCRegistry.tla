----------------------------- MODULE MCRegistry -----------------------------
(***************************************************************************)
(* Instances of NumberRegistry for TLC.                                    *)
(***************************************************************************)
EXTENDS NumberRegistry, TLC

CONSTANTS c1, c2, n1, n2, n3

\* One account has a primary number, the other registers.
OneRegistered == [c \in Customers |-> IF c = c1 THEN {n1} ELSE {}]

Symmetric == Permutations(Requests)

=============================================================================
