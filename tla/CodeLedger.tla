----------------------------- MODULE CodeLedger -----------------------------
(***************************************************************************)
(* What recovery codes promise, without rows and requests: codes are given *)
(* out in batches, a new batch takes the place of the old one, and a code  *)
(* that was redeemed or revoked is never valid again.                      *)
(***************************************************************************)
CONSTANTS
  Codes         \* every code there may be

VARIABLES
  valid,        \* codes that will be accepted
  redeemed,     \* codes that were used
  revoked       \* codes that were withdrawn before they were used

vars == <<valid, redeemed, revoked>>

Init == valid = {} /\ redeemed = {} /\ revoked = {}

\* Codes that were never given out take the place of the valid ones.
Issue ==
  /\ valid' \in SUBSET (Codes \ (valid \union redeemed \union revoked))
  /\ revoked' = revoked \union valid
  /\ UNCHANGED redeemed

Redeem(c) ==
  /\ c \in valid
  /\ valid' = valid \ {c}
  /\ redeemed' = redeemed \union {c}
  /\ UNCHANGED revoked

Withdraw ==
  /\ valid' = {}
  /\ revoked' = revoked \union valid
  /\ UNCHANGED redeemed

Next ==
  \/ Issue
  \/ \E c \in Codes : Redeem(c)
  \/ Withdraw

Spec == Init /\ [][Next]_vars

=============================================================================
