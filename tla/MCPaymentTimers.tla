-------------------------- MODULE MCPaymentTimers --------------------------
(***************************************************************************)
(* Payments with the simulation on: the requests and timers of one         *)
(* purchase while the payment provider and the PCRF answer, and neither    *)
(* the database nor the process fails.                                     *)
(***************************************************************************)
EXTENDS MCPayments

MCNext ==
  /\ Next
  /\ faults' = 0
  /\ \A h \in Requests : ~Refused(h)

MCSpec == Init /\ [][MCNext]_vars /\ Fairness

=============================================================================
