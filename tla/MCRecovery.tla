----------------------------- MODULE MCRecovery -----------------------------
(***************************************************************************)
(* The instance of RecoveryCodes for TLC.  A behaviour belongs to one of   *)
(* two scenarios: requests take turns and a call may fail, or they         *)
(* interleave at every await.                                              *)
(***************************************************************************)
EXTENDS RecoveryCodes, TLC

VARIABLE scenario    \* "turns" or "together", for good

InFlight == {h \in Requests : request[h] # Idle}

Within ==
  \/ scenario = "turns" /\ Cardinality(InFlight) <= 1
  \/ scenario = "together" /\ begun <= 1 /\ faults = 0

MCInit == Init /\ scenario \in {"turns", "together"}
MCNext == Next /\ UNCHANGED scenario /\ Within'
MCSpec == MCInit /\ [][MCNext]_<<vars, scenario>>

Symmetric == Permutations(Requests)

-----------------------------------------------------------------------------
(* What holds while requests take turns.                                   *)

InTurns(P) == scenario = "turns" => P

\* "Each code can be used once": verifyAndConsume answers true for a code at
\* most once, also when a call of it or of another request failed.
CodeOnceInTurns == InTurns(CodeOnce)

\* generateForUser leaves no second batch active, whatever failed before.
OneActiveBatchInTurns == InTurns(OneActiveBatch)

\* No save of a batch by verifyAndConsume or acknowledgeBatch undoes a
\* revocation, by the user or by the next batch.
RevokedStaysInTurns == InTurns(RevokedStaysRevoked)

\* getStatus reports the codes that are left, until a call fails.
StatusHonestInTurns == InTurns(StatusHonest)

\* However requests overlap, no batch is closed before its codes are used up,
\* and wrong codes lock the verification.  In turns, failing calls included,
\* a code is accepted once, one batch is active, a revoked one stays revoked,
\* and the status tells what is left.
BatchesSafe ==
  /\ TypeOK
  /\ NotClosedEarly
  /\ GuessesBounded
  /\ CodeOnceInTurns
  /\ OneActiveBatchInTurns
  /\ RevokedStaysInTurns
  /\ StatusHonestInTurns

Ledger == INSTANCE CodeLedger WITH
  Codes <- Batches \X Codes,
  valid <- IF scenario = "turns" THEN Valid ELSE {},
  redeemed <- IF scenario = "turns" THEN Redeemed ELSE {},
  revoked <- IF scenario = "turns" THEN Withdrawn ELSE {}

\* CodeLedger: a code that was redeemed or withdrawn never becomes valid.
LedgerKept == Ledger!Spec

=============================================================================
