----------------------------- MODULE MCPasskeys -----------------------------
(***************************************************************************)
(* The instance of Passkeys for TLC.  A behaviour belongs to one of three  *)
(* scenarios: requests take turns and a call may fail; revocations and     *)
(* logins overlap; registrations and revocations do.                       *)
(***************************************************************************)
EXTENDS Passkeys, TLC

VARIABLE scenario    \* "turns", "logins" or "settings", for good

InFlight == {h \in Requests : request[h] # Idle}
Only(ops) == \A h \in InFlight : request[h].op \in ops

Within ==
  \/ scenario = "turns" /\ Cardinality(InFlight) <= 1
  \/ /\ scenario = "logins"
     /\ Only({"revoke", "login"})
     /\ pending = 0
     /\ Cardinality(open) <= 1
     /\ faults = 0
  \/ /\ scenario = "settings"
     /\ Only({"register", "revoke"})
     /\ open = {}

\* The passkeys the user has at the start.
Has ==
  CASE scenario = "turns" -> Enabled = Counting
    [] scenario = "logins" -> Enabled = Keys
    [] OTHER -> TRUE

MCInit == Init /\ scenario \in {"turns", "logins", "settings"} /\ Has
MCNext == Next /\ UNCHANGED scenario /\ Within'
MCSpec == MCInit /\ [][MCNext]_<<vars, scenario>>

Symmetric == Permutations(Requests)

-----------------------------------------------------------------------------
(* What holds in some scenarios.                                           *)

\* No save of a passkey's row undoes a revocation, unless a login that found
\* the passkey before is under way: also when the passkey is registered again.
RevokedStaysUnlessLogin == scenario # "logins" => RevokedStaysRevoked

\* The factor goes with the last passkey, also when the passkeys are revoked
\* together and logins write their rows; registrations wait.
FactorBackedUnlessRegistering == scenario # "settings" => FactorBacked

\* In turns a signature and a second factor are good for one login, also when
\* deleting the challenge fails, and the authenticator does not count.
AcceptedOnceInTurns == scenario = "turns" => AcceptedOnce

\* What the user's settings and logins write over one another's rows.
KeysSafe ==
  /\ TypeOK
  /\ RegisteredOnce
  /\ RevokedStaysUnlessLogin
  /\ FactorBackedUnlessRegistering
  /\ AcceptedOnceInTurns

\* In turns, no save takes the counter of a passkey back, not even that of a
\* revocation, or a signature that was accepted could be accepted again.
CounterGrowsInTurns ==
  [][scenario = "turns" =>
       \A k \in Keys : cred'[k].counter >= cred[k].counter]_vars

Ring == INSTANCE KeyRing WITH
  live <- IF scenario = "turns" THEN Enabled ELSE {},
  dead <- {k \in Keys : scenario = "turns" /\ cred[k].status = "revoked"},
  opened <- {e \in Keys \X Challenges : scenario = "turns" /\ accepted[e] > 0}

\* Passkeys implements KeyRing while requests take turns, failing calls
\* included: only a live passkey opens a challenge, and it opens it once.
ImplementsKeyRing == Ring!Spec

=============================================================================
