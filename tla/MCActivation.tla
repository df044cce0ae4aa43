---------------------------- MODULE MCActivation ----------------------------
(***************************************************************************)
(* The instance of Activation for TLC.  A behaviour belongs to one of four *)
(* scenarios: a customer follows the link while staff and purchases change *)
(* the account, in turns; he follows it in turns while a call may fail;    *)
(* requests with tokens overlap; purchases overlap them.  Where requests   *)
(* overlap, three challenges are created and none expires; one may when a  *)
(* call may fail.                                                          *)
(***************************************************************************)
EXTENDS Activation, TLC

VARIABLE scenario    \* "staff", "failing", "tokens" or "purchases", for good

\* The chain a customer follows; without activateAccount.
Chain == {"register", "otp", "verify", "password"}

Redeeming == {"otp", "verify", "password", "account"}

InFlight == {h \in Requests : request[h] # Idle}
InTurns == InFlight \subseteq {CHOOSE h \in Requests : TRUE}
InTurnsBut(ops) ==
  Cardinality({h \in InFlight : request[h].op \notin ops}) <= 1
Only(ops) == \A h \in InFlight : request[h].op \in ops

Expired == {i \in DOMAIN rows : rows[i].expired}
Short == Len(rows) <= 3 /\ Expired = {}

Within ==
  \/ /\ scenario = "staff"
     /\ Only(Operations \ {"account"}) /\ InTurns
     /\ Len(rows) <= 3 /\ faults = 0
  \/ /\ scenario = "failing"
     /\ Only(Chain) /\ InTurns /\ Cardinality(Expired) <= 1
  \/ /\ scenario = "tokens"
     /\ Only({"register"} \union Redeeming) /\ InTurnsBut(Redeeming)
     /\ Short /\ faults = 0
  \/ /\ scenario = "purchases"
     /\ Only(Operations \ {"status"})
     /\ InTurnsBut({"otp", "purchase", "account"})
     /\ Short /\ faults = 0

Scenarios == {"staff", "failing", "tokens", "purchases"}

MCInit == Init /\ scenario \in Scenarios
MCNext == Next /\ UNCHANGED scenario /\ Within'
MCSpec == MCInit /\ [][MCNext]_<<vars, scenario>> /\ Fairness

-----------------------------------------------------------------------------
(* What holds in some scenarios.                                           *)

\* At most one customer was registered with the contact address.
Sole ==
  \A c, d \in Customers :
    customer[c].status # "none" /\ customer[d].status # "none" => c = d

\* Between requests that take turns and do not fail, a customer who may buy
\* may log in, and one who was deactivated may not, as long as no other
\* customer was registered with his address.
StatusesAgreeInTurns == scenario = "staff" /\ Sole => StatusesAgree

\* In turns, a customer who set his password and has no setup token left
\* stays deactivated until staff reactivate him, whatever tokens he redeems,
\* as long as no other customer was registered with his address.
ClosedStaysInTurns == scenario = "staff" /\ Sole => ClosedStaysClosed

\* What requests and staff write over one another's rows: a spent challenge
\* stays spent and no purchase is forgotten in any scenario, and in turns the
\* two rows of a customer agree and a closed account stays closed.
RowsSafe ==
  /\ TypeOK
  /\ SpentStaysSpent
  /\ TotalsKept
  /\ StatusesAgreeInTurns
  /\ ClosedStaysInTurns

\* One OTP is worth one setup token, in turns, also when the request that
\* redeems it fails between marking it and creating the token.
OneSetupPerOtpInTurns ==
  scenario \in {"staff", "failing"} => OneSetupPerOtp

\* An activation that failed half-way can be repeated with a token, as long
\* as no other customer was registered with the address.
NotStrandedInChain == scenario = "failing" /\ Sole => NotStranded

\* Whatever is used or expired is deleted by the job, which runs for ever,
\* although requests insert again a row they read before it was deleted.
ArtifactsGo ==
  []<>(scenario = "failing" =>
         \A i \in DOMAIN rows :
           rows[i].isUsed \/ rows[i].expired => rows[i].deleted)

=============================================================================
