----------------------------- MODULE MCLockout ------------------------------
(***************************************************************************)
(* The instance of LoginLockout for TLC.  A behaviour belongs to one of    *)
(* three scenarios: everything takes turns, and a lock by staff may fail   *)
(* half way; wrong passwords and edits overlap a lock by staff, until a    *)
(* call fails; the unlock job runs beside wrong passwords and edits.       *)
(***************************************************************************)
EXTENDS LoginLockout, FiniteSets, TLC

VARIABLE scenario    \* "turns", "careless" or "job", for good

\* Logins with a wrong password, and edits of the account by staff.
Careless == {"wrong", "edit"}

Happens ==
  CASE scenario = "turns" -> Operations
    [] scenario = "careless" -> Careless \union {"lock"}
    [] scenario = "job" -> Careless \union {"lock", "job"}

InFlight == {h \in Requests : request[h] # Idle}

\* Beside the job no password and no lock is tried after half an hour.
Early == now > 0 => \A h \in Requests : request[h].op \notin {"wrong", "lock"}

Within ==
  /\ \A h \in InFlight : request[h].op \in Happens
  /\ \/ /\ scenario = "turns"
        /\ Cardinality(InFlight) <= 1
        /\ barred => \A h \in InFlight : request[h].op # "lock"
     \/ /\ scenario = "careless"
        /\ now = 0
        /\ faults = 0 \/ Cardinality(InFlight) <= 1
     \/ scenario = "job" /\ Early /\ faults = 0

MCInit == Init /\ scenario \in {"turns", "careless", "job"}

\* In turns only a lock by staff fails.
Fails ==
  scenario = "turns" /\ faults' > faults =>
    \E h \in InFlight : request[h].op = "lock"

MCNext == Next /\ UNCHANGED scenario /\ Within' /\ Fails
MCSpec == MCInit /\ [][MCNext]_<<vars, scenario>> /\ Fairness

-----------------------------------------------------------------------------
(* What holds in some scenarios.                                           *)

\* After Threshold wrong passwords in half an hour the account is blocked,
\* also when they are sent together and overwrite each other's row, or an
\* edit does: the counter and the key in Redis make up for it.
MissesBlockUnlessLifted == scenario # "turns" => MissesBlock

\* A lock set by staff blocks the account for its half hour, although edits
\* and failing logins in flight save an entity without it.
LockHoldsWithoutJob == scenario = "careless" => LockHolds

\* In turns, a suspended account admits no login until it is activated (or
\* staff lock it on top: the end of the lock activates it).
SuspendedStaysOutInTurns == scenario = "turns" => SuspendedStaysOut

\* In turns, until a lock failed half way, the copy of a user that the next
\* edit starts from is its row.
CopyTrueInTurns == scenario = "turns" /\ faults = 0 => CopyTrue

\* In turns, neither Redis nor an edit lets a suspended user in.
AccountSafe == TypeOK /\ SuspendedStaysOutInTurns /\ CopyTrueInTurns

\* Whoever is locked for a time is unlocked by the job when the time is over,
\* provided there are moments without a request (half hours pass only then).
LockEnds ==
  []<>Quiet =>
    (scenario = "job" /\ row.status = "locked" ~> row.status # "locked")

=============================================================================
