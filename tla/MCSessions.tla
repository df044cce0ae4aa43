----------------------------- MODULE MCSessions -----------------------------
(***************************************************************************)
(* The instance of UserSessions for TLC, and the promise of LiveSessions.  *)
(* A behaviour belongs to one of three scenarios: the requests of a user   *)
(* take turns and nothing fails; lists and refreshes run beside one other  *)
(* request; everything runs together, about one session.                   *)
(***************************************************************************)
EXTENDS UserSessions, TLC

VARIABLE scenario    \* "turns", "readers" or "together", for good

\* Operations that read rows and caches and write only caches.
Readers == {"list", "refresh"}

InFlight == {h \in Requests : request[h] # Idle}
Writing == {h \in InFlight : request[h].op \notin Readers}

\* Sessions there are or will be, whatever requests do from now on.
Coming == Cardinality(Arriving) + Cardinality({s \in Sessions : row[s] # "absent"})

Within ==
  \/ scenario = "turns" /\ Cardinality(InFlight) <= 1 /\ faults = 0
  \/ scenario = "readers" /\ Cardinality(Writing) <= 1 /\ Coming + faults <= 2
  \/ scenario = "together" /\ Coming <= 1

MCInit == Init /\ scenario \in {"turns", "readers", "together"}
MCNext == Next /\ UNCHANGED scenario /\ Within'
MCSpec == MCInit /\ [][MCNext]_<<vars, scenario>> /\ Fairness

-----------------------------------------------------------------------------
(* What holds in some scenarios.                                           *)

\* A session whose revocation was completed is never active again while
\* logins and revocations wait for one another, whatever lists and refreshes
\* beside them read from the caches: a revoked session is not brought back
\* by rotateRefreshToken's save.
RevokedStaysForReaders == scenario # "together" => RevokedStaysRevoked

\* A list filled with rows read before a revocation is not believed: the
\* session's marker contradicts it.  A login beside the revocation deletes
\* the marker, so this too is for the other scenarios.
StaleListIsMarkedForReaders == scenario # "together" => StaleListIsMarked

\* Logins in turns keep the policy's number of sessions, although they count
\* what may be a cached list.
LimitKeptInTurns == scenario = "turns" => LimitKept

\* Between requests that take turns the caches agree with the rows.
CachesTrueInTurns == scenario = "turns" => CachesTrue

\* What Redis says of the rows: stale lists are contradicted, and in turns
\* nothing is stale and the limit is kept.
CachesSafe ==
  /\ TypeOK
  /\ StaleListIsMarkedForReaders
  /\ LimitKeptInTurns
  /\ CachesTrueInTurns

Promise == INSTANCE LiveSessions WITH
  live <- IF scenario = "turns" THEN Active ELSE {},
  ended <- IF scenario = "turns" THEN {s \in Sessions : row[s] = "ended"}
                                 ELSE {}

\* UserSessions implements LiveSessions while the requests of a user wait for
\* one another and none fails: a login ends as many of the oldest sessions as
\* the limit asks for before it begins its own, and no session comes back.
ImplementsLiveSessions == Promise!Spec

=============================================================================
