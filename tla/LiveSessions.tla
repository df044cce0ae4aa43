---------------------------- MODULE LiveSessions ----------------------------
(***************************************************************************)
(* What the sessions of one user promise, without caches and requests: a   *)
(* login begins a session while fewer than Limit are live, a session ends  *)
(* once, and an ended session never comes back.                            *)
(***************************************************************************)
EXTENDS Naturals, FiniteSets

CONSTANTS
  Sessions,     \* session ids
  Limit         \* how many may be live

VARIABLES
  live,         \* sessions that may be used
  ended         \* sessions that were revoked

vars == <<live, ended>>

Init == live = {} /\ ended = {}

Login(s) ==
  /\ s \notin live \union ended
  /\ Cardinality(live) < Limit
  /\ live' = live \union {s}
  /\ UNCHANGED ended

\* Several end at once when the user logs out everywhere.
Revoke(ss) ==
  /\ ss # {}
  /\ live' = live \ ss
  /\ ended' = ended \union ss

Next ==
  \/ \E s \in Sessions : Login(s)
  \/ \E ss \in SUBSET live : Revoke(ss)

Spec == Init /\ [][Next]_vars

=============================================================================
