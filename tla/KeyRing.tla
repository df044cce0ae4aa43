------------------------------ MODULE KeyRing -------------------------------
(***************************************************************************)
(* What passkeys promise, without rows and requests: a key is registered,  *)
(* opens each challenge once while it is live, and is revoked for good.    *)
(***************************************************************************)
CONSTANTS
  Keys,         \* every passkey there may be
  Challenges    \* every challenge of a login

VARIABLES
  live,         \* keys that open
  dead,         \* keys that were revoked
  opened        \* challenges that were opened, and by which key

vars == <<live, dead, opened>>

\* A user may have registered keys before.
Init ==
  /\ live \in SUBSET Keys
  /\ dead = {}
  /\ opened = {}

Register(k) ==
  /\ k \notin live \union dead
  /\ live' = live \union {k}
  /\ UNCHANGED <<dead, opened>>

Open(k, c) ==
  /\ k \in live
  /\ \A e \in opened : e[2] # c
  /\ opened' = opened \union {<<k, c>>}
  /\ UNCHANGED <<live, dead>>

Revoke(k) ==
  /\ k \in live
  /\ live' = live \ {k}
  /\ dead' = dead \union {k}
  /\ UNCHANGED opened

Next ==
  \E k \in Keys :
    \/ Register(k)
    \/ Revoke(k)
    \/ \E c \in Challenges : Open(k, c)

Spec == Init /\ [][Next]_vars

=============================================================================
