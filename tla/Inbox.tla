------------------------------- MODULE Inbox -------------------------------
(***************************************************************************)
(* What the list of notifications promises its user: notifications arrive, *)
(* those that arrived may be read, and neither is ever undone.             *)
(***************************************************************************)
CONSTANTS
  Notes         \* notifications

VARIABLES
  arrived,      \* notifications in the list
  read          \* those the user marked as read

vars == <<arrived, read>>

Init == arrived = {} /\ read = {}

Arrive(n) ==
  /\ n \notin arrived
  /\ arrived' = arrived \union {n}
  /\ UNCHANGED read

\* One of them, or all that have arrived.
MarkRead(ns) ==
  /\ ns \subseteq arrived
  /\ read' = read \union ns
  /\ UNCHANGED arrived

Next ==
  \/ \E n \in Notes : Arrive(n)
  \/ \E ns \in SUBSET Notes : MarkRead(ns)

Spec == Init /\ [][Next]_vars

=============================================================================
