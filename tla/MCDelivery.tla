----------------------------- MODULE MCDelivery -----------------------------
(***************************************************************************)
(* The instance of Delivery for TLC.  A behaviour belongs to one of three  *)
(* scenarios: one request or job at a time; requests, a worker and         *)
(* browsers interleave around the user's list; calls fail and jobs are     *)
(* taken for dead while two workers deliver one notification.              *)
(***************************************************************************)
EXTENDS Delivery, TLC

VARIABLE scenario    \* "turns", "browsing" or "failing", for good

Made == {n \in Notes : note[n].status # "none"}
Busy == {q \in Callers : caller[q] # Idle} \union {w \in Workers : worker[w] # Free}
Spare == CHOOSE w \in Workers : TRUE
First == CHOOSE n \in Notes : TRUE
Calling(ops) == \A q \in Callers : caller[q].op \in {"none"} \union ops

Within ==
  \/ /\ scenario = "turns"
     /\ \A n \in Made : ~({"email", "push"} \subseteq note[n].channels)
     /\ Cardinality(Busy) <= 1 /\ worker[Spare] = Free
     /\ bounds = <<0, 0, address>>
  \/ /\ scenario = "browsing"
     /\ \A n \in Made : note[n].channels = {"in_app"}
     /\ worker[Spare] = Free
     /\ bounds = <<0, 0, Channels>>
  \/ /\ scenario = "failing"
     /\ Calling({"create"}) /\ Made \subseteq {First}
     /\ \E q \in Callers : caller[q] = Idle
     /\ note[First].channels \in {{}, {"email"}, {"push"}, {"email", "in_app"}}
     /\ faults + stalls <= 2 \/ note[First].channels = {"email"}

MCInit == Init /\ scenario \in {"turns", "browsing", "failing"}
MCNext == Next /\ UNCHANGED scenario /\ Within'
MCSpec == MCInit /\ [][MCNext]_<<vars, scenario>> /\ Fairness

-----------------------------------------------------------------------------
(* What holds in some scenarios.                                           *)

\* markRead and markAllRead are final, in both columns that say it, while no
\* job of the list is tried a second time.
ReadStaysReadUnlessRetried == scenario # "failing" => ReadStaysRead

\* In turns, when no job waits, the number in Redis and the number the
\* browsers show are the number of unread notifications, provided that the
\* user has not switched off the application's own channel.
UnreadExactInTurns ==
  scenario = "turns" /\ (\A n \in Notes : note[n].enabled = note[n].channels)
    => UnreadExact

\* However jobs are retried or taken for dead, sends are bounded, a
\* notification that says queued was dispatched to every channel, and what
\* was read stays read unless its job is tried again.
DeliverySafe ==
  /\ TypeOK
  /\ SendsBounded
  /\ QueuedMeansDispatched
  /\ ReadStaysReadUnlessRetried

\* A push reached none of the user's devices: its job is not tried again.
Refused(c) ==
  /\ c = "push"
  /\ delivery[First][c] = "failed"
  /\ job[First][c].state = "completed"

\* Three attempts outlast two failed calls and a job taken for dead: what was
\* queued for an address the user has is sent, but for a push that reached none
\* of the user's devices.
SentInTheEnd ==
  \A c \in Channels :
    (job[First][c].state = "waiting" /\ c \in address)
      ~> (delivery[First][c] = "sent" \/ Refused(c) \/ faults > 2 \/ stalls > 1)

=============================================================================
