---------------------------- MODULE MCQuietHours ----------------------------
(***************************************************************************)
(* QuietHours for TLC, in two scenarios: a steady one with every choice of *)
(* quiet hours, and a moving one in which preferences and clock change,    *)
(* attempts fail and the queue is late.                                    *)
(***************************************************************************)
EXTENDS QuietHours

VARIABLE scenario

\* Every choice of quiet hours.
AllWindows == [enabled : BOOLEAN, start : Minutes, end : Minutes]

\* A window within a day and one about midnight.
TwoWindows ==
  {[enabled |-> TRUE, start |-> 1, end |-> 3],
   [enabled |-> TRUE, start |-> Day - 1, end |-> 1]}

\* A time that has passed, none, one within the day and one days ahead.
SomeSchedules == {-1, 0, 2, 13}

\* The jobs of a steady run have nothing to do with each other: one is enough.
Played ==
  IF scenario = "steady"
  THEN /\ disturbed = {}
       /\ \A m, n \in Notices :
            delayed[m].state # "none" /\ delayed[n].state # "none" => m = n
  ELSE hours \in TwoWindows

MCInit == HoursInit /\ scenario \in {"steady", "moving"} /\ Played

MCNext ==
  /\ HoursNext
  /\ UNCHANGED scenario
  /\ scenario = "steady" => UNCHANGED <<hours, zone>>
  /\ Played'

MCSpec == MCInit /\ [][MCNext]_<<hoursVars, scenario>> /\ HoursFairness

=============================================================================
