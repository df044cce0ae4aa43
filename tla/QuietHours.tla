----------------------------- MODULE QuietHours -----------------------------
(***************************************************************************)
(* The quiet hours of a user: NotificationPreferenceService computes how   *)
(* long a notification is put off when it is dispatched, to the time it is *)
(* scheduled for or to the end of the quiet hours that time falls into,    *)
(* and the queue hands it to its channel when the delay has passed.        *)
(*                                                                         *)
(* Time is the minute of the day.  The seconds the code leaves aside only  *)
(* make a delivery later, by less than a minute.                           *)
(*                                                                         *)
(* The names let a module extend it together with Delivery.                *)
(***************************************************************************)
EXTENDS Integers

CONSTANTS
  Day,          \* minutes of a day
  Notices,      \* notifications
  Windows,      \* quiet hours a user may choose
  Zones,        \* minutes by which the user's clock may be ahead of UTC
  Schedules,    \* minutes from a dispatch to its scheduledAt: 0 for none,
                \* less than 0 for a time that has passed
  MaxFailures   \* bound: attempts that fail

\* dispatch: each job is tried three times.
MaxAttempts == 3

Minutes == 0 .. Day - 1

ASSUME QuietHoursConstants ==
  /\ Day \in Nat \ {0}
  /\ Windows \subseteq [enabled : BOOLEAN, start : Minutes, end : Minutes]
  /\ Zones \subseteq Minutes
  /\ Schedules \subseteq Int
  /\ MaxFailures \in Nat

VARIABLES
  now,          \* the minute of the day, in UTC
  zone,         \* by how much the user's clock is ahead
  hours,        \* quietHours of the user's dashboardPreferences
  delayed,      \* a job of the queue for each notification
  failures,     \* attempts that failed
  disturbed     \* history: notifications whose attempt failed, that the queue
                \* took late, or that waited when preferences or clock changed

hoursVars == <<now, zone, hours, delayed, failures, disturbed>>

DelayedJob ==
  [state : {"none", "waiting", "sent", "failed"},
   urgent : BOOLEAN,             \* critical, or with a one-time password
   ahead : Nat,                  \* minutes until the time it is scheduled for
   wait : Nat,                   \* minutes until the queue may take it
   made : 0 .. MaxAttempts]      \* attempts that failed

(***************************************************************************)
(* One type invariant for the whole state.  getDeliveryDelayMs puts no job *)
(* off by more than a day from the time it is scheduled for.               *)
(***************************************************************************)
HoursTypeOK ==
  /\ now \in Minutes
  /\ zone \in Zones
  /\ hours \in Windows
  /\ delayed \in [Notices -> DelayedJob]
  /\ \A n \in Notices :
       delayed[n].wait \in delayed[n].ahead .. delayed[n].ahead + Day
  /\ failures \in 0 .. MaxFailures
  /\ disturbed \subseteq Notices

HoursInit ==
  /\ now \in Minutes
  /\ zone \in Zones
  /\ hours \in Windows
  /\ delayed = [n \in Notices |->
       [state |-> "none", urgent |-> FALSE, ahead |-> 0, wait |-> 0,
        made |-> 0]]
  /\ failures = 0
  /\ disturbed = {}

-----------------------------------------------------------------------------
(* The algorithm                                                           *)

\* getLocalMinute: the minute on the user's clock, in k minutes.
LocalIn(k) == (now + zone + k) % Day

\* Faulty variant of IsWithin: the last minute is quiet too.
WithinInclusive(minute, window) ==
  /\ window.enabled
  /\ window.start # window.end
  /\ IF window.start < window.end
     THEN window.start <= minute /\ minute <= window.end
     ELSE window.start <= minute \/ minute <= window.end

\* isWithinQuietHours
IsWithin(minute, window) ==
  /\ window.enabled
  /\ window.start # window.end
  /\ IF window.start < window.end
     THEN window.start <= minute /\ minute < window.end
     ELSE window.start <= minute \/ minute < window.end

\* Faulty variant of UntilEnd: after midnight it waits for the next morning.
UntilTomorrow(minute, window) ==
  IF window.start < window.end THEN window.end - minute
  ELSE Day - minute + window.end

\* minutesUntilQuietHoursEnd
UntilEnd(minute, window) ==
  IF minute < window.end THEN window.end - minute
  ELSE Day - minute + window.end

\* effectiveAt: the time a job is scheduled for, or now if that has passed.
EffectiveAt(ahead) == IF ahead > 0 THEN ahead ELSE 0

\* Faulty variant of Delay: it asks the clock of the server.
DelayInUTC(urgent, ahead) ==
  LET at == EffectiveAt(ahead)
      minute == (now + at) % Day
  IN at + IF ~urgent /\ IsWithin(minute, hours) THEN UntilEnd(minute, hours)
          ELSE 0

\* getDeliveryDelayMs
Delay(urgent, ahead) ==
  LET at == EffectiveAt(ahead)
      minute == LocalIn(at)
  IN at + IF ~urgent /\ IsWithin(minute, hours) THEN UntilEnd(minute, hours)
          ELSE 0

-----------------------------------------------------------------------------
(* The actions                                                             *)

Dispatch(n, urgent, ahead) ==
  /\ delayed[n].state = "none"
  /\ delayed' = [delayed EXCEPT ![n] =
       [state |-> "waiting", urgent |-> urgent, ahead |-> EffectiveAt(ahead),
        wait |-> Delay(urgent, ahead), made |-> 0]]
  /\ UNCHANGED <<now, zone, hours, failures, disturbed>>

Due(n) == delayed[n].state = "waiting" /\ delayed[n].wait = 0

\* Faulty variant of Deliver: it asks again for the quiet hours, and waits.
DeliverRechecked(n) ==
  /\ Due(n)
  /\ LET again == Delay(delayed[n].urgent, 0) IN
     delayed' = [delayed EXCEPT
       ![n].wait = again,
       ![n].state = IF again = 0 THEN "sent" ELSE "waiting"]
  /\ UNCHANGED <<now, zone, hours, failures, disturbed>>

\* The channel takes the message.
Deliver(n) ==
  /\ Due(n)
  /\ delayed' = [delayed EXCEPT ![n].state = "sent"]
  /\ UNCHANGED <<now, zone, hours, failures, disturbed>>

\* The attempt fails: the next one is due 2 or 4 seconds later, which may be
\* in the next minute.
Fail(n) ==
  /\ Due(n)
  /\ failures < MaxFailures
  /\ failures' = failures + 1
  /\ \E later \in {0, 1} :
       delayed' = [delayed EXCEPT
         ![n].made = @ + 1,
         ![n].wait = IF delayed[n].made + 1 < MaxAttempts THEN later ELSE 0,
         ![n].state = IF delayed[n].made + 1 < MaxAttempts THEN "waiting"
                      ELSE "failed"]
  /\ disturbed' = disturbed \union {n}
  /\ UNCHANGED <<now, zone, hours>>

\* A minute passes; the queue is late with what is due.
Tick ==
  /\ now' = (now + 1) % Day
  /\ delayed' = [n \in Notices |->
       [delayed[n] EXCEPT !.ahead = IF @ = 0 THEN 0 ELSE @ - 1,
                          !.wait = IF @ = 0 THEN 0 ELSE @ - 1]]
  /\ disturbed' = disturbed \union {n \in Notices : Due(n)}
  /\ UNCHANGED <<zone, hours, failures>>

Waiting == {n \in Notices : delayed[n].state = "waiting"}

\* The user saves other preferences.
SetHours ==
  /\ hours' \in Windows
  /\ disturbed' = disturbed \union Waiting
  /\ UNCHANGED <<now, zone, delayed, failures>>

\* The user saves another time zone, or summer time begins or ends.
SetZone ==
  /\ zone' \in Zones
  /\ disturbed' = disturbed \union Waiting
  /\ UNCHANGED <<now, hours, delayed, failures>>

HoursNext ==
  \/ \E n \in Notices, urgent \in BOOLEAN, ahead \in Schedules :
       Dispatch(n, urgent, ahead)
  \/ \E n \in Notices : Deliver(n) \/ Fail(n)
  \/ Tick \/ SetHours \/ SetZone

HoursSpec == HoursInit /\ [][HoursNext]_hoursVars

\* Time passes, and the queue takes what is due.
HoursFairness ==
  /\ WF_hoursVars(Tick)
  /\ \A n \in Notices : WF_hoursVars(Deliver(n))

-----------------------------------------------------------------------------
(* Properties                                                              *)

\* From one minute of the day on to the next time it is another.
Ahead(from, to) == IF from <= to THEN to - from ELSE to - from + Day

\* Reference definition: quiet is what lies between start and end on the dial.
IsQuiet(minute) ==
  /\ hours.enabled
  /\ Ahead(hours.start, minute) < Ahead(hours.start, hours.end)

\* The first minute at or after a time that is not quiet comes in k minutes.
EndsQuiet(from, k) ==
  /\ from <= k
  /\ ~IsQuiet(LocalIn(k))
  /\ \A i \in from .. k - 1 : IsQuiet(LocalIn(i))

Deferred(n) ==
  delayed[n].state = "waiting" =>
    IF delayed[n].urgent THEN delayed[n].wait = delayed[n].ahead
    ELSE EndsQuiet(delayed[n].ahead, delayed[n].wait)

\* getDeliveryDelayMs puts a notification off to the first minute, from the
\* time it is scheduled for on, that is not in the quiet hours, and this stays
\* so while time passes; an urgent one is put off to the time it is scheduled
\* for.
DeferredToTheEnd == \A n \in Notices \ disturbed : Deferred(n)

\* A channel is asked to send: the job ends, or one attempt more has failed.
Attempted(n) ==
  /\ delayed[n].state = "waiting"
  /\ delayed'[n].state = "sent" \/ delayed'[n].made > delayed[n].made

\* "defers non-critical notifications until quiet hours end": a message that
\* is not urgent is not sent in the quiet hours of its user, unless something
\* happened after it was dispatched: a retry waits for its backoff only, and
\* the delay of a job is not computed again.  And whatever happens, nothing is
\* sent before the time it is scheduled for.
NotWoken ==
  [][\A n \in Notices : Attempted(n) =>
       /\ delayed[n].ahead = 0
       /\ \/ n \in disturbed
          \/ delayed[n].urgent
          \/ ~IsQuiet(LocalIn(0))]_hoursVars

\* A notification is not put off for ever: when its user lets the quiet hours
\* be, when the clock jumps, and when attempts fail.
NotPutOffForEver ==
  \A n \in Notices :
    delayed[n].state = "waiting" ~> delayed[n].state \in {"sent", "failed"}

=============================================================================
