------------------------------ MODULE Delivery ------------------------------
(***************************************************************************)
(* How notifications reach one user: NotificationsService.create and       *)
(* NotificationDispatcherService put a job for each channel into a queue   *)
(* of BullMQ, NotificationProcessor hands it to the channel's service, and *)
(* the user marks what arrived as read.  The number of unread              *)
(* notifications is kept in Redis and sent to the user's browsers.         *)
(*                                                                         *)
(* "email" stands for EmailChannel- and SmsChannelService, which send,     *)
(* write SENT, and on an error write FAILED and throw.  "push" does this   *)
(* too, but a message that reaches none of the user's devices is no error: *)
(* PushChannelService writes FAILED and returns, and the job completes.    *)
(* "in_app" is the list in the application.                                *)
(*                                                                         *)
(* A worker and a request stop at each `await` on the database, on Redis   *)
(* or on a provider.  The queue decides when a job is taken; its delays    *)
(* and priorities (QuietHours has the delay) only choose among the orders  *)
(* this module allows.                                                     *)
(***************************************************************************)
EXTENDS FiniteSets, Naturals

CONSTANTS
  Notes,        \* notifications
  Workers,      \* processes that take jobs
  Callers,      \* slots for requests in flight
  Unreachable,  \* channels for which users may lack an address or device
  Muted,        \* channels the user may have switched off
  Calls,        \* what requests do
  MayOverlap,   \* TRUE if a request may run beside workers and requests
  MaxFaults,    \* bound: failed calls
  MaxStalls,    \* bound: jobs taken for dead
  None          \* no notification

Channels == {"email", "push", "in_app"}
Operations == {"create", "markRead", "markAllRead", "subscribe"}

\* dispatch: each job is tried three times.
Attempts == 3

\* BullMQ's maxStalledCount.
MaxStalledCount == 1

ASSUME DeliveryConstants ==
  /\ {Unreachable, Muted} \subseteq SUBSET Channels
  /\ Calls \subseteq Operations
  /\ MayOverlap \in BOOLEAN
  /\ {MaxFaults, MaxStalls} \subseteq Nat
  /\ "in_app" \notin Unreachable   \* the list needs no address
  /\ IsFiniteSet(Notes) /\ IsFiniteSet(Workers) /\ IsFiniteSet(Callers)
  /\ Workers \intersect Callers = {}
  /\ None \notin Notes

VARIABLES
  note,         \* rows of notifications
  recipient,    \* their rows of notification_recipients
  delivery,     \* status of their rows of notification_deliveries
  job,          \* jobs of the queue
  unread,       \* notifications:unread in Redis
  badge,        \* the number the browsers were sent last
  worker,
  caller,
  faults,       \* failed calls
  stalls,       \* jobs taken for dead
  address,      \* channels for which the user has an address or device
  \* history, read by properties only
  sent          \* messages the provider, or the browser, accepted

vars ==
  <<note, recipient, delivery, job, unread, badge, worker, caller, faults,
    stalls, address, sent>>

Note ==
  [status : {"none", "pending", "queued"},
   channels : SUBSET Channels,   \* requested
   enabled : SUBSET Channels]    \* those the user's preferences let through

Recipient == [status : {"none", "pending", "delivered", "read"},
              readAt : BOOLEAN]

Status == {"none", "queued", "delivered", "sent", "failed"}

Job ==
  [state : {"none", "waiting", "active", "completed", "failed"},
   made : 0 .. Attempts,         \* attempts that ended with an error
   stalled : Nat]

Worker ==
  [phase : {"idle", "find", "recipient", "delivered", "send", "sent",
            "invalid", "refused", "failed", "count", "setUnread", "emit",
            "complete", "throw"},
   note : Notes \union {None},
   channel : Channels,
   owns : BOOLEAN,               \* the job's lock is still its own
   count : 0 .. Cardinality(Notes)]  \* unread notifications it counted

Caller ==
  [op : Operations \union {"none"},
   phase : {"idle", "recipients", "deliver", "enqueue", "finish", "update",
            "count", "setUnread", "emit"},
   note : Notes \union {None},
   channel : Channels,
   found : SUBSET Notes,         \* what it will mark as read
   count : 0 .. Cardinality(Notes)]

Free == [phase |-> "idle", note |-> None, channel |-> "email",
         owns |-> FALSE, count |-> 0]

Idle == [op |-> "none", phase |-> "idle", note |-> None, channel |-> "email",
         found |-> {}, count |-> 0]

NoNote == [status |-> "none", channels |-> {}, enabled |-> {}]

(***************************************************************************)
(* One type invariant for the whole state.                                 *)
(***************************************************************************)
TypeOK ==
  /\ note \in [Notes -> Note]
  /\ recipient \in [Notes -> Recipient]
  /\ delivery \in [Notes -> [Channels -> Status]]
  /\ job \in [Notes -> [Channels -> Job]]
  /\ {unread, badge} \subseteq 0 .. Cardinality(Notes)
  /\ worker \in [Workers -> Worker]
  /\ caller \in [Callers -> Caller]
  /\ faults \in 0 .. MaxFaults
  /\ stalls \in 0 .. MaxStalls
  /\ address \subseteq Channels
  /\ sent \in [Notes -> [Channels -> Nat]]

Init ==
  /\ note = [n \in Notes |-> NoNote]
  /\ recipient = [n \in Notes |-> [status |-> "none", readAt |-> FALSE]]
  /\ delivery = [n \in Notes |-> [c \in Channels |-> "none"]]
  /\ job = [n \in Notes |-> [c \in Channels |->
       [state |-> "none", made |-> 0, stalled |-> 0]]]
  /\ unread = 0
  /\ badge = 0
  /\ worker = [w \in Workers |-> Free]
  /\ caller = [q \in Callers |-> Idle]
  /\ faults = 0
  /\ stalls = 0
  /\ address \in {Channels, Channels \ Unreachable}
  /\ sent = [n \in Notes |-> [c \in Channels |-> 0]]

-----------------------------------------------------------------------------
(* Vocabulary of the actions                                               *)

rows == <<note, recipient, delivery>>
numbers == <<unread, badge>>
bounds == <<faults, stalls, address>>

Goes(w, phase) == worker' = [worker EXCEPT ![w].phase = phase]

Continues(q, phase) == caller' = [caller EXCEPT ![q].phase = phase]

At(w, phase) == worker[w].phase = phase

CallerAt(q, phase) == caller[q].phase = phase

MyNote(w) == worker[w].note
MyChannel(w) == worker[w].channel

Mark(w, status) ==
  delivery' = [delivery EXCEPT ![MyNote(w)][MyChannel(w)] = status]

\* Faulty variant of Unread: it does not ask what has arrived.
UnreadAnywhere ==
  {n \in Notes : "in_app" \in note[n].channels /\ ~recipient[n].readAt}

\* In the user's list, as findForUser, markRead and markAllRead ask for it.
Visible(n) ==
  "in_app" \in note[n].channels /\ recipient[n].status \in {"delivered", "read"}

Unread == {n \in Notes : Visible(n) /\ ~recipient[n].readAt}

\* What InAppChannelService counts: it does not ask for the status.
UnreadInApp ==
  {n \in Notes : /\ recipient[n].status # "none"
                 /\ "in_app" \in note[n].channels
                 /\ ~recipient[n].readAt}

Quiet ==
  /\ \A w \in Workers : At(w, "idle")
  /\ \A q \in Callers : CallerAt(q, "idle")

\* Without MayOverlap a request waits until nothing else is under way.
Admitted(q, op) ==
  /\ op \in Calls
  /\ caller[q] = Idle
  /\ MayOverlap \/ Quiet

-----------------------------------------------------------------------------
(* NotificationsService.create and NotificationDispatcherService.dispatch  *)

\* The notification is saved; the preferences are asked later, but once.
Create(q, n) ==
  /\ Admitted(q, "create")
  /\ note[n].status = "none"
  /\ \E requested \in SUBSET Channels \ {{}} :
       \E off \in SUBSET Muted :
         note' = [note EXCEPT ![n] =
           [status |-> "pending", channels |-> requested,
            enabled |-> requested \ off]]
  /\ caller' = [caller EXCEPT ![q] =
       [Idle EXCEPT !.op = "create", !.phase = "recipients", !.note = n]]
  /\ UNCHANGED <<recipient, delivery, job, numbers, worker, bounds, sent>>

\* A channel that has no delivery yet, in the order of the request, or the end
\* of the loop.
NextChannel(q, n, done) ==
  IF note[n].enabled \subseteq done
  THEN Continues(q, "finish")
  ELSE \E c \in note[n].enabled \ done :
         caller' = [caller EXCEPT ![q].phase = "deliver", ![q].channel = c]

SaveRecipients(q) ==
  LET n == caller[q].note IN
  /\ CallerAt(q, "recipients")
  /\ recipient' = [recipient EXCEPT ![n].status = "pending"]
  /\ NextChannel(q, n, {})
  /\ UNCHANGED <<note, delivery, job, numbers, worker, bounds, sent>>

SaveDelivery(q) ==
  LET n == caller[q].note IN
  /\ CallerAt(q, "deliver")
  /\ delivery' = [delivery EXCEPT ![n][caller[q].channel] = "queued"]
  /\ Continues(q, "enqueue")
  /\ UNCHANGED <<note, recipient, job, numbers, worker, bounds, sent>>

\* Faulty variant of Enqueue: the loop ends with its first channel.
EnqueueOne(q) ==
  LET n == caller[q].note IN
  /\ CallerAt(q, "enqueue")
  /\ job' = [job EXCEPT ![n][caller[q].channel].state = "waiting"]
  /\ Continues(q, "finish")
  /\ UNCHANGED <<rows, numbers, worker, bounds, sent>>

Enqueue(q) ==
  LET n == caller[q].note
      c == caller[q].channel IN
  /\ CallerAt(q, "enqueue")
  /\ job' = [job EXCEPT ![n][c].state = "waiting"]
  /\ NextChannel(q, n, {d \in Channels : job'[n][d].state # "none"})
  /\ UNCHANGED <<rows, numbers, worker, bounds, sent>>

\* The notification is queued; create returns.
Finish(q) ==
  /\ CallerAt(q, "finish")
  /\ note' = [note EXCEPT ![caller[q].note].status = "queued"]
  /\ caller' = [caller EXCEPT ![q] = Idle]
  /\ UNCHANGED <<recipient, delivery, job, numbers, worker, bounds, sent>>

-----------------------------------------------------------------------------
(* NotificationProcessor and the channels                                  *)

\* BullMQ hands a waiting job to a worker.
Take(w, n, c) ==
  /\ worker[w] = Free
  /\ job[n][c].state = "waiting"
  /\ MayOverlap \/ Quiet
  /\ job' = [job EXCEPT ![n][c].state = "active"]
  /\ worker' = [worker EXCEPT ![w] =
       [phase |-> "find", note |-> n, channel |-> c, owns |-> TRUE,
        count |-> 0]]
  /\ UNCHANGED <<rows, numbers, caller, bounds, sent>>

\* Faulty variant of Proceeds: a delivery that failed is not tried again.
ProceedsUnlessTried(status) == status \in {"queued", "delivered"}

\* Only what was sent is skipped.
Proceeds(status) == status # "sent"

\* No provider, no address, no device: the delivery fails for good.
Find(w) ==
  LET status == delivery[MyNote(w)][MyChannel(w)] IN
  /\ At(w, "find")
  /\ \/ ~Proceeds(status) /\ Goes(w, "complete") /\ UNCHANGED delivery
     \/ /\ Proceeds(status)
        /\ MyChannel(w) \notin address
        /\ Mark(w, "failed")
        /\ Goes(w, "complete")
     \/ /\ Proceeds(status)
        /\ MyChannel(w) \in address
        /\ Goes(w, IF MyChannel(w) = "in_app" THEN "recipient" ELSE "send")
        /\ UNCHANGED delivery
  /\ UNCHANGED <<note, recipient, job, numbers, caller, bounds, sent>>

\* InAppChannelService: the notification enters the list.
ShowInList(w) ==
  /\ At(w, "recipient")
  /\ recipient' = [recipient EXCEPT ![MyNote(w)].status = "delivered"]
  /\ Goes(w, "delivered")
  /\ UNCHANGED <<note, delivery, job, numbers, caller, bounds, sent>>

\* Its delivery, and then the socket, which does not wait.
MarkDelivered(w) ==
  /\ At(w, "delivered")
  /\ Mark(w, "delivered")
  /\ Goes(w, "send")
  /\ UNCHANGED <<note, recipient, job, numbers, caller, bounds, sent>>

\* The provider accepts the message; the socket emits it.
Send(w) ==
  /\ At(w, "send")
  /\ sent' = [sent EXCEPT ![MyNote(w)][MyChannel(w)] = @ + 1]
  /\ Goes(w, "sent")
  /\ UNCHANGED <<rows, job, numbers, caller, bounds>>

MarkSent(w) ==
  /\ At(w, "sent")
  /\ Mark(w, "sent")
  /\ Goes(w, IF MyChannel(w) = "in_app" THEN "count" ELSE "complete")
  /\ UNCHANGED <<note, recipient, job, numbers, caller, bounds, sent>>

\* A push that reaches none of the user's devices.
Refuse(w) ==
  /\ At(w, "send")
  /\ MyChannel(w) = "push"
  /\ \/ Goes(w, "invalid") \/ Goes(w, "refused")
  /\ UNCHANGED <<rows, job, numbers, caller, bounds, sent>>

\* The provider knows none of them any more: they are not tried again.
Deactivate(w) ==
  /\ At(w, "invalid")
  /\ address' = address \ {"push"}
  /\ Goes(w, "refused")
  /\ UNCHANGED <<rows, job, numbers, caller, faults, stalls, sent>>

\* No error: the job completes, whatever attempts are left.
MarkRefused(w) ==
  /\ At(w, "refused")
  /\ Mark(w, "failed")
  /\ Goes(w, "complete")
  /\ UNCHANGED <<note, recipient, job, numbers, caller, bounds, sent>>

\* The catch clauses, which throw the error again.
MarkFailed(w) ==
  /\ At(w, "failed")
  /\ Mark(w, "failed")
  /\ Goes(w, "throw")
  /\ UNCHANGED <<note, recipient, job, numbers, caller, bounds, sent>>

CountInApp(w) ==
  /\ At(w, "count")
  /\ worker' = [worker EXCEPT ![w].phase = "setUnread",
                              ![w].count = Cardinality(UnreadInApp)]
  /\ UNCHANGED <<rows, job, numbers, caller, bounds, sent>>

\* sendUnreadCountUpdate: the key in Redis, then the browsers.
SetUnread(w) ==
  /\ At(w, "setUnread")
  /\ unread' = worker[w].count
  /\ Goes(w, "emit")
  /\ UNCHANGED <<rows, job, badge, caller, bounds, sent>>

Emit(w) ==
  /\ At(w, "emit")
  /\ badge' = worker[w].count
  /\ worker' = [worker EXCEPT ![w].phase = "complete", ![w].count = 0]
  /\ UNCHANGED <<rows, job, unread, caller, bounds, sent>>

\* The job ends, if the worker still owns it.
Complete(w) ==
  /\ At(w, "complete")
  /\ job' = IF worker[w].owns
            THEN [job EXCEPT ![MyNote(w)][MyChannel(w)].state = "completed"]
            ELSE job
  /\ worker' = [worker EXCEPT ![w] = Free]
  /\ UNCHANGED <<rows, numbers, caller, bounds, sent>>

\* Faulty variant of Throw: one attempt too many.
ThrowOnceMore(w) ==
  LET j == job[MyNote(w)][MyChannel(w)] IN
  /\ At(w, "throw")
  /\ job' = IF worker[w].owns
            THEN [job EXCEPT ![MyNote(w)][MyChannel(w)] =
                   [j EXCEPT !.made = @ + 1,
                             !.state = IF j.made + 1 <= Attempts THEN "waiting"
                                       ELSE "failed"]]
            ELSE job
  /\ worker' = [worker EXCEPT ![w] = Free]
  /\ UNCHANGED <<rows, numbers, caller, bounds, sent>>

\* It is tried again until its attempts are used up.
Throw(w) ==
  LET j == job[MyNote(w)][MyChannel(w)] IN
  /\ At(w, "throw")
  /\ job' = IF worker[w].owns
            THEN [job EXCEPT ![MyNote(w)][MyChannel(w)] =
                   [j EXCEPT !.made = @ + 1,
                             !.state = IF j.made + 1 < Attempts THEN "waiting"
                                       ELSE "failed"]]
            ELSE job
  /\ worker' = [worker EXCEPT ![w] = Free]
  /\ UNCHANGED <<rows, numbers, caller, bounds, sent>>

-----------------------------------------------------------------------------
(* The user marks notifications as read                                    *)

\* markRead finds the notification, markAllRead what is unread.
MarkRead(q, op, ns) ==
  /\ Admitted(q, op)
  /\ \/ op = "markRead" /\ \E n \in Notes : ns = {n} /\ Visible(n)
     \/ op = "markAllRead" /\ ns = Unread
  /\ ns # {}
  /\ caller' = [caller EXCEPT ![q] =
       [Idle EXCEPT !.op = op, !.phase = "update", !.found = ns]]
  /\ UNCHANGED <<rows, job, numbers, worker, bounds, sent>>

\* Faulty variant of UpdateRead: the status is left as it was.
UpdateReadAt(q) ==
  LET r == caller[q] IN
  /\ CallerAt(q, "update")
  /\ recipient' = [n \in Notes |->
       [recipient[n] EXCEPT !.readAt = @ \/ n \in r.found]]
  /\ Continues(q, IF r.op = "markRead" THEN "count" ELSE "setUnread")
  /\ UNCHANGED <<note, delivery, job, numbers, worker, bounds, sent>>

\* markAllRead sends a zero it does not count.
UpdateRead(q) ==
  LET r == caller[q] IN
  /\ CallerAt(q, "update")
  /\ recipient' = [n \in Notes |->
       IF n \in r.found THEN [status |-> "read", readAt |-> TRUE]
       ELSE recipient[n]]
  /\ Continues(q, IF r.op = "markRead" THEN "count" ELSE "setUnread")
  /\ UNCHANGED <<note, delivery, job, numbers, worker, bounds, sent>>

\* Faulty variant of CountUnread: the number is the one in Redis.
CountCached(q) ==
  /\ CallerAt(q, "count")
  /\ caller' = [caller EXCEPT ![q].phase = "setUnread", ![q].count = unread]
  /\ UNCHANGED <<rows, job, numbers, worker, bounds, sent>>

CountUnread(q) ==
  /\ CallerAt(q, "count")
  /\ caller' = [caller EXCEPT ![q].phase = "setUnread",
                              ![q].count = Cardinality(Unread)]
  /\ UNCHANGED <<rows, job, numbers, worker, bounds, sent>>

PublishUnread(q) ==
  /\ CallerAt(q, "setUnread")
  /\ unread' = caller[q].count
  /\ Continues(q, "emit")
  /\ UNCHANGED <<rows, job, badge, worker, bounds, sent>>

\* Faulty variant of EmitUnread: the browsers are sent a difference.
EmitLess(q) ==
  /\ CallerAt(q, "emit")
  /\ badge' = badge - Cardinality(caller[q].found)
  /\ caller' = [caller EXCEPT ![q] = Idle]
  /\ UNCHANGED <<rows, job, unread, worker, bounds, sent>>

EmitUnread(q) ==
  /\ CallerAt(q, "emit")
  /\ badge' = caller[q].count
  /\ caller' = [caller EXCEPT ![q] = Idle]
  /\ UNCHANGED <<rows, job, unread, worker, bounds, sent>>

\* subscribe_notifications: a browser connects and is sent the key in Redis.
Subscribe(q) ==
  /\ Admitted(q, "subscribe")
  /\ caller' = [caller EXCEPT ![q] =
       [Idle EXCEPT !.op = "subscribe", !.phase = "emit", !.count = unread]]
  /\ UNCHANGED <<rows, job, numbers, worker, bounds, sent>>

-----------------------------------------------------------------------------
(* What goes wrong                                                         *)

\* A call of a worker fails; the provider may have taken the message.  An
\* error while sending or writing what came of it is caught, the others are not.
WorkerFault(w) ==
  /\ faults < MaxFaults
  /\ worker[w].phase \notin {"idle", "complete", "throw"}
  /\ ~(At(w, "send") /\ MyChannel(w) = "in_app")
  /\ faults' = faults + 1
  /\ Goes(w, IF worker[w].phase \in {"send", "sent", "invalid", "refused"}
             THEN "failed" ELSE "throw")
  /\ \/ UNCHANGED sent
     \/ /\ At(w, "send")
        /\ sent' = [sent EXCEPT ![MyNote(w)][MyChannel(w)] = @ + 1]
  /\ UNCHANGED <<rows, job, numbers, caller, stalls, address>>

\* A call of a request fails, or its process stops.
CallerFault(q) ==
  /\ faults < MaxFaults
  /\ caller[q] # Idle
  /\ faults' = faults + 1
  /\ caller' = [caller EXCEPT ![q] = Idle]
  /\ UNCHANGED <<rows, job, numbers, worker, stalls, address, sent>>

\* The lock of an active job runs out: the worker stopped, or it is late and
\* goes on without the job.
Stall(w) ==
  LET j == job[MyNote(w)][MyChannel(w)] IN
  /\ stalls < MaxStalls
  /\ ~At(w, "idle")
  /\ worker[w].owns
  /\ stalls' = stalls + 1
  /\ job' = [job EXCEPT ![MyNote(w)][MyChannel(w)] =
       [j EXCEPT !.stalled = @ + 1,
                 !.state = IF j.stalled < MaxStalledCount THEN "waiting"
                           ELSE "failed"]]
  /\ worker' \in {[worker EXCEPT ![w] = Free],
                  [worker EXCEPT ![w].owns = FALSE]}
  /\ UNCHANGED <<rows, numbers, caller, faults, address, sent>>

WorkerNext(w) ==
  \/ \E n \in Notes, c \in Channels : Take(w, n, c)
  \/ Find(w) \/ ShowInList(w) \/ MarkDelivered(w)
  \/ Send(w) \/ MarkSent(w) \/ MarkFailed(w)
  \/ Refuse(w) \/ Deactivate(w) \/ MarkRefused(w)
  \/ CountInApp(w) \/ SetUnread(w) \/ Emit(w)
  \/ Complete(w) \/ Throw(w)

CallerNext(q) ==
  \/ \E n \in Notes : Create(q, n)
  \/ SaveRecipients(q) \/ SaveDelivery(q) \/ Enqueue(q) \/ Finish(q)
  \/ \E op \in {"markRead", "markAllRead"}, ns \in SUBSET Notes :
       MarkRead(q, op, ns)
  \/ UpdateRead(q) \/ CountUnread(q) \/ PublishUnread(q) \/ EmitUnread(q)
  \/ Subscribe(q)
  \/ CallerFault(q)

Next ==
  \/ \E w \in Workers : WorkerNext(w) \/ WorkerFault(w) \/ Stall(w)
  \/ \E q \in Callers : CallerNext(q)

Spec == Init /\ [][Next]_vars

\* A worker that has something to do, or a job to take, goes on.
Fairness == \A w \in Workers : WF_vars(WorkerNext(w))

-----------------------------------------------------------------------------
(* Properties                                                              *)

\* A job is tried three times, and once more when it was taken for dead: a
\* message goes out that often at most, whatever fails.
SendsBounded ==
  \A n \in Notes, c \in Channels : sent[n][c] <= Attempts + MaxStalledCount

\* dispatch marks a notification as queued when every channel the user wants
\* has its job, however the calls before failed.
QueuedMeansDispatched ==
  \A n \in Notes : note[n].status = "queued" =>
    \A c \in note[n].enabled : job[n][c].state # "none"

\* What the user marked as read stays so, in both columns that say it.
ReadStaysRead == \A n \in Notes : recipient[n].readAt =>
                   recipient[n].status = "read"

\* While nothing is under way and no job waits, the number in Redis and the
\* number the browsers show are the number of unread notifications.
UnreadExact ==
  Quiet /\ (\A n \in Notes, c \in Channels : job[n][c].state # "waiting") =>
    {unread, badge} = {Cardinality(Unread)}

\* The list implements Inbox: what arrived stays, what was read stays read.
Box == INSTANCE Inbox WITH
  arrived <- {n \in Notes : Visible(n)},
  read <- {n \in Notes : recipient[n].readAt}

InboxKept == Box!Spec

-----------------------------------------------------------------------------
(* Promised, and not kept (the README tells how)                           *)

\* "already sent - skipping": one message for each delivery.
SentOnce == \A n \in Notes, c \in {"email", "push"} : sent[n][c] <= 1

=============================================================================
