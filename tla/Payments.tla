------------------------------ MODULE Payments ------------------------------
(***************************************************************************)
(* The purchase and payment workflow of the bulk-data API:                 *)
(* BulkDataPaymentsService with the session half of                        *)
(* BulkDataPaymentProviderService and the simulation timers of             *)
(* BulkDataPaymentEventsService.                                           *)
(*                                                                         *)
(* A request of the API is one element of Requests.  It runs alone between *)
(* two `await`s and is interrupted at each of them, so every action below  *)
(* is the code from one database or network answer to the next.  A request *)
(* works on the entities it read; repository.save writes the whole row     *)
(* from the request's copy, whatever the row holds by then.  No request    *)
(* takes a lock or opens a database transaction.                           *)
(***************************************************************************)
EXTENDS Integers, FiniteSets

CONSTANTS
  Customers,      \* customer accounts
  Transactions,   \* transaction ids that may ever be created
  CustomerOf,     \* the account each transaction is for
  Requests,       \* slots for API requests and timer callbacks in flight
  Methods,        \* payment methods customers use
  Price,          \* price of one bundle
  Simulate,       \* what SIMULATE_PAYMENT_STATUS_UPDATES === 'true' may be
  Statuses,       \* customer statuses staff set
  Counts,         \* values of provisioningCount customers ask for
  Words,          \* statuses the provider's callbacks carry
  MaxSessions,    \* bound: payment sessions ever created
  MaxNotices,     \* bound: positive notices per transaction, timers apart
  MaxFaults,      \* bound: failed database calls and process crashes
  None            \* no transaction, no customer

CustomerStatus == {"active", "deactivated", "pending"}
TransactionStatus == {"pending", "failed", "provisioned"}
SessionStatus ==
  {"awaiting_payment", "processing", "confirmed", "failed", "expired"}
PaymentMethod == {"mobile_money", "airtime", "prn", "card"}
CallbackWord == SessionStatus \union {"paid", "approved", "deducted", "missing"}

ASSUME ConstantsOK ==
  /\ CustomerOf \in [Transactions -> Customers]
  /\ IsFiniteSet(Requests)
  /\ Methods \subseteq PaymentMethod
  /\ Price \in Nat \ {0}
  /\ Simulate \subseteq BOOLEAN
  /\ Statuses \subseteq CustomerStatus
  /\ Counts \subseteq Nat \ {0}
  /\ Words \subseteq CallbackWord
  /\ MaxSessions \in Nat
  /\ MaxNotices \in Nat
  /\ MaxFaults \in Nat
  /\ None \notin Transactions \union Customers

SessionIds == 1 .. MaxSessions   \* in the order of createdAt

VARIABLES
  \* rows of the database
  customer,       \* the account: status and purchase totals
  transaction,
  session,        \* payment sessions
  balance,        \* bundles on the account's primary number, 0 at the start
  \* memory of the process
  request,        \* requests in flight, with the entities they hold
  timers,         \* pending simulation timers: <<session, status>>
  \* history of what happened outside the database, read by properties only
  notices,        \* positive payment notices received, per transaction
  subscribed,     \* subscriptions in effect at the PCRF, per transaction
  fulfilled,      \* subscriptions the PCRF acknowledged, per transaction
  units,          \* bundles those subscriptions stand for, per customer
  spent,          \* what was charged for them, per customer
  receipts,       \* sessions whose CONFIRMED event (with receipt) went out
  instructed,     \* status last saved by a status change, per customer
  faults          \* failed database calls and crashes so far

rows == <<customer, transaction, session, balance>>
memory == <<request, timers>>
history ==
  <<notices, subscribed, fulfilled, units, spent, receipts, instructed>>
vars == <<rows, memory, history, faults>>

CustomerRow == [status : CustomerStatus, purchases : Nat, spend : Nat]

TransactionRow ==
  [status : TransactionStatus \union {"absent"}, amount : Nat]

SessionRow ==
  [txn : Transactions \union {None},
   status : SessionStatus \union {"absent"},
   amount : Nat, count : Nat, method : PaymentMethod]

NoSession ==
  [txn |-> None, status |-> "absent", amount |-> 0, count |-> 0,
   method |-> "prn"]

Table == {"customer", "transaction", "session", "balance"}

Step ==
  {"idle", "insertTransaction", "reopenTransaction", "insertSession",
   "initiate", "lookup", "readSession", "readTransaction", "readCustomer",
   "provision", "saving"}

Request ==
  [op : {"none", "create", "retry", "confirm", "callback", "simulate",
         "status"},
   at : Step,
   txn : Transactions \union {None},
   ses : SessionIds \union {0},
   who : Customers \union {None},
   want : SessionStatus \union {"none"},     \* the outcome reported to it
   count : Nat,                              \* dto.provisioningCount
   tStatus : TransactionStatus \union {"absent"},  \* its transaction entity
   sStatus : SessionStatus \union {"absent"},      \* its session entity
   cus : CustomerRow,                              \* its customer entity
   writes : SUBSET Table,                    \* saves not yet answered
   ok : BOOLEAN,                             \* no save failed so far
   notify : BOOLEAN]                         \* emits an event when done

NewCustomer == [status |-> "active", purchases |-> 0, spend |-> 0]

Idle ==
  [op |-> "none", at |-> "idle", txn |-> None, ses |-> 0, who |-> None,
   want |-> "none", count |-> 0, tStatus |-> "absent", sStatus |-> "absent",
   cus |-> NewCustomer, writes |-> {}, ok |-> TRUE, notify |-> FALSE]

(***************************************************************************)
(* One type invariant for the whole state.                                 *)
(***************************************************************************)
TypeOK ==
  /\ customer \in [Customers -> CustomerRow]
  /\ transaction \in [Transactions -> TransactionRow]
  /\ session \in [SessionIds -> SessionRow]
  /\ balance \in [Customers -> Nat]
  /\ request \in [Requests -> Request]
  /\ timers \subseteq SessionIds \X {"processing", "confirmed"}
  /\ notices \in [Transactions -> Nat]
  /\ subscribed \in [Transactions -> Nat]
  /\ fulfilled \in [Transactions -> Nat]
  /\ units \in [Customers -> Nat]
  /\ spent \in [Customers -> Nat]
  /\ receipts \subseteq SessionIds
  /\ instructed \in [Customers -> CustomerStatus]
  /\ faults \in Nat

Init ==
  /\ customer = [c \in Customers |-> NewCustomer]
  /\ transaction =
       [t \in Transactions |-> [status |-> "absent", amount |-> 0]]
  /\ session = [s \in SessionIds |-> NoSession]
  /\ balance = [c \in Customers |-> 0]
  /\ request = [h \in Requests |-> Idle]
  /\ timers = {}
  /\ notices = [t \in Transactions |-> 0]
  /\ subscribed = [t \in Transactions |-> 0]
  /\ fulfilled = [t \in Transactions |-> 0]
  /\ units = [c \in Customers |-> 0]
  /\ spent = [c \in Customers |-> 0]
  /\ receipts = {}
  /\ instructed = [c \in Customers |-> "active"]
  /\ faults = 0

-----------------------------------------------------------------------------
(* Vocabulary of the actions                                               *)

Exists(s) == session[s].status # "absent"

\* The id the next insert gets: sessions are numbered as they are created.
IsNextSession(s) ==
  /\ ~Exists(s)
  /\ \A r \in SessionIds : r < s => Exists(r)

\* Bound: a purchase or retry is admitted only when it can get a session.
SessionLeft ==
  Cardinality({s \in SessionIds : Exists(s)}) +
  Cardinality({g \in Requests : request[g].at \in
    {"insertTransaction", "reopenTransaction", "insertSession"}}) < MaxSessions

\* A new request h about transaction t.
Begin(h, op, at, t) ==
  [Idle EXCEPT !.op = op, !.at = at, !.txn = t, !.who = CustomerOf[t]]

Leave(h) == request' = [request EXCEPT ![h] = Idle]

\* A request's exception ends that request with an HTTP error.  A simulation
\* timer calls its handler with `void`: its rejection is unhandled and ends
\* the process, and with it every request and timer in memory.
Raise(h) ==
  \/ /\ request[h].op # "simulate"
     /\ Leave(h)
     /\ UNCHANGED timers
  \/ /\ request[h].op = "simulate"
     /\ request' = [g \in Requests |-> Idle]
     /\ timers' = {}

\* What the callback's status word means, by payment method: a PRN notice
\* needs no status at all.  ("none": the callback is refused.)
Normalized(word, method) ==
  IF word = "missing" THEN IF method = "prn" THEN "confirmed" ELSE "none"
  ELSE IF word \in {"paid", "approved", "deducted"} THEN "confirmed"
  ELSE word

\* Faulty variant of Terminal: a session in progress counts as ended.
TerminalOrProcessing == {"confirmed", "failed", "expired", "processing"}

Terminal == {"confirmed", "failed", "expired"}

\* f is the session a notice is applied to: one that matches ANY identifier
\* of the notice, the newest first.  A notice that names the transaction as
\* well matches every session of it.
Found(f, s, byTransaction) ==
  \/ /\ byTransaction
     /\ session[f].txn = session[s].txn
     /\ \A q \in SessionIds : session[q].txn = session[s].txn => q <= f
  \/ /\ ~byTransaction
     /\ f = s

Noticed(t, want) ==
  \/ /\ want = "confirmed"
     /\ notices[t] < MaxNotices
     /\ notices' = [notices EXCEPT ![t] = @ + 1]
  \/ /\ want # "confirmed"
     /\ UNCHANGED notices

-----------------------------------------------------------------------------
(* createPurchase, retryPurchase and createPaymentSession                  *)

\* The account is read and checked; the bundle and payment options too, but
\* a purchase refused for those leaves no trace.
CreatePurchase(h, t, n) ==
  /\ request[h] = Idle
  /\ SessionLeft
  /\ transaction[t].status = "absent"
  /\ \A g \in Requests : request[g].txn # t
  /\ customer[CustomerOf[t]].status = "active"
  /\ request' = [request EXCEPT ![h] =
       [Begin(h, "create", "insertTransaction", t) EXCEPT !.count = n]]
  /\ UNCHANGED <<rows, timers, history, faults>>

InsertTransaction(h) ==
  LET r == request[h] IN
  /\ r.at = "insertTransaction"
  /\ transaction' = [transaction EXCEPT ![r.txn] =
       [status |-> "pending", amount |-> Price * r.count]]
  /\ request' = [request EXCEPT ![h].at = "insertSession"]
  /\ UNCHANGED <<customer, session, balance, timers, history, faults>>

\* The transaction is read, and must have failed.
RetryPurchase(h, t) ==
  /\ request[h] = Idle
  /\ SessionLeft
  /\ transaction[t].status = "failed"
  /\ request' = [request EXCEPT ![h] =
       [Begin(h, "retry", "reopenTransaction", t) EXCEPT !.count = 1]]
  /\ UNCHANGED <<rows, timers, history, faults>>

\* Saves the entity read by RetryPurchase, now PENDING.
ReopenTransaction(h) ==
  LET r == request[h] IN
  /\ r.at = "reopenTransaction"
  /\ transaction' = [transaction EXCEPT ![r.txn].status = "pending"]
  /\ request' = [request EXCEPT ![h].at = "insertSession"]
  /\ UNCHANGED <<customer, session, balance, timers, history, faults>>

\* Faulty variants of NewSession: a session status that is a transaction's, and
\* an amount that leaves the count out.
NewSessionPending(r, m) ==
  [txn |-> r.txn, status |-> "pending", amount |-> transaction[r.txn].amount,
   count |-> r.count, method |-> m]

NewSessionForOne(r, m) ==
  [txn |-> r.txn, status |-> "awaiting_payment", amount |-> Price,
   count |-> r.count, method |-> m]

\* The amount is the transaction's, the count the caller's.
NewSession(r, m) ==
  [txn |-> r.txn, status |-> "awaiting_payment",
   amount |-> transaction[r.txn].amount, count |-> r.count, method |-> m]

\* First save of createPaymentSession.
InsertSession(h) ==
  LET r == request[h] IN
  /\ r.at = "insertSession"
  /\ \E s \in SessionIds, m \in Methods :
       /\ IsNextSession(s)
       /\ session' = [session EXCEPT ![s] = NewSession(r, m)]
       /\ request' = [request EXCEPT ![h].at = "initiate", ![h].ses = s]
  /\ UNCHANGED <<customer, transaction, balance, timers, history, faults>>

\* Timers scheduled for a new session; a card is confirmed by its checkout.
SimulationTimers(s, on) ==
  IF ~on THEN {}
  ELSE {<<s, "processing">>} \union
       (IF session[s].method = "card" THEN {} ELSE {<<s, "confirmed">>})

\* The provider accepts the initiation, and the session is saved again from
\* the entity built before the call, still AWAITING_PAYMENT.
PaymentInitiated(h) ==
  LET r == request[h] IN
  /\ r.at = "initiate"
  /\ session' = [session EXCEPT ![r.ses].status = "awaiting_payment"]
  /\ \E on \in Simulate :
       timers' = timers \union SimulationTimers(r.ses, on)
  /\ Leave(h)
  /\ UNCHANGED <<customer, transaction, balance, history, faults>>

\* The provider refuses or times out: the request ends with 502.  Transaction
\* and session stay as they are.
InitiationFails(h) ==
  /\ request[h].at = "initiate"
  /\ Leave(h)
  /\ UNCHANGED <<rows, timers, history, faults>>

-----------------------------------------------------------------------------
(* Notices of an outcome: confirmPurchase, handlePaymentProviderCallback,  *)
(* advanceSimulatedPaymentStatus                                           *)

\* The caller learnt the session id from the answer to createPurchase or
\* retryPurchase.  Reads the transaction.
ConfirmPurchase(h, s, want) ==
  LET t == session[s].txn IN
  /\ Exists(s)
  /\ request[h] = Idle
  /\ \A g \in Requests : request[g].at = "initiate" => request[g].ses # s
  /\ Noticed(t, want)
  /\ request' = [request EXCEPT ![h] =
       [Begin(h, "confirm", "readSession", t) EXCEPT
          !.ses = s, !.want = want, !.tStatus = transaction[t].status]]
  /\ UNCHANGED <<rows, timers, subscribed, fulfilled, units, spent, receipts,
                 instructed, faults>>

ReadSession(h) ==
  /\ request[h].at = "readSession"
  /\ request' = [request EXCEPT
       ![h].at = "readCustomer",
       ![h].sStatus = session[request[h].ses].status]
  /\ UNCHANGED <<rows, timers, history, faults>>

\* The provider may call as soon as the session exists: the initiation it
\* answers to may still be waiting for its reply.  Reads the session.
ProviderCallback(h, s, byTransaction, word) ==
  LET t == session[s].txn IN
  /\ Exists(s)
  /\ request[h] = Idle
  /\ \E f \in SessionIds :
       LET want == Normalized(word, session[f].method) IN
       /\ Found(f, s, byTransaction)
       /\ want # "none"
       /\ Noticed(t, want)
       /\ request' = [request EXCEPT ![h] =
            [Begin(h, "callback", "readTransaction", t) EXCEPT
               !.ses = f, !.want = want, !.sStatus = session[f].status]]
  /\ UNCHANGED <<rows, timers, subscribed, fulfilled, units, spent, receipts,
                 instructed, faults>>

ReadTransaction(h) ==
  /\ request[h].at = "readTransaction"
  /\ request' = [request EXCEPT
       ![h].at = "readCustomer",
       ![h].tStatus = transaction[request[h].txn].status]
  /\ UNCHANGED <<rows, timers, history, faults>>

\* A timer fires and reads its session.  A session that has ended is left
\* alone; PROCESSING is saved at once; CONFIRMED becomes a provider callback
\* that names session and transaction.
SimulationTimer(h, s, want) ==
  LET t == session[s].txn
      begin == [Begin(h, "simulate", "saving", t) EXCEPT
                  !.ses = s, !.want = want]
  IN
  /\ <<s, want>> \in timers
  /\ request[h] = Idle
  /\ timers' = timers \ {<<s, want>>}
  /\ \/ /\ session[s].status \in Terminal
        /\ UNCHANGED <<request, notices>>
     \/ /\ session[s].status \notin Terminal
        /\ want = "processing"
        /\ request' = [request EXCEPT ![h] =
             [begin EXCEPT !.sStatus = want, !.want = "none",
                           !.writes = {"session"}]]
        /\ UNCHANGED notices
     \/ /\ session[s].status \notin Terminal
        /\ want = "confirmed"
        /\ notices' = [notices EXCEPT ![t] = @ + 1]
        /\ request' = [request EXCEPT ![h] = [begin EXCEPT !.at = "lookup"]]
  /\ UNCHANGED <<rows, subscribed, fulfilled, units, spent, receipts,
                 instructed, faults>>

LookupSession(h) ==
  /\ request[h].at = "lookup"
  /\ \E f \in SessionIds :
       /\ Found(f, request[h].ses, TRUE)
       /\ request' = [request EXCEPT
            ![h].at = "readTransaction",
            ![h].ses = f,
            ![h].sStatus = session[f].status]
  /\ UNCHANGED <<rows, timers, history, faults>>

-----------------------------------------------------------------------------
(* The customer is read last; then the request decides on the entities it  *)
(* holds.                                                                  *)

\* Faulty variant of Settled: only the session that is notified is looked at.
SettledBySession(r) == r.sStatus = "confirmed"

\* The guard of failPayment and of handlePaymentProviderCallback.
Settled(r) == r.tStatus = "provisioned" \/ r.sStatus = "confirmed"

\* confirmPurchase asks for both before it answers "already confirmed".
BothSettled(r) == r.tStatus = "provisioned" /\ r.sStatus = "confirmed"

\* Faulty variant of Answered: a late failure notice gets no answer.
AnsweredToCaller(r) == r.op = "confirm" /\ BothSettled(r)

\* Nothing is left to do about the notice.
Answered(r) ==
  \/ r.op = "confirm" /\ BothSettled(r)
  \/ r.want # "confirmed" /\ Settled(r)

AlreadyConfirmed(h) ==
  LET r == request[h] IN
  /\ r.at = "readCustomer"
  /\ Answered(r)
  /\ Leave(h)
  /\ UNCHANGED <<rows, timers, history, faults>>

\* finalizeConfirmedPurchase, when the transaction it read is provisioned.
ConfirmAgain(h) ==
  LET r == request[h] IN
  /\ r.at = "readCustomer"
  /\ r.want = "confirmed"
  /\ r.tStatus = "provisioned"
  /\ ~Answered(r)
  /\ request' = [request EXCEPT ![h] =
       [r EXCEPT !.at = "saving", !.sStatus = "confirmed",
                 !.want = "none",
                 !.writes = {"transaction", "session"},
                 !.notify = r.sStatus # "confirmed"]]
  /\ UNCHANGED <<rows, timers, history, faults>>

\* Faulty variants of Charged: the list price in place of the session's
\* amount; an account that becomes active by buying.
ChargedListPrice(row, s) ==
  [row EXCEPT !.purchases = @ + session[s].count,
              !.spend = @ + Price * session[s].count]

ChargedActive(row, s) ==
  [status |-> "active", purchases |-> row.purchases + session[s].count,
   spend |-> row.spend + session[s].amount]

\* A customer entity with session s added to its totals.
Charged(row, s) ==
  [row EXCEPT !.purchases = @ + session[s].count,
              !.spend = @ + session[s].amount]

\* Faulty variant of NeedsProvisioning: once per notice.
ConfirmedByNotice(r) == r.want = "confirmed"

NeedsProvisioning(r) == r.want = "confirmed" /\ r.tStatus # "provisioned"

\* finalizeConfirmedPurchase otherwise: totals are added to the customer
\* entity just read, and the PCRF is called.
StartProvisioning(h) ==
  LET r == request[h] IN
  /\ r.at = "readCustomer"
  /\ NeedsProvisioning(r)
  /\ request' = [request EXCEPT ![h] =
       [r EXCEPT !.at = "provision", !.tStatus = "provisioned",
                 !.sStatus = "confirmed", !.want = "none",
                 !.cus = Charged(customer[r.who], r.ses)]]
  /\ UNCHANGED <<rows, timers, history, faults>>

\* The middle of handlePaymentProviderCallback: PROCESSING or
\* AWAITING_PAYMENT from the provider.
RecordProgress(h) ==
  LET r == request[h] IN
  /\ r.at = "readCustomer"
  /\ r.want \in {"processing", "awaiting_payment"}
  /\ ~Settled(r)
  /\ request' = [request EXCEPT ![h] =
       [r EXCEPT !.at = "saving", !.sStatus = r.want, !.want = "none",
                 !.tStatus = "absent", !.writes = {"session"}]]
  /\ UNCHANGED <<rows, timers, history, faults>>

FailPayment(h) ==
  LET r == request[h] IN
  /\ r.at = "readCustomer"
  /\ r.want \in {"failed", "expired"}
  /\ ~Settled(r)
  /\ request' = [request EXCEPT ![h] =
       [r EXCEPT !.at = "saving", !.tStatus = "failed", !.sStatus = r.want,
                 !.want = "none", !.writes = {"transaction", "session"}]]
  /\ UNCHANGED <<rows, timers, history, faults>>


-----------------------------------------------------------------------------
(* provisionConfirmedPurchase: one subscribeService, whatever the count    *)

Provisioned(h) ==
  LET r == request[h] IN
  /\ r.at = "provision"
  /\ subscribed' = [subscribed EXCEPT ![r.txn] = @ + 1]
  /\ fulfilled' = [fulfilled EXCEPT ![r.txn] = @ + 1]
  /\ units' = [units EXCEPT ![r.who] = @ + session[r.ses].count]
  /\ spent' = [spent EXCEPT ![r.who] = @ + session[r.ses].amount]
  /\ request' = [request EXCEPT ![h] =
       [r EXCEPT !.at = "saving", !.writes = Table, !.notify = TRUE]]
  /\ UNCHANGED <<rows, timers, notices, receipts, instructed, faults>>

\* Faulty variants of ProvisioningFails.  The exception is swallowed:
ProvisioningFailureIgnored(h) ==
  LET r == request[h] IN
  /\ r.at = "provision"
  /\ request' = [request EXCEPT ![h] =
       [r EXCEPT !.at = "saving", !.writes = Table, !.notify = TRUE]]
  /\ UNCHANGED <<rows, timers, history, faults>>

\* the PCRF is called again after a timeout.
ProvisioningRetried(h) ==
  LET r == request[h] IN
  /\ r.at = "provision"
  /\ subscribed' = [subscribed EXCEPT ![r.txn] = @ + 1]
  /\ UNCHANGED <<rows, request, timers, notices, fulfilled, units, spent,
                 receipts, instructed, faults>>

\* The PCRF rejects, is unreachable, or does not answer in time; in the last
\* case the subscription may be in effect.  Nothing has been saved.
ProvisioningFails(h) ==
  LET r == request[h] IN
  /\ r.at = "provision"
  /\ \/ UNCHANGED subscribed
     \/ subscribed' = [subscribed EXCEPT ![r.txn] = @ + 1]
  /\ Raise(h)
  /\ UNCHANGED <<rows, notices, fulfilled, units, spent, receipts,
                 instructed, faults>>

-----------------------------------------------------------------------------
(* Saves started together and awaited with Promise.all, in any order       *)

Saved(h, table) ==
  /\ request[h].at = "saving"
  /\ table \in request[h].writes
  /\ request' = [request EXCEPT ![h].writes = @ \ {table}]

SaveTransaction(h) ==
  LET r == request[h] IN
  /\ Saved(h, "transaction")
  /\ transaction' = [transaction EXCEPT ![r.txn].status = r.tStatus]
  /\ UNCHANGED <<customer, session, balance, timers, history, faults>>

SaveSession(h) ==
  LET r == request[h] IN
  /\ Saved(h, "session")
  /\ session' = [session EXCEPT ![r.ses].status = r.sStatus]
  /\ UNCHANGED <<customer, transaction, balance, timers, history, faults>>

SaveCustomer(h) ==
  LET r == request[h] IN
  /\ Saved(h, "customer")
  /\ customer' = [customer EXCEPT ![r.who] = r.cus]
  /\ instructed' = IF r.op = "status"
                     THEN [instructed EXCEPT ![r.who] = r.cus.status]
                     ELSE instructed
  /\ UNCHANGED <<transaction, session, balance, timers, notices, subscribed,
                 fulfilled, units, spent, receipts, faults>>

\* updateBalanceAfterPurchase overwrites what was on the number.
SaveBalance(h) ==
  LET r == request[h] IN
  /\ Saved(h, "balance")
  /\ balance' = [balance EXCEPT ![r.who] = session[r.ses].count]
  /\ UNCHANGED <<customer, transaction, session, timers, history, faults>>

\* One save fails.  The others go on; the caller sees the exception.
SaveFails(h) ==
  /\ request[h].at = "saving"
  /\ faults < MaxFaults
  /\ \E table \in request[h].writes :
       \/ /\ request[h].op # "simulate"
          /\ request' = [request EXCEPT ![h].writes = @ \ {table},
                                        ![h].ok = FALSE]
          /\ UNCHANGED timers
       \/ /\ request[h].op = "simulate"
          /\ Raise(h)
  /\ faults' = faults + 1
  /\ UNCHANGED <<rows, history>>

\* Every save has been answered: the event is emitted, unless one failed.
Finish(h) ==
  LET r == request[h] IN
  /\ r.at = "saving"
  /\ r.writes = {}
  /\ receipts' = IF r.ok /\ r.notify THEN receipts \union {r.ses}
                                     ELSE receipts
  /\ Leave(h)
  /\ UNCHANGED <<rows, timers, notices, subscribed, fulfilled, units, spent,
                 instructed, faults>>

-----------------------------------------------------------------------------
(* changeCustomerStatus of BulkDataCustomersService writes the same row    *)

ChangeCustomerStatus(h, c, status) ==
  /\ request[h] = Idle
  /\ request' = [request EXCEPT ![h] =
       [Idle EXCEPT !.op = "status", !.at = "saving", !.who = c,
                    !.cus = [customer[c] EXCEPT !.status = status],
                    !.writes = {"customer"}]]
  /\ UNCHANGED <<rows, timers, history, faults>>

-----------------------------------------------------------------------------
(* Faults                                                                  *)

\* A read or a single save of a request is refused by the database.
RequestFails(h) ==
  /\ request[h].at \notin {"idle", "initiate", "provision", "saving"}
  /\ faults < MaxFaults
  /\ faults' = faults + 1
  /\ Raise(h)
  /\ UNCHANGED <<rows, history>>

\* The process dies: requests and timers are gone, the rows stay.
Crash ==
  /\ faults < MaxFaults
  /\ faults' = faults + 1
  /\ request' = [h \in Requests |-> Idle]
  /\ timers' = {}
  /\ UNCHANGED <<rows, history>>

-----------------------------------------------------------------------------
\* A new request arrives.
Arrive(h) ==
  \/ \E t \in Transactions, n \in Counts : CreatePurchase(h, t, n)
  \/ \E t \in Transactions : RetryPurchase(h, t)
  \/ \E s \in SessionIds, want \in {"confirmed", "failed"} :
       ConfirmPurchase(h, s, want)
  \/ \E s \in SessionIds, byTransaction \in BOOLEAN, word \in Words :
       ProviderCallback(h, s, byTransaction, word)
  \/ \E c \in Customers, status \in Statuses :
       ChangeCustomerStatus(h, c, status)

\* A timer of the simulation fires.
TimerFires(h) ==
  \E s \in SessionIds, want \in {"processing", "confirmed"} :
    SimulationTimer(h, s, want)

\* The outcome of a call to an outside system that did not work.
Refused(h) == InitiationFails(h) \/ ProvisioningFails(h)

\* A request in flight gets its next answer.
Proceed(h) ==
  \/ InsertTransaction(h) \/ ReopenTransaction(h) \/ InsertSession(h)
  \/ PaymentInitiated(h)
  \/ ReadSession(h) \/ ReadTransaction(h) \/ LookupSession(h)
  \/ AlreadyConfirmed(h) \/ ConfirmAgain(h) \/ StartProvisioning(h)
  \/ RecordProgress(h) \/ FailPayment(h)
  \/ Provisioned(h)
  \/ SaveTransaction(h) \/ SaveSession(h) \/ SaveCustomer(h)
  \/ SaveBalance(h)
  \/ Finish(h)

Next ==
  \/ \E h \in Requests :
       Arrive(h) \/ TimerFires(h) \/ Proceed(h) \/ Refused(h)
         \/ SaveFails(h) \/ RequestFails(h)
  \/ Crash

Spec == Init /\ [][Next]_vars

\* Database, provider and PCRF calls all return or time out, so a request in
\* flight does not wait for ever.  A timer that is due fires whatever other
\* requests are in flight; the slots are the model's, hence strong fairness.
Fairness ==
  /\ \A h \in Requests : WF_vars(Proceed(h) \/ Refused(h))
  /\ SF_vars(\E h \in Requests : TimerFires(h))

FairSpec == Spec /\ Fairness

-----------------------------------------------------------------------------
(* Safety, whatever overlaps, fails or crashes                             *)

\* A transaction row says `provisioned` and a session row says `confirmed`
\* only if the PCRF acknowledged a subscription for that transaction, and a
\* receipt is sent only then: no save of finalizeConfirmedPurchase, of a
\* stale entity or of another request's status gets ahead of the PCRF.
ProvisionedIsFulfilled ==
  /\ \A t \in Transactions :
       transaction[t].status = "provisioned" => fulfilled[t] > 0
  /\ \A s \in SessionIds :
       session[s].status = "confirmed" => fulfilled[session[s].txn] > 0
  /\ \A s \in receipts : fulfilled[session[s].txn] > 0

\* Every subscription, acknowledged or not, is paid for by a positive notice
\* of its own: retries, repeated callbacks and timers never subscribe more
\* often than payment was reported.
SubscribedOnNotice == \A t \in Transactions : subscribed[t] <= notices[t]

\* The purchase totals and the balance of an account never exceed what was
\* provisioned for it: overlapping read-modify-writes of the customer row may
\* lose an addition but never invent one.
TotalsNeverOverstated ==
  \A c \in Customers :
    /\ customer[c].purchases <= units[c]
    /\ customer[c].spend <= spent[c]
    /\ balance[c] <= units[c]

\* No bundle is given away: what was charged covers every bundle provisioned,
\* also after a retry, whose session has a count of its own but the amount of
\* the transaction.
UnitsPaidFor == \A c \in Customers : Price * units[c] <= spent[c]

-----------------------------------------------------------------------------
(* What makes the three invariants above inductive                         *)

\* A session row, once there, belongs to a transaction.
RowsLinked ==
  /\ \A s \in SessionIds : IF Exists(s) THEN session[s].txn \in Transactions
                                         ELSE session[s].txn = None
  /\ \A timer \in timers : Exists(timer[1])
  /\ \A s \in receipts : Exists(s)

\* r is about a session of the transaction it holds.
AboutSession(r) ==
  /\ r.txn \in Transactions
  /\ r.who = CustomerOf[r.txn]
  /\ r.ses \in SessionIds
  /\ session[r.ses].txn = r.txn

Linked(r) ==
  /\ r.at \in {"insertTransaction", "reopenTransaction", "insertSession"} =>
       r.txn \in Transactions /\ r.who = CustomerOf[r.txn]
  /\ r.at \in {"initiate", "readSession", "lookup", "readTransaction",
               "readCustomer", "provision"} => AboutSession(r)
  /\ r.writes # {} => r.at = "saving" /\ r.who \in Customers
  /\ r.writes \ {"customer"} # {} \/ r.notify => AboutSession(r)
  /\ "session" \in r.writes => r.sStatus # "absent"

RequestsLinked == \A h \in Requests : Linked(request[h])

\* What r is going to save is covered by PCRF answers already, or will be by
\* the one it waits for: a `provisioned` or `confirmed` copy and the receipt,
Vouched(r) ==
  \/ r.tStatus # "provisioned" /\ r.sStatus # "confirmed" /\ ~r.notify
  \/ r.txn \in Transactions /\ fulfilled[r.txn] > 0

\* and the totals and the balance.
Backed(r) ==
  /\ r.at # "provision" => Vouched(r)
  /\ r.at = "provision" =>
       /\ r.sStatus = "confirmed"
       /\ r.cus.purchases <= units[r.who] + session[r.ses].count
       /\ r.cus.spend <= spent[r.who] + session[r.ses].amount
  /\ "customer" \in r.writes =>
       r.cus.purchases <= units[r.who] /\ r.cus.spend <= spent[r.who]
  /\ "balance" \in r.writes => session[r.ses].count <= units[r.who]

\* No request in flight, at any step, holds a copy that would break the
\* invariants above when it is saved, whatever other requests did since it
\* was read.
SavesAreBacked == \A h \in Requests : Backed(request[h])

-----------------------------------------------------------------------------
(* Promises kept when the requests about one customer do not overlap, and  *)
(* the database and the process do not fail                                *)

InFlight(c) == \E g \in Requests : request[g].who = c

\* openapi.yaml: the callback "provisions confirmed payments idempotently".
\* One acknowledged subscription per transaction, however many notices.
ProvisionedOnce == \A t \in Transactions : fulfilled[t] <= 1

\* A transaction whose receipt went out is provisioned and stays so.
ReceiptsAreFinal ==
  \A s \in receipts : transaction[session[s].txn].status = "provisioned"

\* Between requests the account's totals are exactly what was provisioned.
TotalsExact ==
  \A c \in Customers :
    ~InFlight(c) => /\ customer[c].purchases = units[c]
                    /\ customer[c].spend = spent[c]

\* An account has the status staff last gave it: no purchase that is being
\* finalized writes an older one back.
StatusSticks == \A c \in Customers : customer[c].status = instructed[c]

-----------------------------------------------------------------------------
(* Promised, and not kept (the README tells how)                           *)

\* api-business-rules-validation.md: the API "blocks purchases for inactive
\* customers".  A purchase is admitted only while the last status staff gave
\* the account is `active`.
InactiveCannotBuy ==
  [][\A h \in Requests :
       request[h].op # "create" /\ request'[h].op = "create"
       => instructed[request'[h].who] = "active"]_vars

\* api-requirements.md: receipts are generated "only for `provisioned`
\* transactions".  A CONFIRMED event goes out only while the row says so, not
\* after a failure notice handled meanwhile was saved over it.
ReceiptsForProvisioned ==
  [][\A s \in receipts' \ receipts :
       transaction[session[s].txn].status = "provisioned"]_vars

-----------------------------------------------------------------------------
(* Liveness                                                                *)

\* Every request is answered, whatever it meets.
RequestsEnd == \A h \in Requests : request[h] # Idle ~> request[h] = Idle

\* With the simulation on, a purchase whose timer is set is delivered, unless
\* its session was ended in the meantime.
SimulationDelivers ==
  \A s \in SessionIds :
    <<s, "confirmed">> \in timers ~>
      \/ Exists(s) /\ fulfilled[session[s].txn] > 0
      \/ session[s].status \in {"failed", "expired"}

=============================================================================
