--------------------------- MODULE PaymentsProofs ---------------------------
(***************************************************************************)
(* Proofs about Payments, for every value of its constants.                *)
(*                                                                         *)
(* IInv is inductive.  Most steps change nothing but one request; for      *)
(* those RequestStep reduces IInv' to what the new record must satisfy.    *)
(* The others change rows or history too: Frame says that the requests     *)
(* they do not touch stay linked and backed, since sessions keep their     *)
(* transaction, amount and count, and what the PCRF acknowledged only      *)
(* grows.  PaidInv adds that each notice is good for one subscription and  *)
(* each bundle is priced, whatever overlaps.                               *)
(*                                                                         *)
(* TurnInv holds in the scenario of MCPaymentScenarios in which requests   *)
(* about an account wait for one another: the one request in flight knows  *)
(* the rows as they are.  The refinement of PurchaseLedger rests on it.    *)
(***************************************************************************)
EXTENDS MCPaymentScenarios, FiniteSetTheorems, TLAPS

IInv ==
  /\ TypeOK
  /\ RowsLinked
  /\ RequestsLinked
  /\ SavesAreBacked
  /\ ProvisionedIsFulfilled
  /\ TotalsNeverOverstated

-----------------------------------------------------------------------------
\* The idle record is a request.
LEMMA IdleIsRequest == Idle \in Request /\ Linked(Idle) /\ Backed(Idle)
  BY DEF Idle, Request, Linked, Backed, Vouched, CustomerRow, NewCustomer,
         Step, SessionStatus, TransactionStatus, CustomerStatus, Table

\* A request stays linked and backed when sessions keep what identifies them
\* and the acknowledged subscriptions grow.
LEMMA Frame ==
  ASSUME NEW r \in Request,
         TypeOK, TypeOK', RowsLinked,
         \A s \in SessionIds : Exists(s) =>
           /\ session'[s].txn = session[s].txn
           /\ session'[s].count = session[s].count
           /\ session'[s].amount = session[s].amount,
         \A t \in Transactions : fulfilled[t] <= fulfilled'[t],
         \A c \in Customers : units[c] <= units'[c] /\ spent[c] <= spent'[c],
         Linked(r), Backed(r)
  PROVE  Linked(r)' /\ Backed(r)'
<1> USE ConstantsOK DEF ConstantsOK
<1>1. AboutSession(r) => /\ AboutSession(r)'
                         /\ r.who \in Customers
                         /\ session'[r.ses].count = session[r.ses].count
                         /\ session'[r.ses].amount = session[r.ses].amount
  BY DEF AboutSession, RowsLinked
<1>2. Linked(r)'
  BY <1>1 DEF Linked
<1>3. Vouched(r) => Vouched(r)'
  BY DEF Vouched, TypeOK
<1>4. r.at = "provision" => AboutSession(r)
  BY DEF Linked
<1>5. "balance" \in r.writes => AboutSession(r)
  BY DEF Linked
<1>6. "customer" \in r.writes => r.who \in Customers
  BY DEF Linked
<1>7. r.cus.purchases \in Nat /\ r.cus.spend \in Nat
  BY DEF Request, CustomerRow
<1>8. r.at = "provision" =>
        /\ r.cus.purchases <= units'[r.who] + session'[r.ses].count
        /\ r.cus.spend <= spent'[r.who] + session'[r.ses].amount
  <2> SUFFICES ASSUME r.at = "provision"
               PROVE  /\ r.cus.purchases <= units'[r.who] + session[r.ses].count
                      /\ r.cus.spend <= spent'[r.who] + session[r.ses].amount
    BY <1>1, <1>4
  <2>1. r.who \in Customers /\ r.ses \in SessionIds
    BY <1>1, <1>4 DEF AboutSession
  <2>2. /\ units[r.who] \in Nat /\ units'[r.who] \in Nat
        /\ spent[r.who] \in Nat /\ spent'[r.who] \in Nat
        /\ session[r.ses].count \in Nat /\ session[r.ses].amount \in Nat
    BY <2>1 DEF TypeOK, SessionRow
  <2> QED BY <1>7, <2>1, <2>2 DEF Backed
<1>9. "customer" \in r.writes =>
        r.cus.purchases <= units'[r.who] /\ r.cus.spend <= spent'[r.who]
  BY <1>6, <1>7 DEF Backed, TypeOK
<1>10. "balance" \in r.writes => session'[r.ses].count <= units'[r.who]
  <2> SUFFICES ASSUME "balance" \in r.writes
               PROVE  session[r.ses].count <= units'[r.who]
    BY <1>1, <1>5
  <2>1. r.who \in Customers /\ r.ses \in SessionIds
    BY <1>1, <1>5 DEF AboutSession
  <2>2. /\ units[r.who] \in Nat /\ units'[r.who] \in Nat
        /\ session[r.ses].count \in Nat
    BY <2>1 DEF TypeOK, SessionRow
  <2> QED BY <2>1, <2>2 DEF Backed
<1> QED
  BY <1>2, <1>3, <1>8, <1>9, <1>10 DEF Backed

\* The rows and what the PCRF acknowledged are as before.
Quiet == UNCHANGED <<rows, fulfilled, units, spent, receipts>>

\* A step that changes one request only: what its new record must satisfy.
LEMMA RequestStep ==
  ASSUME IInv, Quiet, timers' \subseteq timers,
         NEW h \in Requests, NEW r \in Request,
         request' = [request EXCEPT ![h] = r],
         Linked(r), Backed(r),
         notices' \in [Transactions -> Nat],
         subscribed' \in [Transactions -> Nat],
         instructed' \in [Customers -> CustomerStatus],
         faults' \in Nat
  PROVE  IInv'
<1> USE DEF IInv
<1>1. TypeOK'
  BY DEF TypeOK, Quiet, rows
<1>2. RowsLinked'
  BY DEF RowsLinked, Quiet, rows, Exists
<1>3. \A q \in Request : Linked(q) <=> Linked(q)'
  BY DEF Linked, AboutSession, Quiet, rows
<1>4. \A q \in Request : Backed(q) <=> Backed(q)'
  BY DEF Backed, Vouched, Quiet, rows
<1>5. \A g \in Requests : request'[g] \in Request
                          /\ (request'[g] = r \/ request'[g] = request[g])
  BY DEF TypeOK
<1>6. RequestsLinked'
  BY <1>3, <1>5 DEF RequestsLinked
<1>7. SavesAreBacked'
  BY <1>4, <1>5 DEF SavesAreBacked
<1>8. ProvisionedIsFulfilled' /\ TotalsNeverOverstated'
  BY DEF ProvisionedIsFulfilled, TotalsNeverOverstated, Quiet, rows
<1> QED BY <1>1, <1>2, <1>6, <1>7, <1>8

\* All requests and timers of the process are lost.
LEMMA ProcessDies ==
  ASSUME IInv, Quiet, timers' = {},
         request' = [g \in Requests |-> Idle],
         UNCHANGED <<notices, instructed>>,
         subscribed' \in [Transactions -> Nat],
         faults' \in Nat
  PROVE  IInv'
<1> USE DEF IInv
<1>1. TypeOK'
  BY IdleIsRequest DEF TypeOK, Quiet, rows
<1>2. RowsLinked'
  BY DEF RowsLinked, Quiet, rows, Exists
<1>3. RequestsLinked'
  BY DEF RequestsLinked, Linked, Idle
<1>4. SavesAreBacked'
  BY DEF SavesAreBacked, Backed, Vouched, Idle
<1>5. ProvisionedIsFulfilled' /\ TotalsNeverOverstated'
  BY DEF ProvisionedIsFulfilled, TotalsNeverOverstated, Quiet, rows
<1> QED BY <1>1, <1>2, <1>3, <1>4, <1>5

\* Initially nothing was bought.
LEMMA InitIInv == Init => IInv
<1> SUFFICES ASSUME Init PROVE IInv
  OBVIOUS
<1> USE DEF Init, NoSession
<1>1. TypeOK
  BY IdleIsRequest DEF TypeOK, CustomerRow, NewCustomer, TransactionRow,
     SessionRow, CustomerStatus, TransactionStatus, SessionStatus, PaymentMethod
<1>2. RowsLinked
  BY DEF RowsLinked, Exists
<1>3. RequestsLinked /\ SavesAreBacked
  BY IdleIsRequest DEF RequestsLinked, SavesAreBacked
<1>4. ProvisionedIsFulfilled /\ TotalsNeverOverstated
  BY DEF ProvisionedIsFulfilled, TotalsNeverOverstated, NewCustomer
<1> QED BY <1>1, <1>2, <1>3, <1>4 DEF IInv

-----------------------------------------------------------------------------
(* Steps that change one request                                           *)

\* What the type invariant says of the request of a step.
LEMMA InFlightTyped ==
  ASSUME TypeOK, RequestsLinked, SavesAreBacked, NEW h \in Requests
  PROVE  /\ request[h] \in Request
         /\ Linked(request[h])
         /\ Backed(request[h])
BY DEF TypeOK, RequestsLinked, SavesAreBacked

\* A session's row, and the transaction and account it is for.
LEMMA SessionOfAccount ==
  ASSUME TypeOK, RowsLinked, NEW s \in SessionIds, Exists(s)
  PROVE  /\ session[s].txn \in Transactions
         /\ CustomerOf[session[s].txn] \in Customers
         /\ transaction[session[s].txn].status
              \in TransactionStatus \union {"absent"}
         /\ session[s].status \in SessionStatus
<1> USE ConstantsOK DEF ConstantsOK
<1>1. session[s].txn \in Transactions
  BY DEF RowsLinked
<1>2. session[s].status \in SessionStatus
  BY DEF TypeOK, SessionRow, Exists
<1> QED BY <1>1, <1>2 DEF TypeOK, TransactionRow

LEMMA CreatePurchaseStep ==
  ASSUME IInv, NEW h \in Requests, NEW t \in Transactions, NEW n \in Counts,
         CreatePurchase(h, t, n)
  PROVE  IInv'
<1> USE ConstantsOK DEF ConstantsOK
<1> DEFINE r == [Begin(h, "create", "insertTransaction", t) EXCEPT !.count = n]
<1>1. r \in Request
  BY IdleIsRequest DEF Begin, Request, Step, Idle
<1>2. Linked(r) /\ Backed(r)
  BY DEF Linked, Backed, Vouched, Begin, Idle
<1> QED
  BY <1>1, <1>2, RequestStep
  DEF CreatePurchase, Quiet, history, rows, IInv, TypeOK

LEMMA RetryPurchaseStep ==
  ASSUME IInv, NEW h \in Requests, NEW t \in Transactions, RetryPurchase(h, t)
  PROVE  IInv'
<1> USE ConstantsOK DEF ConstantsOK
<1> DEFINE r == [Begin(h, "retry", "reopenTransaction", t) EXCEPT !.count = 1]
<1>1. r \in Request
  BY IdleIsRequest DEF Begin, Request, Step, Idle
<1>2. Linked(r) /\ Backed(r)
  BY DEF Linked, Backed, Vouched, Begin, Idle
<1> QED
  BY <1>1, <1>2, RequestStep
  DEF RetryPurchase, Quiet, history, rows, IInv, TypeOK

LEMMA ConfirmPurchaseStep ==
  ASSUME IInv, NEW h \in Requests, NEW s \in SessionIds,
         NEW want \in {"confirmed", "failed"}, ConfirmPurchase(h, s, want)
  PROVE  IInv'
<1> USE ConstantsOK DEF ConstantsOK
<1> DEFINE t == session[s].txn
           r == [Begin(h, "confirm", "readSession", t) EXCEPT
                   !.ses = s, !.want = want, !.tStatus = transaction[t].status]
<1>1. /\ t \in Transactions /\ CustomerOf[t] \in Customers
      /\ transaction[t].status \in TransactionStatus \union {"absent"}
  BY SessionOfAccount DEF ConfirmPurchase, IInv
<1>2. r \in Request
  BY <1>1, IdleIsRequest DEF Begin, Request, Step, Idle, SessionStatus
<1>3. Linked(r)
  BY <1>1 DEF Linked, AboutSession, Begin, Idle
<1>4. Backed(r)
  BY <1>1 DEF Backed, Vouched, Begin, Idle, IInv, ProvisionedIsFulfilled
<1>5. notices' \in [Transactions -> Nat]
  BY <1>1 DEF ConfirmPurchase, Noticed, IInv, TypeOK
<1> QED
  BY <1>2, <1>3, <1>4, <1>5, RequestStep
  DEF ConfirmPurchase, Quiet, rows, IInv, TypeOK

\* The session a notice is applied to is one of the transaction it is about.
LEMMA FoundSession ==
  ASSUME RowsLinked, NEW s \in SessionIds, Exists(s),
         NEW f \in SessionIds, NEW byTransaction \in BOOLEAN,
         Found(f, s, byTransaction)
  PROVE  Exists(f) /\ session[f].txn = session[s].txn
BY ConstantsOK DEF Found, RowsLinked, ConstantsOK

LEMMA ProviderCallbackStep ==
  ASSUME IInv, NEW h \in Requests, NEW s \in SessionIds,
         NEW byTransaction \in BOOLEAN, NEW word \in Words,
         ProviderCallback(h, s, byTransaction, word)
  PROVE  IInv'
<1> USE ConstantsOK DEF ConstantsOK
<1> DEFINE t == session[s].txn
<1>1. /\ Exists(s)
      /\ t \in Transactions /\ CustomerOf[t] \in Customers
  BY SessionOfAccount DEF ProviderCallback, IInv
<1>2. PICK f \in SessionIds :
        LET want == Normalized(word, session[f].method) IN
        /\ Found(f, s, byTransaction)
        /\ want # "none"
        /\ Noticed(t, want)
        /\ request' = [request EXCEPT ![h] =
             [Begin(h, "callback", "readTransaction", t) EXCEPT
                !.ses = f, !.want = want, !.sStatus = session[f].status]]
  BY DEF ProviderCallback
<1> DEFINE want == Normalized(word, session[f].method)
           r == [Begin(h, "callback", "readTransaction", t) EXCEPT
                   !.ses = f, !.want = want, !.sStatus = session[f].status]
<1>3. Exists(f) /\ session[f].txn = t
  BY <1>1, <1>2, FoundSession DEF IInv
<1>4. session[f].status \in SessionStatus
  BY <1>3, SessionOfAccount DEF IInv
<1>5. want \in SessionStatus
  BY <1>2 DEF Normalized, CallbackWord, SessionStatus
<1>6. r \in Request
  BY <1>1, <1>4, <1>5, IdleIsRequest DEF Begin, Request, Step, Idle
<1>7. Linked(r)
  BY <1>1, <1>3 DEF Linked, AboutSession, Begin, Idle
<1>8. Backed(r)
  BY <1>1, <1>3 DEF Backed, Vouched, Begin, Idle, IInv, ProvisionedIsFulfilled
<1>9. notices' \in [Transactions -> Nat]
  BY <1>1, <1>2 DEF Noticed, IInv, TypeOK
<1> HIDE DEF r
<1> QED
  BY <1>2, <1>6, <1>7, <1>8, <1>9, RequestStep
  DEF ProviderCallback, Quiet, rows, IInv, TypeOK, r

LEMMA SimulationTimerStep ==
  ASSUME IInv, NEW h \in Requests, NEW s \in SessionIds,
         NEW want \in {"processing", "confirmed"}, SimulationTimer(h, s, want)
  PROVE  IInv'
<1> USE ConstantsOK DEF ConstantsOK
<1> DEFINE t == session[s].txn
           begin == [Begin(h, "simulate", "saving", t) EXCEPT
                       !.ses = s, !.want = want]
           progress == [begin EXCEPT !.sStatus = want, !.want = "none",
                                     !.writes = {"session"}]
           lookup == [begin EXCEPT !.at = "lookup"]
<1>1. /\ Exists(s)
      /\ t \in Transactions /\ CustomerOf[t] \in Customers
  BY SessionOfAccount DEF SimulationTimer, IInv, RowsLinked
<1>2. timers' \subseteq timers
  BY DEF SimulationTimer
<1>3. notices' \in [Transactions -> Nat]
  BY <1>1 DEF SimulationTimer, IInv, TypeOK
<1>4. Quiet
  BY DEF SimulationTimer, Quiet, rows
<1>5. subscribed' \in [Transactions -> Nat]
      /\ instructed' \in [Customers -> CustomerStatus] /\ faults' \in Nat
  BY DEF SimulationTimer, IInv, TypeOK
<1>6. CASE request' = request
  <2>1. request[h] \in Request /\ Linked(request[h]) /\ Backed(request[h])
    BY InFlightTyped DEF IInv
  <2>2. request' = [request EXCEPT ![h] = request[h]]
    BY <1>6 DEF IInv, TypeOK
  <2> QED BY <1>2, <1>3, <1>4, <1>5, <2>1, <2>2, RequestStep
<1>7. CASE want = "processing" /\ request' = [request EXCEPT ![h] = progress]
  <2>1. progress \in Request
    BY <1>1, <1>7, IdleIsRequest
    DEF Begin, Request, Step, Idle, SessionStatus, Table
  <2>2. Linked(progress) /\ Backed(progress)
    BY <1>1, <1>7 DEF Linked, AboutSession, Backed, Vouched, Begin, Idle
  <2> HIDE DEF progress
  <2> QED BY <1>2, <1>3, <1>4, <1>5, <1>7, <2>1, <2>2, RequestStep
<1>8. CASE want = "confirmed" /\ request' = [request EXCEPT ![h] = lookup]
  <2>1. lookup \in Request
    BY <1>1, <1>8, IdleIsRequest DEF Begin, Request, Step, Idle, SessionStatus
  <2>2. Linked(lookup) /\ Backed(lookup)
    BY <1>1 DEF Linked, AboutSession, Backed, Vouched, Begin, Idle
  <2> HIDE DEF lookup
  <2> QED BY <1>2, <1>3, <1>4, <1>5, <1>8, <2>1, <2>2, RequestStep
<1> QED BY <1>6, <1>7, <1>8 DEF SimulationTimer

LEMMA ChangeCustomerStatusStep ==
  ASSUME IInv, NEW h \in Requests, NEW c \in Customers, NEW status \in Statuses,
         ChangeCustomerStatus(h, c, status)
  PROVE  IInv'
<1> USE ConstantsOK DEF ConstantsOK
<1> DEFINE r == [Idle EXCEPT !.op = "status", !.at = "saving", !.who = c,
                    !.cus = [customer[c] EXCEPT !.status = status],
                    !.writes = {"customer"}]
<1>1. /\ customer[c] \in CustomerRow
      /\ [customer[c] EXCEPT !.status = status] \in CustomerRow
  BY DEF IInv, TypeOK, CustomerRow
<1>2. r \in Request
  BY <1>1, IdleIsRequest DEF Request, Step, Idle, Table
<1>3. Linked(r)
  BY DEF Linked, Idle
<1>4. Backed(r)
  BY <1>1 DEF Backed, Vouched, Idle, CustomerRow, IInv, TotalsNeverOverstated
<1> QED
  BY <1>2, <1>3, <1>4, RequestStep
  DEF ChangeCustomerStatus, Quiet, history, rows, IInv, TypeOK

LEMMA ReadSessionStep ==
  ASSUME IInv, NEW h \in Requests, ReadSession(h)
  PROVE  IInv'
<1> DEFINE r == request[h]
           new == [r EXCEPT !.at = "readCustomer",
                            !.sStatus = session[r.ses].status]
<1>1. r \in Request /\ Linked(r) /\ Backed(r) /\ r.at = "readSession"
  BY InFlightTyped DEF IInv, ReadSession
<1>2. AboutSession(r)
  BY <1>1 DEF Linked
<1>3. new \in Request
  BY <1>1, <1>2 DEF Request, Step, AboutSession, IInv, TypeOK, SessionRow
<1>4. Linked(new)
  BY <1>1, <1>2 DEF Linked, AboutSession, Request
<1>5. Backed(new)
  BY <1>1, <1>2
  DEF Backed, Vouched, Linked, AboutSession, Request, IInv, ProvisionedIsFulfilled
<1>6. request' = [request EXCEPT ![h] = new]
  BY <1>1 DEF ReadSession, IInv, TypeOK
<1> HIDE DEF new
<1> QED
  BY <1>3, <1>4, <1>5, <1>6, RequestStep
  DEF ReadSession, Quiet, history, rows, IInv, TypeOK

LEMMA ReadTransactionStep ==
  ASSUME IInv, NEW h \in Requests, ReadTransaction(h)
  PROVE  IInv'
<1> DEFINE r == request[h]
           new == [r EXCEPT !.at = "readCustomer",
                            !.tStatus = transaction[r.txn].status]
<1>1. r \in Request /\ Linked(r) /\ Backed(r) /\ r.at = "readTransaction"
  BY InFlightTyped DEF IInv, ReadTransaction
<1>2. AboutSession(r)
  BY <1>1 DEF Linked
<1>3. new \in Request
  BY <1>1, <1>2 DEF Request, Step, AboutSession, IInv, TypeOK, TransactionRow
<1>4. Linked(new)
  BY <1>1, <1>2 DEF Linked, AboutSession, Request
<1>5. Backed(new)
  BY <1>1, <1>2
  DEF Backed, Vouched, Linked, AboutSession, Request, IInv, ProvisionedIsFulfilled
<1>6. request' = [request EXCEPT ![h] = new]
  BY <1>1 DEF ReadTransaction, IInv, TypeOK
<1> HIDE DEF new
<1> QED
  BY <1>3, <1>4, <1>5, <1>6, RequestStep
  DEF ReadTransaction, Quiet, history, rows, IInv, TypeOK

LEMMA LookupSessionStep ==
  ASSUME IInv, NEW h \in Requests, LookupSession(h)
  PROVE  IInv'
<1> DEFINE r == request[h]
<1>1. r \in Request /\ Linked(r) /\ Backed(r) /\ r.at = "lookup"
  BY InFlightTyped DEF IInv, LookupSession
<1>2. AboutSession(r)
  BY <1>1 DEF Linked
<1>3. PICK f \in SessionIds :
        /\ Found(f, r.ses, TRUE)
        /\ request' = [request EXCEPT ![h].at = "readTransaction",
                                      ![h].ses = f,
                                      ![h].sStatus = session[f].status]
  BY DEF LookupSession
<1> DEFINE new == [r EXCEPT !.at = "readTransaction", !.ses = f,
                            !.sStatus = session[f].status]
<1>4. Exists(f) /\ session[f].txn = r.txn
  <2>1. Exists(r.ses)
    BY <1>2, ConstantsOK DEF AboutSession, IInv, RowsLinked, ConstantsOK
  <2> QED BY <1>2, <1>3, <2>1, FoundSession DEF AboutSession, IInv
<1>5. new \in Request
  BY <1>1, <1>2 DEF Request, Step, AboutSession, IInv, TypeOK, SessionRow
<1>6. Linked(new)
  BY <1>1, <1>2, <1>4 DEF Linked, AboutSession, Request
<1>7. Backed(new)
  BY <1>1, <1>2, <1>4
  DEF Backed, Vouched, Linked, AboutSession, Request, IInv, ProvisionedIsFulfilled
<1>8. request' = [request EXCEPT ![h] = new]
  BY <1>1, <1>3 DEF IInv, TypeOK
<1> HIDE DEF new
<1> QED
  BY <1>5, <1>6, <1>7, <1>8, RequestStep
  DEF LookupSession, Quiet, history, rows, IInv, TypeOK

\* A request that leaves frees its slot.
LEMMA LeaveStep ==
  ASSUME IInv, NEW h \in Requests, Leave(h), Quiet, timers' \subseteq timers,
         UNCHANGED <<notices, instructed>>,
         subscribed' \in [Transactions -> Nat],
         faults' \in Nat
  PROVE  IInv'
BY IdleIsRequest, RequestStep DEF Leave, IInv, TypeOK

LEMMA RaiseStep ==
  ASSUME IInv, NEW h \in Requests, Raise(h), Quiet,
         UNCHANGED <<notices, instructed>>,
         subscribed' \in [Transactions -> Nat],
         faults' \in Nat
  PROVE  IInv'
<1>1. CASE Leave(h) /\ UNCHANGED timers
  BY <1>1, LeaveStep
<1>2. CASE request' = [g \in Requests |-> Idle] /\ timers' = {}
  BY <1>2, ProcessDies
<1> QED BY <1>1, <1>2 DEF Raise

\* Every way of deciding what to do with a notice.
LEMMA DecisionStep ==
  ASSUME IInv, NEW h \in Requests,
         \/ AlreadyConfirmed(h) \/ ConfirmAgain(h) \/ StartProvisioning(h)
         \/ RecordProgress(h) \/ FailPayment(h)
  PROVE  IInv'
<1> USE ConstantsOK DEF ConstantsOK
<1> DEFINE r == request[h]
<1>1. r \in Request /\ Linked(r) /\ Backed(r) /\ r.at = "readCustomer"
  BY InFlightTyped DEF IInv, AlreadyConfirmed, ConfirmAgain, StartProvisioning,
     RecordProgress, FailPayment
<1>2. AboutSession(r) /\ r.who \in Customers
  BY <1>1 DEF Linked, AboutSession
<1>3. Vouched(r) /\ r.writes = {}
  BY <1>1 DEF Backed, Linked
<1>4. Quiet /\ timers' \subseteq timers /\ UNCHANGED <<history, faults>>
  BY DEF Quiet, history, rows, AlreadyConfirmed, ConfirmAgain,
     StartProvisioning, RecordProgress, FailPayment
<1>5. /\ notices' \in [Transactions -> Nat]
      /\ subscribed' \in [Transactions -> Nat]
      /\ instructed' \in [Customers -> CustomerStatus]
      /\ faults' \in Nat
  BY <1>4 DEF history, IInv, TypeOK
<1>6. CASE AlreadyConfirmed(h)
  BY <1>4, <1>5, <1>6, LeaveStep DEF AlreadyConfirmed, history
<1>7. CASE ConfirmAgain(h)
  <2>1. PICK first \in BOOLEAN : first = (r.sStatus # "confirmed")
    OBVIOUS
  <2> DEFINE new == [r EXCEPT !.at = "saving", !.sStatus = "confirmed",
                              !.want = "none",
                              !.writes = {"transaction", "session"},
                              !.notify = first]
  <2>2. new \in Request
    BY ZenonT(60), <1>1 DEF Request, Step, SessionStatus, Table
  <2>3. Linked(new)
    BY <1>1, <1>2 DEF Linked, AboutSession, Request
  <2>4. Backed(new)
    BY <1>1, <1>3, <1>7 DEF Backed, Vouched, Request, ConfirmAgain
  <2>5. request' = [request EXCEPT ![h] = new]
    BY <1>7, <2>1 DEF ConfirmAgain
  <2> HIDE DEF new
  <2> QED BY <1>4, <1>5, <2>2, <2>3, <2>4, <2>5, RequestStep
<1>8. CASE StartProvisioning(h)
  <2>1. PICK read \in CustomerRow : read = customer[r.who]
    BY <1>2 DEF IInv, TypeOK
  <2>2. session[r.ses].count \in Nat /\ session[r.ses].amount \in Nat
    BY <1>2 DEF AboutSession, IInv, TypeOK, SessionRow
  <2>3. PICK n \in Nat, amount \in Nat :
          /\ n = read.purchases + session[r.ses].count
          /\ amount = read.spend + session[r.ses].amount
    BY <2>1, <2>2 DEF CustomerRow
  <2>4. read.purchases <= units[r.who] /\ read.spend <= spent[r.who]
    BY <1>2, <2>1 DEF IInv, TotalsNeverOverstated
  <2>5. /\ units[r.who] \in Nat /\ spent[r.who] \in Nat
        /\ read.purchases \in Nat /\ read.spend \in Nat
    BY <1>2, <2>1 DEF IInv, TypeOK, CustomerRow
  <2>6. /\ n <= units[r.who] + session[r.ses].count
        /\ amount <= spent[r.who] + session[r.ses].amount
    BY <2>2, <2>3, <2>4, <2>5
  <2> DEFINE total == [read EXCEPT !.purchases = n, !.spend = amount]
             new == [r EXCEPT !.at = "provision", !.tStatus = "provisioned",
                              !.sStatus = "confirmed", !.want = "none",
                              !.cus = total]
  <2>7. total \in CustomerRow /\ total.purchases = n /\ total.spend = amount
    BY <2>1, <2>3 DEF CustomerRow
  <2>8. request' = [request EXCEPT ![h] = new]
    BY <1>8, <2>1, <2>3 DEF StartProvisioning, Charged
  <2> HIDE DEF total
  <2>9. new \in Request
    <3>1. /\ "provision" \in Step
          /\ "provisioned" \in TransactionStatus
          /\ "confirmed" \in SessionStatus
      BY DEF Step, TransactionStatus, SessionStatus
    <3> QED BY <1>1, <2>7, <3>1 DEF Request
  <2>10. Linked(new)
    BY <1>1, <1>2 DEF Linked, AboutSession, Request
  <2>11. Backed(new)
    BY <1>1, <1>3, <2>6, <2>7 DEF Backed, Request
  <2> HIDE DEF new
  <2> QED BY <1>4, <1>5, <2>8, <2>9, <2>10, <2>11, RequestStep
<1>9. CASE RecordProgress(h)
  <2> DEFINE new == [r EXCEPT !.at = "saving", !.sStatus = r.want,
                              !.want = "none", !.tStatus = "absent",
                              !.writes = {"session"}]
  <2>1. new \in Request
    BY ZenonT(60), <1>1, <1>9 DEF Request, Step, SessionStatus, Table, RecordProgress
  <2>2. Linked(new)
    BY <1>1, <1>2, <1>9 DEF Linked, AboutSession, Request, RecordProgress
  <2>3. Backed(new)
    BY <1>1, <1>3, <1>9 DEF Backed, Vouched, Request, RecordProgress
  <2>4. request' = [request EXCEPT ![h] = new]
    BY <1>9 DEF RecordProgress
  <2> HIDE DEF new
  <2> QED BY <1>4, <1>5, <2>1, <2>2, <2>3, <2>4, RequestStep
<1>10. CASE FailPayment(h)
  <2> DEFINE new == [r EXCEPT !.at = "saving", !.tStatus = "failed",
                              !.sStatus = r.want, !.want = "none",
                              !.writes = {"transaction", "session"}]
  <2>1. new \in Request
    BY ZenonT(60), <1>1, <1>10
    DEF Request, Step, SessionStatus, TransactionStatus, Table, FailPayment
  <2>2. Linked(new)
    BY <1>1, <1>2, <1>10 DEF Linked, AboutSession, Request, FailPayment
  <2>3. Backed(new)
    BY <1>1, <1>3, <1>10 DEF Backed, Vouched, Request, FailPayment
  <2>4. request' = [request EXCEPT ![h] = new]
    BY <1>10 DEF FailPayment
  <2> HIDE DEF new
  <2> QED BY <1>4, <1>5, <2>1, <2>2, <2>3, <2>4, RequestStep
<1> QED BY <1>6, <1>7, <1>8, <1>9, <1>10

\* Outcomes that change no row: refusals, database errors and crashes.
LEMMA FaultStep ==
  ASSUME IInv,
         \/ \E h \in Requests : Refused(h) \/ RequestFails(h) \/ SaveFails(h)
         \/ Crash
  PROVE  IInv'
<1>1. CASE Crash
  BY <1>1, ProcessDies DEF Crash, Quiet, rows, history, IInv, TypeOK
<1>2. ASSUME NEW h \in Requests, InitiationFails(h)
      PROVE  IInv'
  BY <1>2, LeaveStep DEF InitiationFails, Quiet, rows, history, IInv, TypeOK
<1>3. ASSUME NEW h \in Requests, ProvisioningFails(h)
      PROVE  IInv'
  <2>1. subscribed' \in [Transactions -> Nat]
    BY <1>3 DEF ProvisioningFails, IInv, TypeOK
  <2> QED
    BY <1>3, <2>1, RaiseStep DEF ProvisioningFails, Quiet, rows, IInv, TypeOK
<1>4. ASSUME NEW h \in Requests, RequestFails(h)
      PROVE  IInv'
  BY <1>4, RaiseStep DEF RequestFails, Quiet, rows, history, IInv, TypeOK
<1>5. ASSUME NEW h \in Requests, SaveFails(h)
      PROVE  IInv'
  <2>1. /\ Quiet /\ UNCHANGED <<notices, subscribed, instructed>>
        /\ faults' \in Nat
    BY <1>5 DEF SaveFails, Quiet, rows, history, IInv, TypeOK
  <2>2. CASE Raise(h)
    BY <2>1, <2>2, RaiseStep DEF IInv, TypeOK
  <2>3. CASE ~Raise(h)
    <3>1. PICK table \in request[h].writes :
            /\ request' = [request EXCEPT ![h].writes = @ \ {table},
                                          ![h].ok = FALSE]
            /\ UNCHANGED timers
      BY <1>5, <2>3 DEF SaveFails
    <3> DEFINE r == request[h]
               new == [r EXCEPT !.writes = @ \ {table}, !.ok = FALSE]
    <3>2. r \in Request /\ Linked(r) /\ Backed(r)
      BY InFlightTyped DEF IInv
    <3>3. new \in Request
      BY <3>2 DEF Request
    <3>4. Linked(new)
      BY <3>2 DEF Linked, AboutSession, Request
    <3>5. Backed(new)
      BY <3>2 DEF Backed, Vouched, Request
    <3>6. request' = [request EXCEPT ![h] = new]
      BY <3>1 DEF IInv, TypeOK
    <3> HIDE DEF new
    <3> QED
      BY <2>1, <3>1, <3>3, <3>4, <3>5, <3>6, RequestStep DEF IInv, TypeOK
  <2> QED BY <2>2, <2>3
<1> QED BY <1>1, <1>2, <1>3, <1>4, <1>5 DEF Refused

-----------------------------------------------------------------------------
(* Steps that change rows or history                                       *)

\* What Frame asks of a step.
Steady ==
  /\ \A s \in SessionIds : Exists(s) =>
       /\ session'[s].txn = session[s].txn
       /\ session'[s].count = session[s].count
       /\ session'[s].amount = session[s].amount
  /\ \A t \in Transactions : fulfilled[t] <= fulfilled'[t]
  /\ \A c \in Customers : units[c] <= units'[c] /\ spent[c] <= spent'[c]

\* The requests a step does not touch.
LEMMA OthersStay ==
  ASSUME IInv, TypeOK', Steady, NEW h \in Requests,
         \A g \in Requests \ {h} : request'[g] = request[g]
  PROVE  \A g \in Requests \ {h} :
           Linked(request[g])' /\ Backed(request[g])'
<1> TAKE g \in Requests \ {h}
<1>1. PICK r : r = request[g]
  OBVIOUS
<1>2. r \in Request /\ Linked(r) /\ Backed(r)
  BY <1>1, InFlightTyped DEF IInv
<1>3. Linked(r)' /\ Backed(r)'
  BY <1>2, Frame DEF Steady, IInv
<1>4. r = request'[g]
  BY <1>1
<1> QED BY <1>3, <1>4

\* The request that takes the step, when its new record could have stood in
\* the old state.
LEMMA RowStep ==
  ASSUME IInv, TypeOK', Steady, NEW h \in Requests, NEW r \in Request,
         request' = [request EXCEPT ![h] = r],
         Linked(r), Backed(r)
  PROVE  RequestsLinked' /\ SavesAreBacked'
<1>1. \A g \in Requests \ {h} : Linked(request[g])' /\ Backed(request[g])'
  BY OthersStay DEF IInv, TypeOK
<1>2. PICK q \in Request : q = r
  OBVIOUS
<1>3. Linked(q)' /\ Backed(q)'
  BY <1>2, Frame DEF Steady, IInv
<1>4. request'[h] = q
  BY <1>2 DEF IInv, TypeOK
<1>5. Linked(request[h])' /\ Backed(request[h])'
  BY <1>3, <1>4
<1> QED BY <1>1, <1>5 DEF RequestsLinked, SavesAreBacked

LEMMA InsertTransactionStep ==
  ASSUME IInv, NEW h \in Requests, InsertTransaction(h)
  PROVE  IInv'
<1> DEFINE r == request[h]
           new == [r EXCEPT !.at = "insertSession"]
<1>1. r \in Request /\ Linked(r) /\ Backed(r) /\ r.at = "insertTransaction"
  BY InFlightTyped DEF IInv, InsertTransaction
<1>2. new \in Request
  BY <1>1 DEF Request, Step
<1>3. Linked(new) /\ Backed(new)
  BY <1>1 DEF Linked, AboutSession, Backed, Vouched, Request
<1>4. request' = [request EXCEPT ![h] = new]
  BY DEF InsertTransaction, IInv, TypeOK
<1>5. r.txn \in Transactions /\ Price * r.count \in Nat
  BY <1>1, ConstantsOK DEF Linked, Request, ConstantsOK
<1>6. transaction' \in [Transactions -> TransactionRow]
  <2>1. [status |-> "pending", amount |-> Price * r.count] \in TransactionRow
    BY <1>5 DEF TransactionRow, TransactionStatus
  <2> QED BY <1>5, <2>1 DEF InsertTransaction, IInv, TypeOK
<1> HIDE DEF new
<1>7. TypeOK'
  BY <1>2, <1>4, <1>6 DEF InsertTransaction, history, IInv, TypeOK
<1>8. Steady
  BY DEF Steady, InsertTransaction, history, IInv, TypeOK
<1>9. RequestsLinked' /\ SavesAreBacked'
  BY <1>2, <1>3, <1>4, <1>7, <1>8, RowStep
<1>10. RowsLinked' /\ TotalsNeverOverstated'
  BY DEF InsertTransaction, history, IInv, RowsLinked, Exists,
     TotalsNeverOverstated
<1>11. ProvisionedIsFulfilled'
  BY <1>5 DEF InsertTransaction, history, IInv, TypeOK, ProvisionedIsFulfilled
<1> QED BY <1>7, <1>9, <1>10, <1>11 DEF IInv

LEMMA ReopenTransactionStep ==
  ASSUME IInv, NEW h \in Requests, ReopenTransaction(h)
  PROVE  IInv'
<1> DEFINE r == request[h]
           new == [r EXCEPT !.at = "insertSession"]
<1>1. r \in Request /\ Linked(r) /\ Backed(r) /\ r.at = "reopenTransaction"
  BY InFlightTyped DEF IInv, ReopenTransaction
<1>2. new \in Request
  BY <1>1 DEF Request, Step
<1>3. Linked(new) /\ Backed(new)
  BY <1>1 DEF Linked, AboutSession, Backed, Vouched, Request
<1>4. request' = [request EXCEPT ![h] = new]
  BY DEF ReopenTransaction, IInv, TypeOK
<1>5. r.txn \in Transactions
  BY <1>1 DEF Linked
<1>6. transaction' \in [Transactions -> TransactionRow]
  BY <1>5 DEF ReopenTransaction, IInv, TypeOK, TransactionRow, TransactionStatus
<1> HIDE DEF new
<1>7. TypeOK'
  BY <1>2, <1>4, <1>6 DEF ReopenTransaction, history, IInv, TypeOK
<1>8. Steady
  BY DEF Steady, ReopenTransaction, history, IInv, TypeOK
<1>9. RequestsLinked' /\ SavesAreBacked'
  BY <1>2, <1>3, <1>4, <1>7, <1>8, RowStep
<1>10. RowsLinked' /\ TotalsNeverOverstated'
  BY DEF ReopenTransaction, history, IInv, RowsLinked, Exists,
     TotalsNeverOverstated
<1>11. ProvisionedIsFulfilled'
  BY <1>5
  DEF ReopenTransaction, history, IInv, TypeOK, TransactionRow,
      ProvisionedIsFulfilled
<1> QED BY <1>7, <1>9, <1>10, <1>11 DEF IInv

LEMMA InsertSessionStep ==
  ASSUME IInv, NEW h \in Requests, InsertSession(h)
  PROVE  IInv'
<1> USE ConstantsOK DEF ConstantsOK
<1> DEFINE r == request[h]
<1>1. PICK s \in SessionIds, m \in Methods :
        /\ IsNextSession(s)
        /\ session' = [session EXCEPT ![s] = NewSession(r, m)]
        /\ request' = [request EXCEPT ![h].at = "initiate", ![h].ses = s]
  BY DEF InsertSession
<1> DEFINE new == [r EXCEPT !.at = "initiate", !.ses = s]
           row == NewSession(r, m)
<1>2. r \in Request /\ Linked(r) /\ Backed(r) /\ r.at = "insertSession"
  BY InFlightTyped DEF IInv, InsertSession
<1>3. r.txn \in Transactions /\ r.who = CustomerOf[r.txn] /\ r.writes = {}
  BY <1>2 DEF Linked
<1>4. ~Exists(s)
  BY <1>1 DEF IsNextSession
<1>5. new \in Request
  BY <1>2 DEF Request, Step
<1>6. row \in SessionRow
  <2>1. transaction[r.txn].amount \in Nat /\ r.count \in Nat
    BY <1>2, <1>3 DEF IInv, TypeOK, TransactionRow, Request
  <2> QED BY <1>3, <2>1 DEF NewSession, SessionRow, SessionStatus
<1>7. request' = [request EXCEPT ![h] = new]
  BY <1>1 DEF IInv, TypeOK
<1>8. /\ session' \in [SessionIds -> SessionRow]
      /\ session'[s] = row
      /\ \A q \in SessionIds \ {s} : session'[q] = session[q]
  BY <1>1, <1>6 DEF IInv, TypeOK
<1>9. row.txn = r.txn /\ row.status = "awaiting_payment"
  BY DEF NewSession
<1> HIDE DEF new, row
<1>10. TypeOK'
  BY <1>5, <1>7, <1>8 DEF InsertSession, history, IInv, TypeOK
<1>11. Steady
  BY <1>4, <1>8 DEF Steady, InsertSession, history, IInv, TypeOK
<1>12. \A g \in Requests \ {h} : Linked(request[g])' /\ Backed(request[g])'
  BY <1>7, <1>10, <1>11, OthersStay DEF IInv, TypeOK
<1>13. request'[h] = new
  BY <1>7 DEF IInv, TypeOK
<1>14. Linked(request[h])'
  <2>1. /\ new.at = "initiate" /\ new.writes = {} /\ new.ses = s
        /\ new.txn = r.txn /\ new.who = r.who /\ new.notify = r.notify
    BY <1>2, <1>3 DEF new, Request
  <2> HIDE DEF r
  <2> QED BY <1>3, <1>8, <1>9, <1>13, <2>1 DEF Linked, AboutSession
<1>15. Backed(request[h])'
  <2>1. /\ new.at = "initiate" /\ new.writes = {} /\ new.txn = r.txn
        /\ new.tStatus = r.tStatus /\ new.sStatus = r.sStatus
        /\ new.notify = r.notify
    BY <1>2, <1>3 DEF new, Request
  <2>2. Vouched(r) /\ UNCHANGED fulfilled
    BY <1>2 DEF Backed, InsertSession, history
  <2> HIDE DEF r
  <2> QED BY <1>13, <2>1, <2>2 DEF Backed, Vouched
<1>16. RequestsLinked' /\ SavesAreBacked'
  BY <1>12, <1>14, <1>15 DEF RequestsLinked, SavesAreBacked
<1>17. RowsLinked'
  <2>1. UNCHANGED <<timers, receipts>>
    BY DEF InsertSession, history
  <2>2. \A q \in SessionIds : Exists(q) => Exists(q)'
    BY <1>4, <1>8, <1>9 DEF Exists
  <2>3. \A q \in SessionIds : IF Exists(q)' THEN session'[q].txn \in Transactions
                                            ELSE session'[q].txn = None
    BY <1>3, <1>8, <1>9 DEF Exists, IInv, RowsLinked
  <2> QED BY <2>1, <2>2, <2>3 DEF IInv, TypeOK, RowsLinked
<1>18. ProvisionedIsFulfilled'
  BY <1>4, <1>8, <1>9
  DEF InsertSession, history, IInv, TypeOK, RowsLinked, ProvisionedIsFulfilled
<1>19. TotalsNeverOverstated'
  BY DEF InsertSession, history, IInv, TotalsNeverOverstated
<1> QED BY <1>10, <1>16, <1>17, <1>18, <1>19 DEF IInv

\* A save of session s that changes its status only.
LEMMA StatusSaved ==
  ASSUME TypeOK, NEW s \in SessionIds, NEW status \in SessionStatus,
         session' = [session EXCEPT ![s].status = status]
  PROVE  /\ session' \in [SessionIds -> SessionRow]
         /\ session'[s].status = status
         /\ \A q \in SessionIds : /\ session'[q].txn = session[q].txn
                                  /\ session'[q].count = session[q].count
                                  /\ session'[q].amount = session[q].amount
         /\ \A q \in SessionIds \ {s} : session'[q] = session[q]
BY DEF TypeOK, SessionRow

LEMMA PaymentInitiatedStep ==
  ASSUME IInv, NEW h \in Requests, PaymentInitiated(h)
  PROVE  IInv'
<1> USE ConstantsOK DEF ConstantsOK
<1> DEFINE r == request[h]
<1>1. r \in Request /\ Linked(r) /\ Backed(r) /\ r.at = "initiate"
  BY InFlightTyped DEF IInv, PaymentInitiated
<1>2. AboutSession(r)
  BY <1>1 DEF Linked
<1>3. Exists(r.ses)
  BY <1>2 DEF AboutSession, IInv, RowsLinked
<1>4. "awaiting_payment" \in SessionStatus
  BY DEF SessionStatus
<1>5. /\ session' \in [SessionIds -> SessionRow]
      /\ session'[r.ses].status = "awaiting_payment"
      /\ \A q \in SessionIds : /\ session'[q].txn = session[q].txn
                               /\ session'[q].count = session[q].count
                               /\ session'[q].amount = session[q].amount
      /\ \A q \in SessionIds \ {r.ses} : session'[q] = session[q]
  BY <1>2, <1>4, StatusSaved DEF AboutSession, PaymentInitiated, IInv
<1>6. request' = [request EXCEPT ![h] = Idle]
  BY DEF PaymentInitiated, Leave
<1>7. PICK on \in Simulate :
        timers' = timers \union SimulationTimers(r.ses, on)
  BY DEF PaymentInitiated
<1>8. SimulationTimers(r.ses, on) \subseteq SessionIds \X {"processing", "confirmed"}
      /\ \A timer \in SimulationTimers(r.ses, on) : timer[1] = r.ses
  BY <1>2 DEF SimulationTimers, AboutSession
<1>9. TypeOK'
  BY <1>5, <1>6, <1>7, <1>8, IdleIsRequest
  DEF PaymentInitiated, history, IInv, TypeOK
<1>10. Steady
  BY <1>5 DEF Steady, PaymentInitiated, history, IInv, TypeOK
<1>11. RequestsLinked' /\ SavesAreBacked'
  BY <1>6, <1>9, <1>10, IdleIsRequest, RowStep
<1>12. RowsLinked'
  <2>1. \A q \in SessionIds : Exists(q)' <=> Exists(q)
    BY <1>3, <1>5 DEF Exists
  <2>2. UNCHANGED receipts /\ receipts \subseteq SessionIds
    BY DEF PaymentInitiated, history, IInv, TypeOK
  <2>3. \A timer \in timers' : timer[1] \in SessionIds /\ Exists(timer[1])
    BY <1>2, <1>3, <1>7, <1>8 DEF AboutSession, IInv, TypeOK, RowsLinked
  <2> QED BY <1>5, <2>1, <2>2, <2>3 DEF IInv, RowsLinked
<1>13. ProvisionedIsFulfilled'
  BY <1>2, <1>5
  DEF PaymentInitiated, history, AboutSession, IInv, TypeOK, ProvisionedIsFulfilled
<1>14. TotalsNeverOverstated'
  BY DEF PaymentInitiated, history, IInv, TotalsNeverOverstated
<1> QED BY <1>9, <1>11, <1>12, <1>13, <1>14 DEF IInv

LEMMA ProvisionedStep ==
  ASSUME IInv, NEW h \in Requests, Provisioned(h)
  PROVE  IInv'
<1> USE ConstantsOK DEF ConstantsOK
<1> DEFINE r == request[h]
           new == [r EXCEPT !.at = "saving", !.writes = Table, !.notify = TRUE]
<1>1. r \in Request /\ Linked(r) /\ Backed(r) /\ r.at = "provision"
  BY InFlightTyped DEF IInv, Provisioned
<1>2. AboutSession(r) /\ r.who \in Customers /\ r.sStatus = "confirmed"
  BY <1>1 DEF Linked, AboutSession, Backed
<1>3. new \in Request
  <2>1. "saving" \in Step
    BY DEF Step
  <2> QED BY <1>1, <2>1 DEF Request
<1>4. request' = [request EXCEPT ![h] = new]
  BY DEF Provisioned
<1>5. /\ new.at = "saving" /\ new.writes = Table /\ new.notify
      /\ new.txn = r.txn /\ new.who = r.who /\ new.ses = r.ses
      /\ new.sStatus = r.sStatus /\ new.cus = r.cus
  BY <1>1 DEF Request
<1>6. PICK n \in Nat, amount \in Nat :
        n = session[r.ses].count /\ amount = session[r.ses].amount
  BY <1>2 DEF AboutSession, IInv, TypeOK, SessionRow
<1>7. /\ units' = [units EXCEPT ![r.who] = @ + n]
      /\ spent' = [spent EXCEPT ![r.who] = @ + amount]
      /\ fulfilled' = [fulfilled EXCEPT ![r.txn] = @ + 1]
      /\ subscribed' = [subscribed EXCEPT ![r.txn] = @ + 1]
  BY <1>6 DEF Provisioned
<1>8. n \in Nat /\ amount \in Nat
  BY <1>6
<1>9. r.txn \in Transactions
  BY <1>2 DEF AboutSession
<1> HIDE DEF new
<1>10. /\ units' \in [Customers -> Nat] /\ spent' \in [Customers -> Nat]
       /\ fulfilled' \in [Transactions -> Nat]
       /\ subscribed' \in [Transactions -> Nat]
  BY <1>2, <1>7, <1>8, <1>9 DEF IInv, TypeOK
<1>11. TypeOK'
  BY <1>3, <1>4, <1>10 DEF Provisioned, rows, IInv, TypeOK
<1>12. /\ \A t \in Transactions : fulfilled[t] <= fulfilled'[t]
       /\ \A c \in Customers : units[c] <= units'[c] /\ spent[c] <= spent'[c]
       /\ fulfilled'[r.txn] > 0
  BY <1>2, <1>7, <1>8, <1>9 DEF IInv, TypeOK
<1>13. Steady
  BY <1>12 DEF Steady, Provisioned, rows
<1>14. \A g \in Requests \ {h} : Linked(request[g])' /\ Backed(request[g])'
  BY <1>4, <1>11, <1>13, OthersStay DEF IInv, TypeOK
<1>15. request'[h] = new
  BY <1>4 DEF IInv, TypeOK
<1>16. Linked(request[h])'
  BY <1>2, <1>5, <1>15 DEF Linked, AboutSession, Provisioned, rows
<1>17. Backed(request[h])'
  <2>1. Vouched(request[h])'
    BY <1>5, <1>9, <1>12, <1>15 DEF Vouched
  <2>2. /\ r.cus.purchases <= units'[r.who] /\ r.cus.spend <= spent'[r.who]
        /\ n <= units'[r.who]
    <3>1. /\ r.cus.purchases <= units[r.who] + n
          /\ r.cus.spend <= spent[r.who] + amount
      BY <1>1, <1>6 DEF Backed
    <3>2. /\ units'[r.who] = units[r.who] + n
          /\ spent'[r.who] = spent[r.who] + amount
      BY <1>2, <1>7 DEF IInv, TypeOK
    <3>3. units[r.who] \in Nat
      BY <1>2 DEF IInv, TypeOK
    <3> QED BY <1>8, <3>1, <3>2, <3>3
  <2> QED
    BY <1>5, <1>6, <1>15, <2>1, <2>2 DEF Backed, Provisioned, rows
<1>18. RequestsLinked' /\ SavesAreBacked'
  BY <1>14, <1>16, <1>17 DEF RequestsLinked, SavesAreBacked
<1>19. RowsLinked'
  BY DEF Provisioned, rows, IInv, RowsLinked, Exists
<1>20. ProvisionedIsFulfilled'
  <2> SUFFICES \A t \in Transactions : fulfilled[t] > 0 => fulfilled'[t] > 0
    BY DEF Provisioned, rows, IInv, TypeOK, ProvisionedIsFulfilled, RowsLinked,
       Exists
  <2> QED BY <1>10, <1>12 DEF IInv, TypeOK
<1>21. TotalsNeverOverstated'
  <2> SUFFICES ASSUME NEW c \in Customers
               PROVE  /\ customer'[c].purchases <= units'[c]
                      /\ customer'[c].spend <= spent'[c]
                      /\ balance'[c] <= units'[c]
    BY DEF TotalsNeverOverstated
  <2>1. /\ customer[c].purchases \in Nat /\ customer[c].spend \in Nat
        /\ balance[c] \in Nat
        /\ units[c] \in Nat /\ units'[c] \in Nat
        /\ spent[c] \in Nat /\ spent'[c] \in Nat
    BY <1>10 DEF IInv, TypeOK, CustomerRow
  <2>2. units[c] <= units'[c] /\ spent[c] <= spent'[c]
    BY <1>12
  <2>3. UNCHANGED <<customer, balance>>
    BY DEF Provisioned, rows
  <2> QED BY <2>1, <2>2, <2>3 DEF IInv, TotalsNeverOverstated
<1> QED BY <1>11, <1>18, <1>19, <1>20, <1>21 DEF IInv

\* The request whose save is answered: it may do with one save less.
LEMMA SavedRequest ==
  ASSUME IInv, NEW h \in Requests, NEW table, Saved(h, table),
         TypeOK', Steady
  PROVE  RequestsLinked' /\ SavesAreBacked'
<1> DEFINE r == request[h]
           new == [r EXCEPT !.writes = @ \ {table}]
<1>1. r \in Request /\ Linked(r) /\ Backed(r)
  BY InFlightTyped DEF IInv
<1>2. new \in Request
  BY <1>1 DEF Request
<1>3. Linked(new)
  BY <1>1 DEF Linked, AboutSession, Request
<1>4. Backed(new)
  BY <1>1 DEF Backed, Vouched, Request
<1>5. request' = [request EXCEPT ![h] = new]
  BY DEF Saved, IInv, TypeOK
<1> HIDE DEF new
<1> QED BY <1>2, <1>3, <1>4, <1>5, RowStep

\* What a save leaves typed in the requests.
LEMMA SavedTyped ==
  ASSUME TypeOK, NEW h \in Requests, NEW table, Saved(h, table)
  PROVE  /\ request' \in [Requests -> Request]
         /\ table \in request[h].writes
         /\ request[h].at = "saving"
         /\ request[h] \in Request
<1>1. request[h] \in Request
  BY DEF TypeOK
<1>2. [request[h] EXCEPT !.writes = @ \ {table}] \in Request
  BY <1>1 DEF Request
<1> QED BY <1>1, <1>2 DEF TypeOK, Saved

LEMMA SaveTransactionStep ==
  ASSUME IInv, NEW h \in Requests, SaveTransaction(h)
  PROVE  IInv'
<1> DEFINE r == request[h]
<1>1. Saved(h, "transaction")
  BY DEF SaveTransaction
<1>2. /\ r \in Request /\ Linked(r) /\ Backed(r)
      /\ "transaction" \in r.writes /\ r.at = "saving"
  BY <1>1, SavedTyped, InFlightTyped DEF IInv
<1>3. r.txn \in Transactions
  BY <1>2 DEF Linked, AboutSession
<1>4. r.tStatus = "provisioned" => fulfilled[r.txn] > 0
  BY <1>2 DEF Backed, Vouched
<1>5. r.tStatus \in TransactionStatus \union {"absent"}
  BY <1>2 DEF Request
<1>6. /\ transaction' \in [Transactions -> TransactionRow]
      /\ transaction'[r.txn].status = r.tStatus
      /\ \A t \in Transactions \ {r.txn} : transaction'[t] = transaction[t]
  BY <1>3, <1>5 DEF SaveTransaction, IInv, TypeOK, TransactionRow
<1>7. TypeOK'
  BY <1>1, <1>6, SavedTyped DEF SaveTransaction, history, IInv, TypeOK
<1>8. Steady
  BY DEF Steady, SaveTransaction, history, IInv, TypeOK
<1>9. RequestsLinked' /\ SavesAreBacked'
  BY <1>1, <1>7, <1>8, SavedRequest
<1>10. RowsLinked' /\ TotalsNeverOverstated'
  BY DEF SaveTransaction, history, IInv, RowsLinked, Exists,
     TotalsNeverOverstated
<1>11. ProvisionedIsFulfilled'
  BY <1>4, <1>6 DEF SaveTransaction, history, IInv, ProvisionedIsFulfilled
<1> QED BY <1>7, <1>9, <1>10, <1>11 DEF IInv

LEMMA SaveSessionStep ==
  ASSUME IInv, NEW h \in Requests, SaveSession(h)
  PROVE  IInv'
<1> USE ConstantsOK DEF ConstantsOK
<1> DEFINE r == request[h]
<1>1. Saved(h, "session")
  BY DEF SaveSession
<1>2. /\ r \in Request /\ Linked(r) /\ Backed(r)
      /\ "session" \in r.writes /\ r.at = "saving"
  BY <1>1, SavedTyped, InFlightTyped DEF IInv
<1>3. AboutSession(r) /\ r.sStatus # "absent"
  BY <1>2 DEF Linked
<1>4. Exists(r.ses) /\ r.sStatus \in SessionStatus
  BY <1>2, <1>3 DEF AboutSession, Request, IInv, RowsLinked
<1>5. r.sStatus = "confirmed" => fulfilled[r.txn] > 0
  BY <1>2 DEF Backed, Vouched
<1>6. /\ session' \in [SessionIds -> SessionRow]
      /\ session'[r.ses].status = r.sStatus
      /\ \A q \in SessionIds : /\ session'[q].txn = session[q].txn
                               /\ session'[q].count = session[q].count
                               /\ session'[q].amount = session[q].amount
      /\ \A q \in SessionIds \ {r.ses} : session'[q] = session[q]
  BY <1>3, <1>4, StatusSaved DEF AboutSession, SaveSession, IInv
<1>7. TypeOK'
  BY <1>1, <1>6, SavedTyped DEF SaveSession, history, IInv, TypeOK
<1>8. Steady
  BY <1>6 DEF Steady, SaveSession, history, IInv, TypeOK
<1>9. RequestsLinked' /\ SavesAreBacked'
  BY <1>1, <1>7, <1>8, SavedRequest
<1>10. RowsLinked'
  <2>1. \A q \in SessionIds : Exists(q)' <=> Exists(q)
    BY <1>3, <1>4, <1>6 DEF Exists
  <2> QED
    BY <1>6, <2>1 DEF SaveSession, history, IInv, TypeOK, RowsLinked
<1>11. ProvisionedIsFulfilled'
  BY <1>3, <1>5, <1>6
  DEF SaveSession, history, AboutSession, IInv, TypeOK, ProvisionedIsFulfilled
<1>12. TotalsNeverOverstated'
  BY DEF SaveSession, history, IInv, TotalsNeverOverstated
<1> QED BY <1>7, <1>9, <1>10, <1>11, <1>12 DEF IInv

LEMMA SaveCustomerStep ==
  ASSUME IInv, NEW h \in Requests, SaveCustomer(h)
  PROVE  IInv'
<1> DEFINE r == request[h]
<1>1. Saved(h, "customer")
  BY DEF SaveCustomer
<1>2. /\ r \in Request /\ Linked(r) /\ Backed(r)
      /\ "customer" \in r.writes /\ r.at = "saving"
  BY <1>1, SavedTyped, InFlightTyped DEF IInv
<1>3. r.who \in Customers
  BY <1>2 DEF Linked
<1>4. r.cus.purchases <= units[r.who] /\ r.cus.spend <= spent[r.who]
  BY <1>2 DEF Backed
<1>5. r.cus \in CustomerRow /\ r.cus.status \in CustomerStatus
  BY <1>2 DEF Request, CustomerRow
<1>6. customer' = [customer EXCEPT ![r.who] = r.cus]
  BY DEF SaveCustomer
<1>7. instructed' \in [Customers -> CustomerStatus]
  BY <1>3, <1>5 DEF SaveCustomer, IInv, TypeOK
<1>8. TypeOK'
  BY <1>1, <1>3, <1>5, <1>6, <1>7, SavedTyped DEF SaveCustomer, IInv, TypeOK
<1>9. Steady
  BY DEF Steady, SaveCustomer, IInv, TypeOK
<1>10. RequestsLinked' /\ SavesAreBacked'
  BY <1>1, <1>8, <1>9, SavedRequest
<1>11. RowsLinked' /\ ProvisionedIsFulfilled'
  BY DEF SaveCustomer, IInv, RowsLinked, Exists, ProvisionedIsFulfilled
<1>12. TotalsNeverOverstated'
  BY <1>3, <1>4, <1>6 DEF SaveCustomer, IInv, TypeOK, TotalsNeverOverstated
<1> QED BY <1>8, <1>10, <1>11, <1>12 DEF IInv

LEMMA SaveBalanceStep ==
  ASSUME IInv, NEW h \in Requests, SaveBalance(h)
  PROVE  IInv'
<1> USE ConstantsOK DEF ConstantsOK
<1> DEFINE r == request[h]
<1>1. Saved(h, "balance")
  BY DEF SaveBalance
<1>2. /\ r \in Request /\ Linked(r) /\ Backed(r)
      /\ "balance" \in r.writes /\ r.at = "saving"
  BY <1>1, SavedTyped, InFlightTyped DEF IInv
<1>3. r.who \in Customers /\ r.ses \in SessionIds
  BY <1>2 DEF Linked, AboutSession
<1>4. session[r.ses].count <= units[r.who]
  BY <1>2 DEF Backed
<1>5. session[r.ses].count \in Nat
  BY <1>3 DEF IInv, TypeOK, SessionRow
<1>6. balance' = [balance EXCEPT ![r.who] = session[r.ses].count]
  BY DEF SaveBalance
<1>7. TypeOK'
  BY <1>1, <1>3, <1>5, <1>6, SavedTyped
  DEF SaveBalance, history, IInv, TypeOK
<1>8. Steady
  BY DEF Steady, SaveBalance, history, IInv, TypeOK
<1>9. RequestsLinked' /\ SavesAreBacked'
  BY <1>1, <1>7, <1>8, SavedRequest
<1>10. RowsLinked' /\ ProvisionedIsFulfilled'
  BY DEF SaveBalance, history, IInv, RowsLinked, Exists, ProvisionedIsFulfilled
<1>11. TotalsNeverOverstated'
  BY <1>3, <1>4, <1>6
  DEF SaveBalance, history, IInv, TypeOK, TotalsNeverOverstated
<1> QED BY <1>7, <1>9, <1>10, <1>11 DEF IInv

LEMMA FinishStep ==
  ASSUME IInv, NEW h \in Requests, Finish(h)
  PROVE  IInv'
<1> USE ConstantsOK DEF ConstantsOK
<1> DEFINE r == request[h]
<1>1. r \in Request /\ Linked(r) /\ Backed(r) /\ r.at = "saving"
  BY InFlightTyped DEF IInv, Finish
<1>2. r.notify => /\ AboutSession(r) /\ Exists(r.ses)
                  /\ fulfilled[r.txn] > 0
  BY <1>1 DEF Linked, Backed, Vouched, AboutSession, IInv, RowsLinked
<1>3. receipts' \subseteq SessionIds
      /\ \A s \in receipts' : s \in receipts \/ (r.notify /\ s = r.ses)
  BY <1>2 DEF Finish, AboutSession, IInv, TypeOK
<1>4. request' = [request EXCEPT ![h] = Idle]
  BY DEF Finish, Leave
<1>5. TypeOK'
  BY <1>3, <1>4, IdleIsRequest DEF Finish, rows, IInv, TypeOK
<1>6. Steady
  BY DEF Steady, Finish, rows, IInv, TypeOK
<1>7. RequestsLinked' /\ SavesAreBacked'
  BY <1>4, <1>5, <1>6, IdleIsRequest, RowStep
<1>8. RowsLinked'
  BY <1>2, <1>3 DEF Finish, rows, IInv, RowsLinked, Exists
<1>9. ProvisionedIsFulfilled'
  BY <1>2, <1>3 DEF Finish, rows, AboutSession, IInv, ProvisionedIsFulfilled
<1>10. TotalsNeverOverstated'
  BY DEF Finish, rows, IInv, TotalsNeverOverstated
<1> QED BY <1>5, <1>7, <1>8, <1>9, <1>10 DEF IInv

-----------------------------------------------------------------------------
(* The theorems                                                            *)

\* Every step of Next keeps IInv, and so does a stuttering step.
LEMMA NextIInv == IInv /\ [Next]_vars => IInv'
<1> SUFFICES ASSUME IInv, [Next]_vars
             PROVE  IInv'
  OBVIOUS
<1>1. ASSUME NEW h \in Requests, Arrive(h)
      PROVE  IInv'
  BY <1>1, CreatePurchaseStep, RetryPurchaseStep, ConfirmPurchaseStep,
     ProviderCallbackStep, ChangeCustomerStatusStep DEF Arrive
<1>2. ASSUME NEW h \in Requests, TimerFires(h)
      PROVE  IInv'
  BY <1>2, SimulationTimerStep DEF TimerFires
<1>3. ASSUME NEW h \in Requests, Proceed(h)
      PROVE  IInv'
  BY <1>3, InsertTransactionStep, ReopenTransactionStep, InsertSessionStep,
     PaymentInitiatedStep, ReadSessionStep, ReadTransactionStep,
     LookupSessionStep, DecisionStep, ProvisionedStep, SaveTransactionStep,
     SaveSessionStep, SaveCustomerStep, SaveBalanceStep, FinishStep
  DEF Proceed
<1>4. CASE \/ \E h \in Requests : Refused(h) \/ RequestFails(h) \/ SaveFails(h)
           \/ Crash
  BY <1>4, FaultStep
<1>5. CASE UNCHANGED vars
  BY <1>5 DEF vars, rows, memory, history, IInv, TypeOK, RowsLinked, Exists,
     RequestsLinked, Linked, AboutSession, SavesAreBacked, Backed, Vouched,
     ProvisionedIsFulfilled, TotalsNeverOverstated
<1> QED BY <1>1, <1>2, <1>3, <1>4, <1>5 DEF Next

\* Every reachable state satisfies the inductive invariant.
LEMMA SpecIInv == Spec => []IInv
<1>1. Init => IInv
  BY InitIInv
<1>2. IInv /\ [Next]_vars => IInv'
  BY NextIInv
<1> QED BY <1>1, <1>2, PTL DEF Spec

\* Rows, requests, timers and history of BulkDataPaymentsService always have
\* their types, whatever the numbers of accounts, transactions and requests.
THEOREM TypeCorrect == Spec => []TypeOK
<1>1. IInv => TypeOK
  BY DEF IInv
<1> QED BY <1>1, SpecIInv, PTL

\* finalizeConfirmedPurchase calls the PCRF before it saves: whatever
\* overlaps, fails or crashes, no row and no receipt says that a purchase was
\* provisioned when the PCRF acknowledged nothing.
THEOREM NothingClaimedUnprovisioned == Spec => []ProvisionedIsFulfilled
<1>1. IInv => ProvisionedIsFulfilled
  BY DEF IInv
<1> QED BY <1>1, SpecIInv, PTL

\* What finalizeConfirmedPurchase and updateBalanceAfterPurchase write from
\* stale copies of the customer row never exceeds what the PCRF acknowledged.
THEOREM NothingCountedTwice == Spec => []TotalsNeverOverstated
<1>1. IInv => TotalsNeverOverstated
  BY DEF IInv
<1> QED BY <1>1, SpecIInv, PTL

\* The reason of the two above: at every step each request in flight holds
\* copies that are safe to save.
THEOREM CopiesAreSafe == Spec => []SavesAreBacked
<1>1. IInv => SavesAreBacked
  BY DEF IInv
<1> QED BY <1>1, SpecIInv, PTL

-----------------------------------------------------------------------------
(* Paid for                                                                *)

\* A notice whose bundle is not subscribed yet.
Owes(r) == r.want = "confirmed" \/ r.at = "provision"

Owing(t) == {h \in Requests : request[h].txn = t /\ Owes(request[h])}

\* Every notice is good for one subscription: it was used for one, or a
\* request still owes it.
EachNoticeOnce ==
  \A t \in Transactions : subscribed[t] + Cardinality(Owing(t)) <= notices[t]

\* A transaction costs a bundle or more, a session as much as its bundles.
RowsPriced ==
  /\ \A t \in Transactions :
       transaction[t].status # "absent" => Price <= transaction[t].amount
  /\ \A s \in SessionIds : Exists(s) =>
       /\ transaction[session[s].txn].status # "absent"
       /\ Price * session[s].count <= session[s].amount

\* What a request knows of its transaction before there is a session, and that
\* what it saves is a status.
Priced(r, rowOf) ==
  /\ r.at = "insertTransaction" => rowOf[r.txn].status = "absent"
  /\ r.at \in {"reopenTransaction", "insertSession"} =>
       /\ rowOf[r.txn].status # "absent"
       /\ Price * r.count <= rowOf[r.txn].amount
  /\ r.at = "insertTransaction" => r.count # 0
  /\ "transaction" \in r.writes \/ r.at = "provision" => r.tStatus # "absent"
  /\ r.at = "provision" => r.want # "confirmed"

AllPriced == \A h \in Requests : Priced(request[h], transaction)

\* A transaction is inserted by one request.
OneInserts ==
  \A g, h \in Requests :
    /\ request[g].at = "insertTransaction"
    /\ request[h].at = "insertTransaction"
    /\ request[g].txn = request[h].txn
    => g = h

PaidInv ==
  EachNoticeOnce /\ RowsPriced /\ AllPriced /\ OneInserts /\ UnitsPaidFor

\* Other requests are not touched.
OnlyRequest(h) == \A g \in Requests \ {h} : request'[g] = request[g]

\* Transactions keep their price and sessions theirs, and none appears.
RowsKept ==
  /\ \A t \in Transactions :
       /\ transaction'[t].status = "absent" <=> transaction[t].status = "absent"
       /\ transaction'[t].amount = transaction[t].amount
  /\ \A s \in SessionIds :
       /\ session'[s].status = "absent" <=> session[s].status = "absent"
       /\ session'[s].txn = session[s].txn
       /\ session'[s].count = session[s].count
       /\ session'[s].amount = session[s].amount

LEMMA KeptRowsPriced ==
  ASSUME IInv, RowsPriced, RowsKept
  PROVE  RowsPriced'
BY ConstantsOK
DEF RowsPriced, RowsKept, Exists, IInv, RowsLinked, ConstantsOK

\* The transaction of a request that is about to insert or reopen it, or to
\* insert its session.
LEMMA EarlyTransaction ==
  ASSUME IInv, NEW h \in Requests,
         request[h].at \in {"insertTransaction", "reopenTransaction",
                            "insertSession"}
  PROVE  request[h].txn \in Transactions
BY DEF IInv, RequestsLinked, Linked

\* A step of request h, whose new record stands to the new rows as it should.
LEMMA PricedStep ==
  ASSUME IInv, PaidInv, NEW h \in Requests, OnlyRequest(h),
         Priced(request'[h], transaction'),
         request'[h].at = "insertTransaction" =>
           \A g \in Requests : request[g].txn # request'[h].txn,
         \A t \in Transactions :
           /\ transaction[t].status # "absent" =>
                /\ transaction'[t].status # "absent"
                /\ transaction'[t].amount = transaction[t].amount
           /\ transaction[t].status = "absent" =>
                \/ transaction'[t].status = "absent"
                \/ /\ request[h].at = "insertTransaction"
                   /\ request[h].txn = t
  PROVE  AllPriced' /\ OneInserts'
<1>1. ASSUME NEW g \in Requests \ {h}
      PROVE  Priced(request[g], transaction')
  <2>1. Priced(request[g], transaction)
    BY DEF PaidInv, AllPriced
  <2>2. CASE request[g].at = "insertTransaction"
    <3>1. request[g].txn \in Transactions
      BY <2>2, EarlyTransaction
    <3>2. ~(request[h].at = "insertTransaction" /\ request[h].txn = request[g].txn)
      BY <2>2 DEF PaidInv, OneInserts
    <3> QED  BY <2>1, <2>2, <3>1, <3>2 DEF Priced
  <2>3. CASE request[g].at \in {"reopenTransaction", "insertSession"}
    <3>1. request[g].txn \in Transactions
      BY <2>3, EarlyTransaction
    <3> QED  BY <2>1, <2>3, <3>1 DEF Priced
  <2> QED  BY <2>1, <2>2, <2>3 DEF Priced
<1>2. AllPriced'
  <2>1. ASSUME NEW g \in Requests
        PROVE  Priced(request'[g], transaction')
    BY <1>1 DEF OnlyRequest
  <2> QED  BY <2>1 DEF AllPriced
<1>3. OneInserts'
  <2> SUFFICES ASSUME NEW g \in Requests, NEW f \in Requests,
                      request'[g].at = "insertTransaction",
                      request'[f].at = "insertTransaction",
                      request'[g].txn = request'[f].txn
               PROVE  g = f
    BY DEF OneInserts
  <2>1. CASE g # h /\ f # h
    BY <2>1 DEF OnlyRequest, PaidInv, OneInserts
  <2>2. CASE g = h /\ f # h
    BY <2>2 DEF OnlyRequest
  <2>3. CASE g # h /\ f = h
    BY <2>3 DEF OnlyRequest
  <2> QED  BY <2>1, <2>2, <2>3
<1> QED  BY <1>2, <1>3

\* The requests that owe a bundle are finitely many.
LEMMA OwingFinite ==
  ASSUME NEW t \in Transactions
  PROVE  IsFiniteSet(Owing(t)) /\ Cardinality(Owing(t)) \in Nat
BY ConstantsOK, FS_Subset, FS_CardinalityType DEF Owing, ConstantsOK

LEMMA OwingFiniteNext ==
  ASSUME NEW t \in Transactions
  PROVE  IsFiniteSet(Owing(t)') /\ Cardinality(Owing(t)') \in Nat
BY ConstantsOK, FS_Subset, FS_CardinalityType DEF Owing, ConstantsOK

\* No request owes more than before.
LEMMA OwedAsBefore ==
  ASSUME IInv, IInv', EachNoticeOnce,
         \A h \in Requests :
           Owes(request'[h]) =>
             Owes(request[h]) /\ request'[h].txn = request[h].txn,
         subscribed' = subscribed, notices' = notices
  PROVE  EachNoticeOnce'
<1> SUFFICES ASSUME NEW t \in Transactions
             PROVE  subscribed[t] + Cardinality(Owing(t)') <= notices[t]
  BY DEF EachNoticeOnce
<1>1. Owing(t)' \subseteq Owing(t)
  BY DEF Owing
<1>2. Cardinality(Owing(t)') <= Cardinality(Owing(t))
  BY <1>1, OwingFinite, FS_Subset
<1>3. subscribed[t] + Cardinality(Owing(t)) <= notices[t]
  BY DEF EachNoticeOnce
<1> QED  BY <1>2, <1>3, OwingFinite, OwingFiniteNext DEF IInv, TypeOK

\* A notice arrives, and the request that carries it owes one more.
LEMMA OwedOnNotice ==
  ASSUME IInv, IInv', EachNoticeOnce, NEW h \in Requests, OnlyRequest(h),
         NEW t \in Transactions, request'[h].txn = t,
         subscribed' = subscribed,
         notices' = [notices EXCEPT ![t] = @ + 1]
  PROVE  EachNoticeOnce'
<1> SUFFICES ASSUME NEW u \in Transactions
             PROVE  subscribed[u] + Cardinality(Owing(u)') <= notices'[u]
  BY DEF EachNoticeOnce
<1>1. subscribed[u] + Cardinality(Owing(u)) <= notices[u]
  BY DEF EachNoticeOnce
<1>2. /\ Cardinality(Owing(u)) \in Nat /\ Cardinality(Owing(u)') \in Nat
      /\ subscribed[u] \in Nat /\ notices[u] \in Nat
  BY OwingFinite, OwingFiniteNext DEF IInv, TypeOK
<1>3. CASE u = t
  <2>1. Owing(u)' \subseteq Owing(u) \union {h}
    BY DEF Owing, OnlyRequest
  <2>2. IsFiniteSet(Owing(u) \union {h})
    BY OwingFinite, FS_AddElement
  <2>3. Cardinality(Owing(u)') <= Cardinality(Owing(u) \union {h})
    BY <2>1, <2>2, FS_Subset
  <2>4. Cardinality(Owing(u) \union {h}) =
          IF h \in Owing(u) THEN Cardinality(Owing(u))
                            ELSE Cardinality(Owing(u)) + 1
    BY OwingFinite, FS_AddElement
  <2>5. Cardinality(Owing(u) \union {h}) \in Nat
    BY <2>2, FS_CardinalityType
  <2>6. notices'[u] = notices[u] + 1
    BY <1>3 DEF IInv, TypeOK
  <2> QED  BY <1>1, <1>2, <2>3, <2>4, <2>5, <2>6
<1>4. CASE u # t
  <2>1. Owing(u)' \subseteq Owing(u) /\ notices'[u] = notices[u]
    BY <1>4 DEF Owing, OnlyRequest, IInv, TypeOK
  <2>2. Cardinality(Owing(u)') <= Cardinality(Owing(u))
    BY <2>1, OwingFinite, FS_Subset
  <2> QED  BY <1>1, <1>2, <2>1, <2>2
<1> QED  BY <1>3, <1>4

\* The bundle that a request owed is subscribed, and no request owes more.
LEMMA OwedAndSubscribed ==
  ASSUME IInv, IInv', EachNoticeOnce, NEW h \in Requests,
         NEW t \in Transactions, request[h].txn = t, Owes(request[h]),
         ~Owes(request'[h]),
         \A g \in Requests :
           Owes(request'[g]) =>
             Owes(request[g]) /\ request'[g].txn = request[g].txn,
         subscribed' = [subscribed EXCEPT ![t] = @ + 1],
         notices' = notices
  PROVE  EachNoticeOnce'
<1> SUFFICES ASSUME NEW u \in Transactions
             PROVE  subscribed'[u] + Cardinality(Owing(u)') <= notices[u]
  BY DEF EachNoticeOnce
<1>1. subscribed[u] + Cardinality(Owing(u)) <= notices[u]
  BY DEF EachNoticeOnce
<1>2. /\ Cardinality(Owing(u)) \in Nat /\ Cardinality(Owing(u)') \in Nat
      /\ subscribed[u] \in Nat /\ notices[u] \in Nat
  BY OwingFinite, OwingFiniteNext DEF IInv, TypeOK
<1>3. CASE u = t
  <2>1. Owing(u)' \subseteq Owing(u) \ {h} /\ h \in Owing(u)
    BY <1>3 DEF Owing
  <2>2. /\ IsFiniteSet(Owing(u) \ {h})
        /\ Cardinality(Owing(u) \ {h}) = Cardinality(Owing(u)) - 1
    BY <2>1, OwingFinite, FS_RemoveElement
  <2>3. Cardinality(Owing(u)') <= Cardinality(Owing(u) \ {h})
    BY <2>1, <2>2, FS_Subset
  <2>4. subscribed'[u] = subscribed[u] + 1
    BY <1>3 DEF IInv, TypeOK
  <2> QED  BY <1>1, <1>2, <2>2, <2>3, <2>4
<1>4. CASE u # t
  <2>1. Owing(u)' \subseteq Owing(u) /\ subscribed'[u] = subscribed[u]
    BY <1>4 DEF Owing, IInv, TypeOK
  <2>2. Cardinality(Owing(u)') <= Cardinality(Owing(u))
    BY <2>1, OwingFinite, FS_Subset
  <2> QED  BY <1>1, <1>2, <2>1, <2>2
<1> QED  BY <1>3, <1>4

\* A step that leaves the prices alone.
LEMMA KeepsPrices ==
  ASSUME IInv, PaidInv, RowsKept, NEW h \in Requests, OnlyRequest(h),
         request'[h].at \notin {"insertTransaction", "reopenTransaction",
                                "insertSession"},
         "transaction" \in request'[h].writes \/ request'[h].at = "provision" =>
           request'[h].tStatus # "absent",
         request'[h].at = "provision" => request'[h].want # "confirmed",
         UNCHANGED <<units, spent>>
  PROVE  RowsPriced' /\ AllPriced' /\ OneInserts' /\ UnitsPaidFor'
<1>1. RowsPriced'
  BY KeptRowsPriced DEF PaidInv
<1>2. Priced(request'[h], transaction')
  BY DEF Priced
<1>3. AllPriced' /\ OneInserts'
  BY <1>2, PricedStep DEF RowsKept
<1>4. UnitsPaidFor'
  BY DEF PaidInv, UnitsPaidFor
<1> QED  BY <1>1, <1>3, <1>4

\* And one that is no notice and no subscription.
LEMMA KeepsPaid ==
  ASSUME IInv, IInv', PaidInv, RowsKept, NEW h \in Requests, OnlyRequest(h),
         request'[h].at \notin {"insertTransaction", "reopenTransaction",
                                "insertSession"},
         "transaction" \in request'[h].writes \/ request'[h].at = "provision" =>
           request'[h].tStatus # "absent",
         request'[h].at = "provision" => request'[h].want # "confirmed",
         Owes(request'[h]) =>
           Owes(request[h]) /\ request'[h].txn = request[h].txn,
         UNCHANGED <<units, spent, subscribed, notices>>
  PROVE  PaidInv'
<1>1. RowsPriced' /\ AllPriced' /\ OneInserts' /\ UnitsPaidFor'
  BY KeepsPrices
<1>2. EachNoticeOnce'
  BY OwedAsBefore DEF OnlyRequest, PaidInv
<1> QED  BY <1>1, <1>2 DEF PaidInv

\* The record of an idle slot.
LEMMA IdleFields ==
  /\ Idle.at = "idle" /\ Idle.want = "none" /\ Idle.writes = {}
  /\ Idle.txn = None /\ Idle.who = None /\ ~Owes(Idle)
BY DEF Idle, Owes

\* A request is refused, or the process dies with all of them.
LEMMA RaisePaid ==
  ASSUME IInv, IInv', PaidInv, NEW h \in Requests, Raise(h),
         UNCHANGED <<rows, units, spent, subscribed, notices>>
  PROVE  PaidInv'
<1>1. RowsKept
  BY DEF RowsKept, rows
<1>2. CASE Leave(h)
  <2>1. OnlyRequest(h) /\ request'[h] = Idle
    BY <1>2 DEF Leave, OnlyRequest, IInv, TypeOK
  <2> QED  BY <1>1, <2>1, IdleFields, KeepsPaid
<1>3. CASE request' = [g \in Requests |-> Idle]
  <2>1. AllPriced' /\ OneInserts'
    BY <1>3, IdleFields DEF AllPriced, OneInserts, Priced
  <2>2. RowsPriced' /\ UnitsPaidFor'
    BY <1>1, KeptRowsPriced DEF PaidInv, UnitsPaidFor
  <2>3. EachNoticeOnce'
    BY <1>3, IdleFields, OwedAsBefore DEF PaidInv
  <2> QED  BY <2>1, <2>2, <2>3 DEF PaidInv
<1> QED  BY <1>2, <1>3 DEF Raise

LEMMA CrashPaid ==
  ASSUME IInv, IInv', PaidInv, Crash
  PROVE  PaidInv'
<1>1. RowsKept /\ request' = [g \in Requests |-> Idle]
  BY DEF RowsKept, rows, Crash
<1>2. AllPriced' /\ OneInserts'
  BY <1>1, IdleFields DEF AllPriced, OneInserts, Priced
<1>3. RowsPriced' /\ UnitsPaidFor'
  BY <1>1, KeptRowsPriced DEF PaidInv, UnitsPaidFor, Crash, history
<1>4. EachNoticeOnce'
  BY <1>1, IdleFields, OwedAsBefore DEF PaidInv, Crash, history
<1> QED  BY <1>2, <1>3, <1>4 DEF PaidInv

\* Reads, decisions, saves and the end of a request.
LEMMA ReadsPaid ==
  ASSUME IInv, IInv', PaidInv, NEW h \in Requests,
         ReadSession(h) \/ ReadTransaction(h) \/ LookupSession(h)
  PROVE  PaidInv'
<1>1. RowsKept /\ UNCHANGED <<units, spent, subscribed, notices>>
  BY DEF RowsKept, rows, history, ReadSession, ReadTransaction, LookupSession
<1>2. /\ request[h] \in Request /\ Linked(request[h])
      /\ request \in [Requests -> Request]
  BY InFlightTyped DEF IInv, TypeOK
<1>3. /\ OnlyRequest(h)
      /\ request'[h].at \in {"readCustomer", "readTransaction"}
      /\ request'[h].writes = request[h].writes
      /\ request'[h].want = request[h].want
      /\ request'[h].txn = request[h].txn
      /\ request[h].at \in {"readSession", "readTransaction", "lookup"}
  <2>1. CASE ReadSession(h)
    BY <1>2, <2>1 DEF OnlyRequest, ReadSession, Request
  <2>2. CASE ReadTransaction(h)
    BY <1>2, <2>2 DEF OnlyRequest, ReadTransaction, Request
  <2>3. CASE LookupSession(h)
    <3>1. PICK f \in SessionIds :
            request' = [request EXCEPT ![h].at = "readTransaction",
                                       ![h].ses = f,
                                       ![h].sStatus = session[f].status]
      BY <2>3 DEF LookupSession
    <3>2. request[h].at = "lookup"
      BY <2>3 DEF LookupSession
    <3> QED  BY <1>2, <3>1, <3>2 DEF OnlyRequest, Request
  <2> QED  BY <2>1, <2>2, <2>3
<1>4. request[h].writes = {}
  BY <1>2, <1>3 DEF Linked
<1>5. Owes(request'[h]) => Owes(request[h])
  BY <1>3 DEF Owes
<1> QED  BY <1>1, <1>3, <1>4, <1>5, KeepsPaid

LEMMA DecisionPaid ==
  ASSUME IInv, IInv', PaidInv, NEW h \in Requests,
         \/ AlreadyConfirmed(h) \/ ConfirmAgain(h) \/ StartProvisioning(h)
         \/ RecordProgress(h) \/ FailPayment(h)
  PROVE  PaidInv'
<1>1. RowsKept /\ UNCHANGED <<units, spent, subscribed, notices>>
  BY DEF RowsKept, rows, history, AlreadyConfirmed, ConfirmAgain,
     StartProvisioning, RecordProgress, FailPayment
<1>2. request[h] \in Request /\ request \in [Requests -> Request]
  BY DEF IInv, TypeOK
<1>3. OnlyRequest(h)
  BY <1>2 DEF OnlyRequest, AlreadyConfirmed, ConfirmAgain, StartProvisioning,
     RecordProgress, FailPayment, Leave
<1>4. CASE AlreadyConfirmed(h)
  BY <1>1, <1>2, <1>3, <1>4, IdleFields, KeepsPaid
  DEF AlreadyConfirmed, Leave
<1>5. CASE ConfirmAgain(h)
  <2>1. /\ request'[h].at = "saving" /\ request'[h].want = "none"
        /\ request'[h].tStatus = "provisioned"
    BY <1>2, <1>5 DEF ConfirmAgain, Request
  <2> QED  BY <1>1, <1>3, <2>1, KeepsPaid DEF Owes
<1>6. CASE StartProvisioning(h)
  <2>1. /\ request'[h].at = "provision" /\ request'[h].tStatus = "provisioned"
        /\ request'[h].txn = request[h].txn /\ request'[h].want = "none"
    BY <1>2, <1>6 DEF StartProvisioning, Request
  <2>2. Owes(request[h])
    BY <1>6 DEF StartProvisioning, NeedsProvisioning, Owes
  <2> QED  BY <1>1, <1>3, <2>1, <2>2, KeepsPaid
<1>7. CASE RecordProgress(h)
  <2>1. /\ request'[h].at = "saving" /\ request'[h].want = "none"
        /\ request'[h].writes = {"session"}
    BY <1>2, <1>7 DEF RecordProgress, Request
  <2> QED  BY <1>1, <1>3, <2>1, KeepsPaid DEF Owes
<1>8. CASE FailPayment(h)
  <2>1. /\ request'[h].at = "saving" /\ request'[h].want = "none"
        /\ request'[h].tStatus = "failed"
    BY <1>2, <1>8 DEF FailPayment, Request
  <2> QED  BY <1>1, <1>3, <2>1, KeepsPaid DEF Owes
<1> QED  BY <1>4, <1>5, <1>6, <1>7, <1>8

LEMMA SavesPaid ==
  ASSUME IInv, IInv', PaidInv, NEW h \in Requests,
         \/ SaveTransaction(h) \/ SaveSession(h) \/ SaveCustomer(h)
         \/ SaveBalance(h)
  PROVE  PaidInv'
<1> DEFINE r == request[h]
<1>1. /\ r \in Request /\ Linked(r) /\ request \in [Requests -> Request]
      /\ Priced(r, transaction)
  BY InFlightTyped DEF IInv, TypeOK, PaidInv, AllPriced
<1>2. PICK table \in r.writes : Saved(h, table)
  BY DEF SaveTransaction, SaveSession, SaveCustomer, SaveBalance, Saved
<1>3. /\ OnlyRequest(h)
      /\ request'[h].at = "saving" /\ request'[h].tStatus = r.tStatus
      /\ request'[h].want = r.want /\ request'[h].txn = r.txn
      /\ request'[h].writes \subseteq r.writes
      /\ r.at = "saving"
  BY <1>1, <1>2 DEF Saved, OnlyRequest, Request
<1>4. "transaction" \in request'[h].writes => request'[h].tStatus # "absent"
  BY <1>1, <1>3 DEF Priced
<1>5. UNCHANGED <<units, spent, subscribed, notices>>
  BY DEF SaveTransaction, SaveSession, SaveCustomer, SaveBalance, history
<1>6. Owes(request'[h]) => Owes(r)
  BY <1>3 DEF Owes
<1>7. RowsKept
  <2>1. CASE SaveTransaction(h)
    <3>1. "transaction" \in r.writes
      BY <2>1 DEF SaveTransaction, Saved
    <3>2. AboutSession(r) /\ r.tStatus # "absent"
      BY <1>1, <3>1 DEF Linked, Priced
    <3>3. Exists(r.ses) /\ r.txn \in Transactions
      BY <3>2, ConstantsOK DEF AboutSession, IInv, RowsLinked, ConstantsOK
    <3>4. transaction[r.txn].status # "absent"
      BY <3>2, <3>3 DEF PaidInv, RowsPriced, AboutSession
    <3> QED
      BY <2>1, <3>2, <3>3, <3>4
      DEF RowsKept, SaveTransaction, IInv, TypeOK, TransactionRow
  <2>2. CASE SaveSession(h)
    <3>1. "session" \in r.writes
      BY <2>2 DEF SaveSession, Saved
    <3>2. AboutSession(r) /\ r.sStatus # "absent"
      BY <1>1, <3>1 DEF Linked
    <3>3. Exists(r.ses) /\ r.ses \in SessionIds
      BY <3>2, ConstantsOK DEF AboutSession, IInv, RowsLinked, ConstantsOK
    <3> QED
      BY <2>2, <3>2, <3>3
      DEF RowsKept, SaveSession, Exists, IInv, TypeOK, SessionRow
  <2>3. CASE SaveCustomer(h) \/ SaveBalance(h)
    BY <2>3 DEF RowsKept, SaveCustomer, SaveBalance
  <2> QED  BY <2>1, <2>2, <2>3
<1> QED  BY <1>3, <1>4, <1>5, <1>6, <1>7, KeepsPaid

\* The end of a request, and calls that did not work.
LEMMA FinishPaid ==
  ASSUME IInv, IInv', PaidInv, NEW h \in Requests,
         Finish(h) \/ InitiationFails(h)
  PROVE  PaidInv'
<1>1. /\ OnlyRequest(h) /\ request'[h] = Idle
  BY DEF Finish, InitiationFails, Leave, OnlyRequest, IInv, TypeOK
<1>2. RowsKept /\ UNCHANGED <<units, spent, subscribed, notices>>
  BY DEF RowsKept, Finish, InitiationFails, rows, history
<1> QED  BY <1>1, <1>2, IdleFields, KeepsPaid

LEMMA SaveFailsPaid ==
  ASSUME IInv, IInv', PaidInv, NEW h \in Requests,
         SaveFails(h) \/ RequestFails(h)
  PROVE  PaidInv'
<1>1. UNCHANGED <<rows, units, spent, subscribed, notices>>
  BY DEF SaveFails, RequestFails, rows, history
<1>2. CASE Raise(h)
  BY <1>1, <1>2, RaisePaid
<1>3. CASE ~Raise(h)
  <2> DEFINE r == request[h]
  <2>1. PICK table \in r.writes :
          request' = [request EXCEPT ![h].writes = @ \ {table}, ![h].ok = FALSE]
    BY <1>3 DEF SaveFails, RequestFails
  <2>2. /\ r \in Request /\ request \in [Requests -> Request]
        /\ Priced(r, transaction) /\ r.at = "saving"
    BY <1>3 DEF IInv, TypeOK, PaidInv, AllPriced, SaveFails, RequestFails
  <2>3. /\ OnlyRequest(h)
        /\ request'[h].at = "saving" /\ request'[h].tStatus = r.tStatus
        /\ request'[h].want = r.want /\ request'[h].txn = r.txn
        /\ request'[h].writes \subseteq r.writes
    BY <2>1, <2>2 DEF OnlyRequest, Request
  <2>4. "transaction" \in request'[h].writes => request'[h].tStatus # "absent"
    BY <2>2, <2>3 DEF Priced
  <2>5. Owes(request'[h]) => Owes(r)
    BY <2>3 DEF Owes
  <2>6. RowsKept
    BY <1>1 DEF RowsKept, rows
  <2> QED  BY <1>1, <2>3, <2>4, <2>5, <2>6, KeepsPaid
<1> QED  BY <1>2, <1>3

\* The PCRF is called once for the bundle a request owes, whether its answer
\* arrives or not, and counts what the session paid for.
LEMMA ProvisioningPaid ==
  ASSUME IInv, IInv', PaidInv, NEW h \in Requests,
         Provisioned(h) \/ ProvisioningFails(h)
  PROVE  PaidInv'
<1> DEFINE r == request[h]
<1>1. /\ r \in Request /\ Linked(r) /\ request \in [Requests -> Request]
      /\ Priced(r, transaction) /\ r.at = "provision"
  BY InFlightTyped DEF IInv, TypeOK, PaidInv, AllPriced, Provisioned,
     ProvisioningFails
<1>2. /\ AboutSession(r) /\ Owes(r) /\ r.tStatus # "absent"
      /\ r.txn \in Transactions
  BY <1>1 DEF Linked, Priced, Owes, AboutSession
<1>3. RowsKept
  BY DEF RowsKept, Provisioned, ProvisioningFails, rows
<1>4. CASE ProvisioningFails(h) /\ UNCHANGED subscribed
  BY <1>4, RaisePaid DEF ProvisioningFails
<1>5. CASE /\ ProvisioningFails(h)
           /\ subscribed' = [subscribed EXCEPT ![r.txn] = @ + 1]
  <2>1. /\ request'[h] = Idle
        /\ \A g \in Requests : request'[g] = Idle \/ request'[g] = request[g]
    BY <1>1, <1>5 DEF ProvisioningFails, Raise, Leave
  <2>2. EachNoticeOnce'
    BY <1>2, <1>5, <2>1, IdleFields, OwedAndSubscribed
    DEF PaidInv, ProvisioningFails
  <2>3. RowsPriced' /\ UnitsPaidFor'
    BY <1>3, <1>5, KeptRowsPriced DEF PaidInv, UnitsPaidFor, ProvisioningFails
  <2>4. AllPriced' /\ OneInserts'
    BY <1>5, <2>1, IdleFields
    DEF PaidInv, AllPriced, OneInserts, Priced, ProvisioningFails, rows
  <2> QED  BY <2>2, <2>3, <2>4 DEF PaidInv
<1>6. CASE Provisioned(h)
  <2>1. /\ OnlyRequest(h)
        /\ request'[h].at = "saving" /\ request'[h].tStatus = r.tStatus
        /\ request'[h].txn = r.txn /\ request'[h].want = r.want
    BY <1>1, <1>6 DEF Provisioned, OnlyRequest, Request
  <2>2. r.want # "confirmed"
    BY <1>1 DEF PaidInv, AllPriced, Priced
  <2>3. EachNoticeOnce'
    BY <1>2, <1>6, <2>1, <2>2, OwedAndSubscribed
    DEF PaidInv, Provisioned, Owes, OnlyRequest
  <2>4. RowsPriced'
    BY <1>3, KeptRowsPriced DEF PaidInv
  <2>5. Priced(request'[h], transaction')
    BY <1>2, <2>1 DEF Priced
  <2>6. AllPriced' /\ OneInserts'
    BY <1>3, <2>1, <2>5, PricedStep DEF RowsKept
  <2>7. UnitsPaidFor'
    <3>1. /\ r.who \in Customers /\ r.ses \in SessionIds /\ Exists(r.ses)
          /\ units \in [Customers -> Nat] /\ spent \in [Customers -> Nat]
          /\ session[r.ses] \in SessionRow
      BY <1>2, ConstantsOK
      DEF AboutSession, IInv, TypeOK, RowsLinked, ConstantsOK
    <3> DEFINE n == session[r.ses].count
               amount == session[r.ses].amount
    <3>2. n \in Nat /\ amount \in Nat /\ Price * n <= amount
      BY <3>1 DEF SessionRow, PaidInv, RowsPriced
    <3>3. /\ units' = [units EXCEPT ![r.who] = @ + n]
          /\ spent' = [spent EXCEPT ![r.who] = @ + amount]
      BY <1>6 DEF Provisioned
    <3> HIDE DEF n, amount
    <3> SUFFICES ASSUME NEW c \in Customers
                 PROVE  Price * units'[c] <= spent'[c]
      BY DEF UnitsPaidFor
    <3>4. Price * units[c] <= spent[c] /\ units[c] \in Nat /\ spent[c] \in Nat
      BY <3>1 DEF PaidInv, UnitsPaidFor
    <3>5. Price * (units[c] + n) = Price * units[c] + Price * n
      BY <3>2, <3>4, ConstantsOK DEF ConstantsOK
    <3>6. Price * units[c] \in Nat /\ Price * n \in Nat
      BY <3>2, <3>4, ConstantsOK DEF ConstantsOK
    <3>7. CASE c = r.who
      <4>1. units'[c] = units[c] + n /\ spent'[c] = spent[c] + amount
        BY <3>1, <3>3, <3>7
      <4> QED  BY <3>2, <3>4, <3>5, <3>6, <4>1
    <3>8. CASE c # r.who
      BY <3>1, <3>3, <3>4, <3>8
    <3> QED  BY <3>7, <3>8
  <2> QED  BY <2>3, <2>4, <2>6, <2>7 DEF PaidInv
<1> QED  BY <1>4, <1>5, <1>6 DEF ProvisioningFails

\* Requests arrive.  A purchase and a retry bring no notice,
LEMMA PurchasePaid ==
  ASSUME IInv, IInv', PaidInv, NEW h \in Requests, NEW t \in Transactions,
         \/ \E n \in Counts : CreatePurchase(h, t, n)
         \/ RetryPurchase(h, t)
  PROVE  PaidInv'
<1>1. /\ OnlyRequest(h) /\ request'[h].txn = t
      /\ request'[h].want = "none" /\ request'[h].writes = {}
  <2>1. request \in [Requests -> Request]
    BY DEF IInv, TypeOK
  <2>2. ASSUME NEW n \in Counts, CreatePurchase(h, t, n)
        PROVE  /\ OnlyRequest(h) /\ request'[h].txn = t
               /\ request'[h].want = "none" /\ request'[h].writes = {}
    BY <2>1, <2>2 DEF CreatePurchase, Begin, Idle, OnlyRequest
  <2>3. CASE RetryPurchase(h, t)
    BY <2>1, <2>3 DEF RetryPurchase, Begin, Idle, OnlyRequest
  <2> QED  BY <2>2, <2>3
<1>2. RowsKept /\ UNCHANGED <<units, spent, subscribed, notices, transaction>>
  BY DEF RowsKept, CreatePurchase, RetryPurchase, rows, history
<1>3. ASSUME NEW n \in Counts, CreatePurchase(h, t, n)
      PROVE  PaidInv'
  <2>1. /\ request'[h].at = "insertTransaction" /\ request'[h].count = n
        /\ n # 0
    BY <1>3, ConstantsOK
    DEF CreatePurchase, Begin, Idle, IInv, TypeOK, ConstantsOK
  <2>2. /\ transaction[t].status = "absent"
        /\ \A g \in Requests : request[g].txn # t
    BY <1>3 DEF CreatePurchase
  <2>3. Priced(request'[h], transaction')
    BY <1>1, <1>2, <2>1, <2>2 DEF Priced
  <2>4. AllPriced' /\ OneInserts'
    BY <1>1, <1>2, <2>2, <2>3, PricedStep
  <2>5. EachNoticeOnce'
    BY <1>1, <1>2, <2>1, OwedAsBefore DEF PaidInv, Owes, OnlyRequest
  <2> QED
    BY <1>2, <2>4, <2>5, KeptRowsPriced DEF PaidInv, UnitsPaidFor
<1>4. CASE RetryPurchase(h, t)
  <2>1. request'[h].at = "reopenTransaction" /\ request'[h].count = 1
    BY <1>4 DEF RetryPurchase, Begin, Idle, IInv, TypeOK
  <2>2. /\ transaction[t].status # "absent"
        /\ Price * 1 <= transaction[t].amount
    BY <1>4, ConstantsOK DEF RetryPurchase, PaidInv, RowsPriced, ConstantsOK
  <2>3. Priced(request'[h], transaction')
    BY <1>1, <1>2, <2>1, <2>2 DEF Priced
  <2>4. AllPriced' /\ OneInserts'
    BY <1>2, <1>1, <2>1, <2>3, PricedStep
  <2>5. EachNoticeOnce'
    BY <1>1, <1>2, <2>1, OwedAsBefore DEF PaidInv, Owes, OnlyRequest
  <2> QED
    BY <1>2, <2>4, <2>5, KeptRowsPriced DEF PaidInv, UnitsPaidFor
<1> QED  BY <1>3, <1>4

\* a positive notice brings what it owes.
LEMMA NoticePaid ==
  ASSUME IInv, IInv', PaidInv, NEW h \in Requests, NEW s \in SessionIds,
         Exists(s), OnlyRequest(h), request[h] = Idle,
         request'[h].txn = session[s].txn,
         request'[h].at \in {"readSession", "readTransaction", "lookup"},
         request'[h].writes = {},
         \/ notices' = [notices EXCEPT ![session[s].txn] = @ + 1]
         \/ notices' = notices /\ request'[h].want # "confirmed",
         UNCHANGED <<transaction, session, units, spent, subscribed>>
  PROVE  PaidInv'
<1>1. RowsKept
  BY DEF RowsKept
<1>2. RowsPriced' /\ AllPriced' /\ OneInserts' /\ UnitsPaidFor'
  BY <1>1, KeepsPrices
<1>3. EachNoticeOnce'
  <2>1. session[s].txn \in Transactions
    BY SessionOfAccount DEF IInv
  <2>2. CASE notices' = [notices EXCEPT ![session[s].txn] = @ + 1]
    BY <2>1, <2>2, OwedOnNotice DEF PaidInv
  <2>3. CASE notices' = notices /\ request'[h].want # "confirmed"
    <3>1. ~Owes(request'[h])
      BY <2>3 DEF Owes
    <3> QED  BY <2>3, <3>1, OwedAsBefore DEF PaidInv, OnlyRequest
  <2> QED  BY <2>2, <2>3
<1> QED  BY <1>2, <1>3 DEF PaidInv

LEMMA ConfirmPaid ==
  ASSUME IInv, IInv', PaidInv, NEW h \in Requests, NEW s \in SessionIds,
         NEW want \in {"confirmed", "failed"}, ConfirmPurchase(h, s, want)
  PROVE  PaidInv'
<1>1. /\ OnlyRequest(h) /\ request'[h].txn = session[s].txn
      /\ request'[h].at = "readSession" /\ request'[h].writes = {}
      /\ request'[h].want = want
  BY DEF ConfirmPurchase, Begin, Idle, OnlyRequest, IInv, TypeOK
<1>2. /\ Exists(s) /\ request[h] = Idle
      /\ UNCHANGED <<transaction, session, units, spent, subscribed>>
      /\ Noticed(session[s].txn, want)
  BY DEF ConfirmPurchase, rows
<1> QED  BY <1>1, <1>2, NoticePaid DEF Noticed

LEMMA CallbackPaid ==
  ASSUME IInv, IInv', PaidInv, NEW h \in Requests, NEW s \in SessionIds,
         NEW byTransaction \in BOOLEAN, NEW word \in Words,
         ProviderCallback(h, s, byTransaction, word)
  PROVE  PaidInv'
<1>1. PICK f \in SessionIds :
        LET want == Normalized(word, session[f].method) IN
        /\ Noticed(session[s].txn, want)
        /\ request' = [request EXCEPT ![h] =
             [Begin(h, "callback", "readTransaction", session[s].txn) EXCEPT
                !.ses = f, !.want = want, !.sStatus = session[f].status]]
  BY DEF ProviderCallback
<1> DEFINE want == Normalized(word, session[f].method)
<1> HIDE DEF want
<1>2. /\ Noticed(session[s].txn, want)
      /\ request' = [request EXCEPT ![h] =
           [Begin(h, "callback", "readTransaction", session[s].txn) EXCEPT
              !.ses = f, !.want = want, !.sStatus = session[f].status]]
  BY <1>1 DEF want
<1>3. /\ OnlyRequest(h) /\ request'[h].txn = session[s].txn
      /\ request'[h].at = "readTransaction" /\ request'[h].writes = {}
      /\ request'[h].want = want
  BY <1>2 DEF Begin, Idle, OnlyRequest, IInv, TypeOK
<1>4. /\ Exists(s) /\ request[h] = Idle
      /\ UNCHANGED <<transaction, session, units, spent, subscribed>>
  BY DEF ProviderCallback, rows
<1> QED  BY <1>2, <1>3, <1>4, NoticePaid DEF Noticed

LEMMA TimerPaid ==
  ASSUME IInv, IInv', PaidInv, NEW h \in Requests, NEW s \in SessionIds,
         NEW want \in {"processing", "confirmed"}, SimulationTimer(h, s, want)
  PROVE  PaidInv'
<1>1. /\ Exists(s) /\ request[h] = Idle
      /\ UNCHANGED <<transaction, session, units, spent, subscribed>>
      /\ request \in [Requests -> Request]
  BY DEF SimulationTimer, rows, IInv, TypeOK, RowsLinked
<1>2. RowsKept
  BY <1>1 DEF RowsKept
<1> DEFINE t == session[s].txn
           begin == [Begin(h, "simulate", "saving", t) EXCEPT
                       !.ses = s, !.want = want]
           progress == [begin EXCEPT !.sStatus = want, !.want = "none",
                                     !.writes = {"session"}]
           lookup == [begin EXCEPT !.at = "lookup"]
<1>3. CASE UNCHANGED <<request, notices>>
  BY <1>1, <1>2, <1>3, IdleFields, KeepsPaid DEF OnlyRequest
<1>4. CASE request' = [request EXCEPT ![h] = progress] /\ notices' = notices
  <2>1. progress.at = "saving" /\ progress.want = "none"
        /\ progress.writes = {"session"}
    BY DEF Begin, Idle
  <2> HIDE DEF progress
  <2>2. OnlyRequest(h) /\ request'[h] = progress
    BY <1>1, <1>4 DEF OnlyRequest
  <2> QED  BY <1>1, <1>2, <1>4, <2>1, <2>2, KeepsPaid DEF Owes
<1>5. CASE /\ request' = [request EXCEPT ![h] = lookup]
           /\ notices' = [notices EXCEPT ![t] = @ + 1]
  <2>1. lookup.at = "lookup" /\ lookup.writes = {} /\ lookup.txn = t
    BY DEF Begin, Idle
  <2> HIDE DEF lookup
  <2>2. OnlyRequest(h) /\ request'[h] = lookup
    BY <1>1, <1>5 DEF OnlyRequest
  <2> QED  BY <1>1, <1>5, <2>1, <2>2, NoticePaid
<1> QED  BY <1>3, <1>4, <1>5 DEF SimulationTimer

LEMMA StatusPaid ==
  ASSUME IInv, IInv', PaidInv, NEW h \in Requests, NEW c \in Customers,
         NEW status \in Statuses, ChangeCustomerStatus(h, c, status)
  PROVE  PaidInv'
<1>1. /\ OnlyRequest(h) /\ request'[h].at = "saving"
      /\ request'[h].want = "none" /\ request'[h].writes = {"customer"}
  BY DEF ChangeCustomerStatus, Idle, OnlyRequest, IInv, TypeOK
<1>2. RowsKept /\ UNCHANGED <<units, spent, subscribed, notices>>
  BY DEF RowsKept, ChangeCustomerStatus, rows, history
<1> QED  BY <1>1, <1>2, KeepsPaid DEF Owes

\* A purchase inserts its transaction, then its session; a retry reopens its
\* transaction first.
LEMMA InsertTransactionPaid ==
  ASSUME IInv, IInv', PaidInv, NEW h \in Requests, InsertTransaction(h)
  PROVE  PaidInv'
<1> DEFINE r == request[h]
<1>1. /\ r \in Request /\ request \in [Requests -> Request]
      /\ r.at = "insertTransaction" /\ r.txn \in Transactions
      /\ Priced(r, transaction) /\ Linked(r)
  BY InFlightTyped, EarlyTransaction
  DEF IInv, TypeOK, PaidInv, AllPriced, InsertTransaction
<1>2. transaction[r.txn].status = "absent" /\ r.count \in Nat \ {0}
  BY <1>1 DEF Priced, Request
<1>3. r.writes = {}
  BY <1>1 DEF Linked
<1>4. /\ OnlyRequest(h) /\ request'[h].at = "insertSession"
      /\ request'[h].txn = r.txn /\ request'[h].count = r.count
      /\ request'[h].want = r.want /\ request'[h].writes = {}
  BY <1>1, <1>3 DEF InsertTransaction, OnlyRequest, Request
<1>5. /\ UNCHANGED <<session, units, spent, subscribed, notices>>
      /\ transaction' = [transaction EXCEPT ![r.txn] =
           [status |-> "pending", amount |-> Price * r.count]]
      /\ transaction \in [Transactions -> TransactionRow]
  BY DEF InsertTransaction, history, IInv, TypeOK
<1>6. /\ transaction'[r.txn].status = "pending"
      /\ transaction'[r.txn].amount = Price * r.count
      /\ \A t \in Transactions :
           t # r.txn => transaction'[t] = transaction[t]
  BY <1>1, <1>5
<1>7. /\ Price * r.count \in Nat /\ Price <= Price * r.count
  BY <1>2, ConstantsOK DEF ConstantsOK
<1>8. Priced(request'[h], transaction')
  BY <1>4, <1>6, <1>7 DEF Priced
<1>9. AllPriced' /\ OneInserts'
  BY <1>1, <1>2, <1>4, <1>6, <1>8, PricedStep
<1>10. RowsPriced'
  <2>1. ASSUME NEW s \in SessionIds, Exists(s)
        PROVE  session[s].txn \in Transactions /\ session[s].txn # r.txn
    BY <1>2, <2>1 DEF PaidInv, RowsPriced, IInv, RowsLinked
  <2> QED  BY <1>5, <1>6, <1>7, <2>1 DEF RowsPriced, PaidInv, Exists
<1>11. EachNoticeOnce'
  BY <1>4, <1>5, OwedAsBefore DEF PaidInv, Owes, OnlyRequest
<1>12. UnitsPaidFor'
  BY <1>5 DEF PaidInv, UnitsPaidFor
<1> QED  BY <1>9, <1>10, <1>11, <1>12 DEF PaidInv

LEMMA ReopenTransactionPaid ==
  ASSUME IInv, IInv', PaidInv, NEW h \in Requests, ReopenTransaction(h)
  PROVE  PaidInv'
<1> DEFINE r == request[h]
<1>1. /\ r \in Request /\ request \in [Requests -> Request]
      /\ r.at = "reopenTransaction" /\ r.txn \in Transactions
      /\ Priced(r, transaction) /\ Linked(r)
  BY InFlightTyped, EarlyTransaction
  DEF IInv, TypeOK, PaidInv, AllPriced, ReopenTransaction
<1>2. r.writes = {}
  BY <1>1 DEF Linked
<1>3. /\ OnlyRequest(h) /\ request'[h].at = "insertSession"
      /\ request'[h].txn = r.txn /\ request'[h].count = r.count
      /\ request'[h].want = r.want /\ request'[h].writes = {}
  BY <1>1, <1>2 DEF ReopenTransaction, OnlyRequest, Request
<1>4. UNCHANGED <<session, units, spent, subscribed, notices>>
  BY DEF ReopenTransaction, history
<1>5. RowsKept
  BY <1>1 DEF ReopenTransaction, RowsKept, Priced, IInv, TypeOK, TransactionRow
<1>6. Priced(request'[h], transaction')
  BY <1>1, <1>3, <1>5 DEF Priced, RowsKept
<1>7. AllPriced' /\ OneInserts'
  BY <1>1, <1>3, <1>5, <1>6, PricedStep DEF RowsKept
<1>8. EachNoticeOnce'
  BY <1>3, <1>4, OwedAsBefore DEF PaidInv, Owes, OnlyRequest
<1> QED  BY <1>4, <1>5, <1>7, <1>8, KeptRowsPriced DEF PaidInv, UnitsPaidFor

LEMMA InsertSessionPaid ==
  ASSUME IInv, IInv', PaidInv, NEW h \in Requests, InsertSession(h)
  PROVE  PaidInv'
<1> DEFINE r == request[h]
<1>1. /\ r \in Request /\ request \in [Requests -> Request]
      /\ r.at = "insertSession" /\ r.txn \in Transactions
      /\ Priced(r, transaction) /\ Linked(r)
  BY InFlightTyped, EarlyTransaction
  DEF IInv, TypeOK, PaidInv, AllPriced, InsertSession
<1>2. r.writes = {}
  BY <1>1 DEF Linked
<1>3. PICK s \in SessionIds, m \in Methods :
        /\ IsNextSession(s)
        /\ session' = [session EXCEPT ![s] = NewSession(r, m)]
        /\ request' = [request EXCEPT ![h].at = "initiate", ![h].ses = s]
  BY DEF InsertSession
<1>4. /\ OnlyRequest(h) /\ request'[h].at = "initiate"
      /\ request'[h].txn = r.txn
      /\ request'[h].want = r.want /\ request'[h].writes = {}
  BY <1>1, <1>2, <1>3 DEF OnlyRequest, Request
<1>5. UNCHANGED <<transaction, units, spent, subscribed, notices>>
  BY DEF InsertSession, history
<1>6. /\ session'[s].txn = r.txn /\ session'[s].count = r.count
      /\ session'[s].amount = transaction[r.txn].amount
      /\ \A q \in SessionIds : q # s => session'[q] = session[q]
  BY <1>3 DEF NewSession, IInv, TypeOK
<1>7. /\ transaction[r.txn].status # "absent"
      /\ Price * r.count <= transaction[r.txn].amount
  BY <1>1 DEF Priced
<1>8. RowsPriced'
  BY <1>5, <1>6, <1>7 DEF PaidInv, RowsPriced, Exists
<1>9. Priced(request'[h], transaction')
  BY <1>4 DEF Priced
<1>10. AllPriced' /\ OneInserts'
  BY <1>4, <1>5, <1>9, PricedStep
<1>11. EachNoticeOnce'
  BY <1>4, <1>5, OwedAsBefore DEF PaidInv, Owes, OnlyRequest
<1> QED  BY <1>5, <1>8, <1>10, <1>11 DEF PaidInv, UnitsPaidFor

LEMMA PaymentInitiatedPaid ==
  ASSUME IInv, IInv', PaidInv, NEW h \in Requests, PaymentInitiated(h)
  PROVE  PaidInv'
<1> DEFINE r == request[h]
<1>1. /\ r.at = "initiate" /\ AboutSession(r)
  BY InFlightTyped DEF IInv, PaymentInitiated, Linked
<1>2. Exists(r.ses) /\ r.ses \in SessionIds
  BY <1>1, ConstantsOK DEF AboutSession, IInv, RowsLinked, ConstantsOK
<1>3. RowsKept
  BY <1>2 DEF PaymentInitiated, RowsKept, Exists, IInv, TypeOK, SessionRow
<1>4. /\ OnlyRequest(h) /\ request'[h] = Idle
      /\ UNCHANGED <<units, spent, subscribed, notices>>
  BY DEF PaymentInitiated, Leave, OnlyRequest, history, IInv, TypeOK
<1> QED  BY <1>3, <1>4, IdleFields, KeepsPaid

LEMMA NextPaid == IInv /\ IInv' /\ PaidInv /\ [Next]_vars => PaidInv'
<1> SUFFICES ASSUME IInv, IInv', PaidInv, [Next]_vars
             PROVE  PaidInv'
  OBVIOUS
<1>1. ASSUME NEW h \in Requests, Arrive(h)
      PROVE  PaidInv'
  BY <1>1, PurchasePaid, ConfirmPaid, CallbackPaid, StatusPaid DEF Arrive
<1>2. ASSUME NEW h \in Requests, TimerFires(h)
      PROVE  PaidInv'
  BY <1>2, TimerPaid DEF TimerFires
<1>3. ASSUME NEW h \in Requests, Proceed(h)
      PROVE  PaidInv'
  BY <1>3, InsertTransactionPaid, ReopenTransactionPaid, InsertSessionPaid,
     PaymentInitiatedPaid, ReadsPaid, DecisionPaid, ProvisioningPaid,
     SavesPaid, FinishPaid
  DEF Proceed
<1>4. ASSUME NEW h \in Requests, Refused(h)
      PROVE  PaidInv'
  BY <1>4, FinishPaid, ProvisioningPaid DEF Refused
<1>5. ASSUME NEW h \in Requests, SaveFails(h) \/ RequestFails(h)
      PROVE  PaidInv'
  BY <1>5, SaveFailsPaid
<1>6. CASE Crash
  BY <1>6, CrashPaid
<1>7. CASE UNCHANGED vars
  BY <1>7 DEF vars, rows, memory, history, PaidInv, EachNoticeOnce, Owing,
     RowsPriced, Exists, AllPriced, OneInserts, UnitsPaidFor
<1> QED  BY <1>1, <1>2, <1>3, <1>4, <1>5, <1>6, <1>7 DEF Next

LEMMA InitPaid == Init => PaidInv
<1> SUFFICES ASSUME Init PROVE PaidInv
  OBVIOUS
<1>1. \A h \in Requests : request[h] = Idle
  BY DEF Init
<1>2. EachNoticeOnce
  <2>1. \A t \in Transactions : Owing(t) = {}
    BY <1>1, IdleFields DEF Owing
  <2> QED  BY <2>1, FS_EmptySet DEF EachNoticeOnce, Init
<1>3. AllPriced /\ OneInserts
  BY <1>1, IdleFields DEF AllPriced, Priced, OneInserts
<1>4. RowsPriced
  BY DEF Init, RowsPriced, Exists, NoSession
<1>5. UnitsPaidFor
  BY ConstantsOK DEF Init, UnitsPaidFor, ConstantsOK
<1> QED  BY <1>2, <1>3, <1>4, <1>5 DEF PaidInv

LEMMA SpecPaid == Spec => []PaidInv
<1>1. Init => PaidInv
  BY InitPaid
<1>2. IInv /\ IInv' /\ PaidInv /\ [Next]_vars => PaidInv'
  BY NextPaid
<1> QED  BY <1>1, <1>2, SpecIInv, PTL DEF Spec

\* finalizeConfirmedPurchase is run once per notice at most, and a session,
\* also that of a retry, costs as much as its bundles: whatever overlaps, fails
\* or crashes, the PCRF is called no more often than payments were reported,
\* and no account gets more bundles than it paid for.
THEOREM BundlesArePaidFor == Spec => []PaidFor
<1>1. IInv /\ PaidInv => PaidFor
  <2> SUFFICES ASSUME IInv, PaidInv, NEW t \in Transactions
               PROVE  subscribed[t] <= notices[t]
    BY DEF PaidFor, SubscribedOnNotice, PaidInv
  <2>1. subscribed[t] + Cardinality(Owing(t)) <= notices[t]
    BY DEF PaidInv, EachNoticeOnce
  <2> QED  BY <2>1, OwingFinite DEF IInv, TypeOK
<1> QED  BY <1>1, SpecIInv, SpecPaid, PTL

-----------------------------------------------------------------------------
(* Accounts whose requests wait for one another                            *)

\* The totals of an account are those of its provisioned sessions.
Exact(c) ==
  customer[c].purchases = units[c] /\ customer[c].spend = spent[c]

\* What a request knows while no other is about its account: that it read the
\* transaction as it is, and what its saves make true.
KnowsRows(r) ==
  /\ r.op # "simulate"
  /\ r.txn # None => r.txn \in Transactions /\ r.who = CustomerOf[r.txn]
  /\ r.at # "idle" => r.who \in Customers
  /\ r.at = "reopenTransaction" => transaction[r.txn].status = "failed"
  /\ r.at \in {"readSession", "readCustomer"} =>
       r.tStatus = transaction[r.txn].status
  /\ r.at = "provision" =>
       /\ r.tStatus = "provisioned"
       /\ transaction[r.txn].status # "provisioned"
       /\ r.cus.purchases = units[r.who] + session[r.ses].count
       /\ r.cus.spend = spent[r.who] + session[r.ses].amount
       /\ r.cus.status = instructed[r.who]
  /\ "transaction" \in r.writes =>
       /\ r.tStatus \in {"failed", "provisioned"}
       /\ r.tStatus = "failed" => transaction[r.txn].status # "provisioned"
  /\ r.notify =>
       /\ r.at = "saving" /\ r.tStatus = "provisioned"
       /\ "transaction" \in r.writes
            \/ transaction[r.txn].status = "provisioned"
  /\ "customer" \in r.writes =>
       /\ r.cus.purchases = units[r.who] /\ r.cus.spend = spent[r.who]
       /\ r.op = "status" \/ r.cus.status = instructed[r.who]

AllKnow == \A h \in Requests : KnowsRows(request[h])

OnePerAccount ==
  \A g, h \in Requests :
    request[g].who # None /\ request[g].who = request[h].who => g = h

\* An account's totals are exact, or a request is about to save those that are.
ExactUnlessSaving ==
  \A c \in Customers :
    \/ Exact(c)
    \/ \E h \in Requests :
         request[h].who = c /\ "customer" \in request[h].writes

\* What the PCRF acknowledged is in the row, or about to be.
FulfilledIsCommitted ==
  \A t \in Transactions :
    fulfilled[t] > 0 => transaction[t].status = "provisioned" \/ Committed(t)

TurnInv ==
  /\ timers = {} /\ faults = 0
  /\ AllKnow /\ OnePerAccount /\ ExactUnlessSaving /\ FulfilledIsCommitted
  /\ ReceiptsAreFinal /\ StatusSticks

TurnsInv == Turns => TurnInv

\* A step about account c leaves what is about other accounts.
OthersKept(c) ==
  /\ \A t \in Transactions : CustomerOf[t] # c =>
       transaction'[t] = transaction[t] /\ fulfilled'[t] = fulfilled[t]
  /\ \A s \in SessionIds : Exists(s) =>
       /\ session'[s].txn = session[s].txn
       /\ session'[s].count = session[s].count
       /\ session'[s].amount = session[s].amount
  /\ \A d \in Customers \ {c} :
       /\ customer'[d] = customer[d] /\ instructed'[d] = instructed[d]
       /\ units'[d] = units[d] /\ spent'[d] = spent[d]

\* No other request is about account c.
OnlyAbout(h, c) == \A g \in Requests \ {h} : request[g].who # c

LEMMA KnowsStays ==
  ASSUME IInv, NEW r \in Request, NEW c, Linked(r), KnowsRows(r), r.who # c,
         OthersKept(c)
  PROVE  KnowsRows(r)'
<1> USE ConstantsOK DEF ConstantsOK
<1>1. AboutSession(r) =>
        /\ r.txn \in Transactions /\ r.who \in Customers
        /\ transaction'[r.txn] = transaction[r.txn]
        /\ session'[r.ses].count = session[r.ses].count
        /\ session'[r.ses].amount = session[r.ses].amount
  BY DEF AboutSession, OthersKept, IInv, RowsLinked
<1>2. r.who \in Customers =>
        /\ customer'[r.who] = customer[r.who]
        /\ instructed'[r.who] = instructed[r.who]
        /\ units'[r.who] = units[r.who] /\ spent'[r.who] = spent[r.who]
  BY DEF OthersKept
<1>3. r.at = "reopenTransaction" => transaction'[r.txn] = transaction[r.txn]
  BY DEF Linked, OthersKept
<1>4. /\ r.at \in {"readSession", "readCustomer", "provision"} => AboutSession(r)
      /\ "transaction" \in r.writes \/ r.notify => AboutSession(r)
      /\ "customer" \in r.writes => r.who \in Customers
  BY DEF Linked
<1>5. r.at \in {"readSession", "readCustomer"} =>
        r.tStatus = transaction'[r.txn].status
  BY <1>1, <1>4 DEF KnowsRows
<1>6. r.at = "provision" =>
        /\ r.tStatus = "provisioned"
        /\ transaction'[r.txn].status # "provisioned"
        /\ r.cus.purchases = units'[r.who] + session'[r.ses].count
        /\ r.cus.spend = spent'[r.who] + session'[r.ses].amount
        /\ r.cus.status = instructed'[r.who]
  BY <1>1, <1>2, <1>4 DEF KnowsRows
<1>7. "transaction" \in r.writes =>
        /\ r.tStatus \in {"failed", "provisioned"}
        /\ r.tStatus = "failed" => transaction'[r.txn].status # "provisioned"
  BY <1>1, <1>4 DEF KnowsRows
<1>8. r.notify =>
        /\ r.at = "saving" /\ r.tStatus = "provisioned"
        /\ "transaction" \in r.writes
             \/ transaction'[r.txn].status = "provisioned"
  BY <1>1, <1>4 DEF KnowsRows
<1>9. "customer" \in r.writes =>
        /\ r.cus.purchases = units'[r.who] /\ r.cus.spend = spent'[r.who]
        /\ r.op = "status" \/ r.cus.status = instructed'[r.who]
  BY <1>2, <1>4 DEF KnowsRows
<1> QED  BY <1>3, <1>5, <1>6, <1>7, <1>8, <1>9 DEF KnowsRows

LEMMA OthersKnow ==
  ASSUME IInv, AllKnow, NEW h \in Requests, NEW c, OnlyRequest(h),
         OnlyAbout(h, c), OthersKept(c)
  PROVE  \A g \in Requests \ {h} : KnowsRows(request[g])'
<1> TAKE g \in Requests \ {h}
<1>1. PICK r : r = request[g]
  OBVIOUS
<1>2. /\ r \in Request /\ Linked(r) /\ KnowsRows(r) /\ r.who # c
  BY <1>1, InFlightTyped DEF IInv, AllKnow, OnlyAbout
<1>3. KnowsRows(r)'
  BY <1>2, KnowsStays
<1>4. r = request'[g]
  BY <1>1 DEF OnlyRequest
<1> QED  BY <1>3, <1>4

\* The request about c takes a step: what has to be shown of it.
LEMMA TurnStep ==
  ASSUME IInv, IInv', TurnInv, NEW h \in Requests, NEW c \in Customers,
         OnlyRequest(h), OnlyAbout(h, c), OthersKept(c),
         request[h].who \in {c, None}, request'[h].who \in {c, None},
         KnowsRows(request[h])',
         Exact(c)' \/ (request'[h].who = c /\ "customer" \in request'[h].writes),
         customer'[c].status = instructed'[c],
         \A t \in Transactions : CustomerOf[t] = c /\ fulfilled'[t] > 0 =>
           transaction'[t].status = "provisioned" \/ Committed(t)',
         ReceiptsAreFinal', timers' = {}, faults' = 0
  PROVE  TurnInv'
<1> USE ConstantsOK DEF ConstantsOK
<1>1. AllKnow'
  BY OthersKnow DEF AllKnow, TurnInv
<1>2. OnePerAccount'
  <2> SUFFICES ASSUME NEW f \in Requests, NEW g \in Requests,
                      request'[f].who # None,
                      request'[f].who = request'[g].who
               PROVE  f = g
    BY DEF OnePerAccount
  <2>1. CASE f # h /\ g # h
    BY <2>1 DEF OnlyRequest, TurnInv, OnePerAccount
  <2>2. CASE f = h /\ g # h
    BY <2>2 DEF OnlyRequest, OnlyAbout
  <2>3. CASE f # h /\ g = h
    BY <2>3 DEF OnlyRequest, OnlyAbout
  <2> QED  BY <2>1, <2>2, <2>3
<1>3. ExactUnlessSaving'
  <2> SUFFICES ASSUME NEW d \in Customers
               PROVE  \/ Exact(d)'
                      \/ \E g \in Requests : /\ request'[g].who = d
                                             /\ "customer" \in request'[g].writes
    BY DEF ExactUnlessSaving
  <2>1. CASE d = c
    BY <2>1
  <2>2. CASE d # c /\ Exact(d)
    BY <2>2 DEF Exact, OthersKept
  <2>3. ASSUME d # c, NEW g \in Requests, request[g].who = d,
               "customer" \in request[g].writes
        PROVE  request'[g].who = d /\ "customer" \in request'[g].writes
    BY <2>3 DEF OnlyRequest
  <2> QED  BY <2>1, <2>2, <2>3 DEF TurnInv, ExactUnlessSaving
<1>4. FulfilledIsCommitted'
  <2> SUFFICES ASSUME NEW t \in Transactions, CustomerOf[t] # c,
                      fulfilled'[t] > 0
               PROVE  transaction'[t].status = "provisioned" \/ Committed(t)'
    BY DEF FulfilledIsCommitted
  <2>1. transaction[t].status = "provisioned" \/ Committed(t)
    BY DEF TurnInv, FulfilledIsCommitted, OthersKept
  <2>2. CASE transaction[t].status = "provisioned"
    BY <2>2 DEF OthersKept
  <2>3. ASSUME NEW g \in Requests, request[g].txn = t,
               request[g].at = "saving", "transaction" \in request[g].writes,
               request[g].tStatus = "provisioned"
        PROVE  Committed(t)'
    <3>1. request[g].who = CustomerOf[t] /\ CustomerOf[t] \in Customers
      BY <2>3 DEF TurnInv, AllKnow, KnowsRows
    <3>2. request'[g] = request[g]
      BY <3>1 DEF OnlyRequest
    <3> QED  BY <2>3, <3>2 DEF Committed
  <2> QED  BY <2>1, <2>2, <2>3 DEF Committed
<1>5. StatusSticks'
  BY DEF StatusSticks, TurnInv, OthersKept
<1> QED  BY <1>1, <1>2, <1>3, <1>4, <1>5 DEF TurnInv

\* What holds for an account while the one request about it saves nothing of
\* it, or does not commit.
LEMMA ExactNow ==
  ASSUME TurnInv, NEW h \in Requests, NEW c \in Customers, OnlyAbout(h, c),
         "customer" \notin request[h].writes
  PROVE  Exact(c)
BY DEF TurnInv, ExactUnlessSaving, OnlyAbout

LEMMA CommittedByOne ==
  ASSUME TurnInv, NEW h \in Requests, NEW t \in Transactions,
         OnlyAbout(h, CustomerOf[t]), Committed(t)
  PROVE  /\ request[h].txn = t /\ request[h].at = "saving"
         /\ "transaction" \in request[h].writes
         /\ request[h].tStatus = "provisioned"
BY ConstantsOK DEF Committed, TurnInv, AllKnow, KnowsRows, OnlyAbout, ConstantsOK

\* A step that changes neither rows nor what was provisioned.
LEMMA QuietTurn ==
  ASSUME IInv, IInv', TurnInv, NEW h \in Requests, NEW c \in Customers,
         OnlyRequest(h), OnlyAbout(h, c),
         request[h].who \in {c, None}, request'[h].who \in {c, None},
         KnowsRows(request[h])',
         request[h].at # "saving",
         UNCHANGED <<customer, transaction, fulfilled, units, spent, receipts,
                     instructed>>,
         \A s \in SessionIds : Exists(s) =>
           /\ session'[s].txn = session[s].txn
           /\ session'[s].count = session[s].count
           /\ session'[s].amount = session[s].amount,
         timers' = {}, faults' = 0
  PROVE  TurnInv'
<1>1. OthersKept(c)
  BY DEF OthersKept
<1>2. Exact(c)'
  <2>1. request[h].writes = {}
    BY DEF IInv, RequestsLinked, Linked
  <2>2. Exact(c)
    BY <2>1, ExactNow
  <2> QED  BY <2>2 DEF Exact
<1>3. customer'[c].status = instructed'[c]
  BY DEF TurnInv, StatusSticks
<1>4. ASSUME NEW t \in Transactions, CustomerOf[t] = c, fulfilled'[t] > 0
      PROVE  transaction'[t].status = "provisioned"
  <2>1. ~Committed(t)
    BY <1>4, CommittedByOne
  <2> QED  BY <1>4, <2>1 DEF TurnInv, FulfilledIsCommitted
<1>5. ReceiptsAreFinal'
  BY DEF ReceiptsAreFinal, TurnInv, IInv, TypeOK, RowsLinked
<1> QED  BY <1>1, <1>2, <1>3, <1>4, <1>5, TurnStep

\* Requests arrive at an account that no other is about.
LEMMA ArriveTurn ==
  ASSUME IInv, IInv', TurnInv, NEW h \in Requests, Arrive(h),
         ~Meets(h), timers' = {}, faults' = 0
  PROVE  TurnInv'
<1> USE ConstantsOK DEF ConstantsOK
<1>1. /\ request[h] = Idle /\ request \in [Requests -> Request]
      /\ UNCHANGED <<customer, transaction, session, fulfilled, units, spent,
                     receipts, instructed>>
  BY DEF Arrive, CreatePurchase, RetryPurchase, ConfirmPurchase,
     ProviderCallback, ChangeCustomerStatus, rows, history, IInv, TypeOK
<1>2. ASSUME NEW c \in Customers, request'[h].who = c, OnlyRequest(h),
             KnowsRows(request[h])'
      PROVE  TurnInv'
  <2>1. OnlyAbout(h, c)
    BY <1>2 DEF Meets, OnlyAbout
  <2>2. request[h].who = None /\ request[h].at = "idle"
    BY <1>1, IdleFields
  <2> QED  BY <1>1, <1>2, <2>1, <2>2, QuietTurn
<1>3. ASSUME NEW t \in Transactions, NEW n \in Counts, CreatePurchase(h, t, n)
      PROVE  TurnInv'
  <2> DEFINE r == [Begin(h, "create", "insertTransaction", t) EXCEPT !.count = n]
  <2>1. OnlyRequest(h) /\ request'[h] = r
    BY <1>1, <1>3 DEF CreatePurchase, OnlyRequest
  <2>2. /\ r.op = "create" /\ r.at = "insertTransaction" /\ r.txn = t
        /\ r.who = CustomerOf[t] /\ r.writes = {} /\ r.notify = FALSE
    BY DEF Begin, Idle
  <2> HIDE DEF r
  <2>3. KnowsRows(request[h])' /\ request'[h].who = CustomerOf[t]
    BY <2>1, <2>2 DEF KnowsRows
  <2> QED  BY <1>2, <2>1, <2>3
<1>4. ASSUME NEW t \in Transactions, RetryPurchase(h, t)
      PROVE  TurnInv'
  <2> DEFINE r == [Begin(h, "retry", "reopenTransaction", t) EXCEPT !.count = 1]
  <2>1. /\ OnlyRequest(h) /\ request'[h] = r
        /\ transaction'[t].status = "failed"
    BY <1>1, <1>4 DEF RetryPurchase, OnlyRequest
  <2>2. /\ r.op = "retry" /\ r.at = "reopenTransaction" /\ r.txn = t
        /\ r.who = CustomerOf[t] /\ r.writes = {} /\ r.notify = FALSE
    BY DEF Begin, Idle
  <2> HIDE DEF r
  <2>3. KnowsRows(request[h])' /\ request'[h].who = CustomerOf[t]
    BY <2>1, <2>2 DEF KnowsRows
  <2> QED  BY <1>2, <2>1, <2>3
<1>5. ASSUME NEW s \in SessionIds, NEW want \in {"confirmed", "failed"},
             ConfirmPurchase(h, s, want)
      PROVE  TurnInv'
  <2> DEFINE t == session[s].txn
             r == [Begin(h, "confirm", "readSession", t) EXCEPT
                     !.ses = s, !.want = want, !.tStatus = transaction[t].status]
  <2>1. OnlyRequest(h) /\ request'[h] = r
    BY <1>1, <1>5 DEF ConfirmPurchase, OnlyRequest
  <2>2. /\ r.op = "confirm" /\ r.at = "readSession" /\ r.txn = t
        /\ r.who = CustomerOf[t] /\ r.writes = {} /\ r.notify = FALSE
        /\ r.tStatus = transaction[t].status
    BY DEF Begin, Idle
  <2>3. t \in Transactions
    BY <1>5, SessionOfAccount DEF ConfirmPurchase, IInv
  <2> HIDE DEF r, t
  <2>4. KnowsRows(request[h])' /\ request'[h].who = CustomerOf[t]
    BY <1>1, <2>1, <2>2, <2>3 DEF KnowsRows
  <2> QED  BY <1>2, <2>1, <2>3, <2>4
<1>6. ASSUME NEW s \in SessionIds, NEW byTransaction \in BOOLEAN,
             NEW word \in Words, ProviderCallback(h, s, byTransaction, word)
      PROVE  TurnInv'
  <2>1. PICK f \in SessionIds :
          request' = [request EXCEPT ![h] =
            [Begin(h, "callback", "readTransaction", session[s].txn) EXCEPT
               !.ses = f, !.want = Normalized(word, session[f].method),
               !.sStatus = session[f].status]]
    BY <1>6 DEF ProviderCallback
  <2> DEFINE t == session[s].txn
             want == Normalized(word, session[f].method)
             r == [Begin(h, "callback", "readTransaction", t) EXCEPT
                     !.ses = f, !.want = want, !.sStatus = session[f].status]
  <2>2. OnlyRequest(h) /\ request'[h] = r
    BY <1>1, <2>1 DEF OnlyRequest
  <2>3. /\ r.op = "callback" /\ r.at = "readTransaction" /\ r.txn = t
        /\ r.who = CustomerOf[t] /\ r.writes = {} /\ r.notify = FALSE
    BY DEF Begin, Idle
  <2>4. t \in Transactions
    BY <1>6, SessionOfAccount DEF ProviderCallback, IInv
  <2> HIDE DEF r, t, want
  <2>5. KnowsRows(request[h])' /\ request'[h].who = CustomerOf[t]
    BY <2>2, <2>3, <2>4 DEF KnowsRows
  <2> QED  BY <1>2, <2>2, <2>4, <2>5
<1>7. ASSUME NEW c \in Customers, NEW status \in Statuses,
             ChangeCustomerStatus(h, c, status)
      PROVE  TurnInv'
  <2> DEFINE r == [Idle EXCEPT !.op = "status", !.at = "saving", !.who = c,
                      !.cus = [customer[c] EXCEPT !.status = status],
                      !.writes = {"customer"}]
  <2>1. OnlyRequest(h) /\ request'[h] = r
    BY <1>1, <1>7 DEF ChangeCustomerStatus, OnlyRequest
  <2>2. /\ r.op = "status" /\ r.at = "saving" /\ r.txn = None
        /\ r.who = c /\ r.writes = {"customer"} /\ r.notify = FALSE
        /\ r.cus.purchases = customer[c].purchases
        /\ r.cus.spend = customer[c].spend
    BY DEF Idle, IInv, TypeOK, CustomerRow
  <2> HIDE DEF r
  <2>3. OnlyAbout(h, c)
    BY <2>1, <2>2 DEF Meets, OnlyAbout
  <2>4. request[h].who = None /\ request[h].at = "idle" /\ request[h].writes = {}
    BY <1>1, IdleFields
  <2>5. Exact(c)
    BY <2>3, <2>4, ExactNow
  <2>6. KnowsRows(request[h])' /\ request'[h].who = c
    BY <1>1, <2>1, <2>2, <2>5 DEF KnowsRows, Exact
  <2> QED  BY <1>2, <2>1, <2>6
<1> QED  BY <1>3, <1>4, <1>5, <1>6, <1>7 DEF Arrive

\* The one request about an account.
LEMMA OneAbout ==
  ASSUME TurnInv, NEW h \in Requests, request[h].at # "idle"
  PROVE  /\ request[h].who \in Customers /\ OnlyAbout(h, request[h].who)
         /\ request[h].op # "simulate"
BY ConstantsOK
DEF TurnInv, AllKnow, KnowsRows, OnePerAccount, OnlyAbout, ConstantsOK

\* Reads.
LEMMA ReadTurn ==
  ASSUME IInv, IInv', TurnInv, NEW h \in Requests,
         ReadSession(h) \/ ReadTransaction(h) \/ LookupSession(h),
         timers' = {}, faults' = 0
  PROVE  TurnInv'
<1> DEFINE r == request[h]
           q == request'[h]
<1>1. /\ r \in Request /\ Linked(r) /\ KnowsRows(r)
      /\ request \in [Requests -> Request]
      /\ r.at \in {"readSession", "readTransaction", "lookup"}
  BY InFlightTyped
  DEF IInv, TypeOK, TurnInv, AllKnow, ReadSession, ReadTransaction,
      LookupSession
<1>2. UNCHANGED <<customer, transaction, session, fulfilled, units, spent,
                  receipts, instructed>>
  BY DEF ReadSession, ReadTransaction, LookupSession, rows, history
<1>3. /\ OnlyRequest(h)
      /\ q.at \in {"readCustomer", "readTransaction"}
      /\ q.at = "readCustomer" => q.tStatus = transaction[r.txn].status
      /\ q.op = r.op /\ q.txn = r.txn /\ q.who = r.who
      /\ q.writes = r.writes /\ q.notify = r.notify
  <2>1. CASE ReadSession(h)
    BY <1>1, <2>1 DEF OnlyRequest, ReadSession, Request, KnowsRows
  <2>2. CASE ReadTransaction(h)
    BY <1>1, <2>2 DEF OnlyRequest, ReadTransaction, Request
  <2>3. CASE LookupSession(h)
    <3>1. PICK f \in SessionIds :
            request' = [request EXCEPT ![h].at = "readTransaction",
                                       ![h].ses = f,
                                       ![h].sStatus = session[f].status]
      BY <2>3 DEF LookupSession
    <3> QED  BY <1>1, <3>1 DEF OnlyRequest, Request
  <2> QED  BY <2>1, <2>2, <2>3
<1>4. r.writes = {} /\ ~r.notify
  BY <1>1 DEF Linked, KnowsRows
<1>5. KnowsRows(request[h])'
  BY <1>1, <1>2, <1>3, <1>4 DEF KnowsRows
<1>6. r.who \in Customers /\ OnlyAbout(h, r.who)
  BY <1>1, OneAbout
<1> QED  BY <1>1, <1>2, <1>3, <1>5, <1>6, QuietTurn

\* A request that leaves.
LEMMA LeaveTurn ==
  ASSUME IInv, IInv', TurnInv, NEW h \in Requests, Leave(h),
         request[h].at \notin {"idle", "saving"},
         UNCHANGED <<customer, transaction, fulfilled, units, spent, receipts,
                     instructed>>,
         \A s \in SessionIds : Exists(s) =>
           /\ session'[s].txn = session[s].txn
           /\ session'[s].count = session[s].count
           /\ session'[s].amount = session[s].amount,
         timers' = {}, faults' = 0
  PROVE  TurnInv'
<1>1. OnlyRequest(h) /\ request'[h] = Idle
  BY DEF Leave, OnlyRequest, IInv, TypeOK
<1>2. KnowsRows(Idle)'
  BY DEF KnowsRows, Idle
<1>3. KnowsRows(request[h])' /\ request'[h].who = None
  BY <1>1, <1>2, IdleFields
<1>4. request[h].who \in Customers /\ OnlyAbout(h, request[h].who)
  BY OneAbout
<1> QED  BY <1>1, <1>3, <1>4, QuietTurn

LEMMA DecisionTurn ==
  ASSUME IInv, IInv', TurnInv, NEW h \in Requests,
         \/ AlreadyConfirmed(h) \/ ConfirmAgain(h) \/ StartProvisioning(h)
         \/ RecordProgress(h) \/ FailPayment(h),
         timers' = {}, faults' = 0
  PROVE  TurnInv'
<1> DEFINE r == request[h]
           q == request'[h]
<1>1. /\ r \in Request /\ Linked(r) /\ KnowsRows(r)
      /\ request \in [Requests -> Request] /\ r.at = "readCustomer"
  BY InFlightTyped
  DEF IInv, TypeOK, TurnInv, AllKnow, AlreadyConfirmed, ConfirmAgain,
      StartProvisioning, RecordProgress, FailPayment
<1>2. UNCHANGED <<customer, transaction, session, fulfilled, units, spent,
                  receipts, instructed>>
  BY DEF AlreadyConfirmed, ConfirmAgain, StartProvisioning, RecordProgress,
     FailPayment, rows, history
<1>3. /\ r.who \in Customers /\ OnlyAbout(h, r.who)
      /\ r.tStatus = transaction[r.txn].status
      /\ r.writes = {} /\ ~r.notify
  BY <1>1, OneAbout DEF KnowsRows, Linked
<1>4. CASE AlreadyConfirmed(h)
  BY <1>1, <1>2, <1>4, LeaveTurn DEF AlreadyConfirmed
<1>5. ASSUME OnlyRequest(h), q.who = r.who, KnowsRows(request[h])'
      PROVE  TurnInv'
  BY <1>1, <1>2, <1>3, <1>5, QuietTurn
<1>6. CASE ConfirmAgain(h)
  <2>1. /\ OnlyRequest(h) /\ q.at = "saving" /\ q.tStatus = "provisioned"
        /\ q.writes = {"transaction", "session"} /\ q.who = r.who
        /\ q.txn = r.txn /\ q.op = r.op
    BY <1>1, <1>6 DEF ConfirmAgain, OnlyRequest, Request
  <2>2. KnowsRows(request[h])'
    BY <1>1, <1>2, <1>3, <2>1 DEF KnowsRows
  <2> QED  BY <1>5, <2>1, <2>2
<1>7. CASE StartProvisioning(h)
  <2> DEFINE total == Charged(customer[r.who], r.ses)
  <2>1. total.purchases = customer[r.who].purchases + session[r.ses].count
        /\ total.spend = customer[r.who].spend + session[r.ses].amount
        /\ total.status = customer[r.who].status
    BY <1>3 DEF Charged, IInv, TypeOK, CustomerRow
  <2>2. request' = [request EXCEPT ![h] =
          [r EXCEPT !.at = "provision", !.tStatus = "provisioned",
                    !.sStatus = "confirmed", !.want = "none", !.cus = total]]
    BY <1>7 DEF StartProvisioning
  <2> HIDE DEF total
  <2>3. /\ OnlyRequest(h) /\ q.at = "provision" /\ q.tStatus = "provisioned"
        /\ q.writes = {} /\ q.notify = r.notify /\ q.who = r.who
        /\ q.txn = r.txn /\ q.op = r.op /\ q.ses = r.ses /\ q.cus = total
    BY <1>1, <1>3, <2>2 DEF OnlyRequest, Request
  <2>4. Exact(r.who)
    BY <1>3, ExactNow
  <2>5. customer[r.who].status = instructed[r.who]
    BY <1>3 DEF TurnInv, StatusSticks
  <2>6. transaction[r.txn].status # "provisioned"
    BY <1>3, <1>7 DEF StartProvisioning, NeedsProvisioning
  <2>7. KnowsRows(request[h])'
    BY <1>1, <1>2, <1>3, <2>1, <2>3, <2>4, <2>5, <2>6 DEF KnowsRows, Exact
  <2> QED  BY <1>5, <2>3, <2>7
<1>8. CASE RecordProgress(h)
  <2>1. /\ OnlyRequest(h) /\ q.at = "saving"
        /\ q.writes = {"session"} /\ q.who = r.who /\ q.notify = r.notify
        /\ q.txn = r.txn /\ q.op = r.op
    BY <1>1, <1>8 DEF RecordProgress, OnlyRequest, Request
  <2>2. KnowsRows(request[h])'
    BY <1>1, <1>2, <1>3, <2>1 DEF KnowsRows
  <2> QED  BY <1>5, <2>1, <2>2
<1>9. CASE FailPayment(h)
  <2>1. /\ OnlyRequest(h) /\ q.at = "saving" /\ q.tStatus = "failed"
        /\ q.writes = {"transaction", "session"} /\ q.who = r.who
        /\ q.notify = r.notify /\ q.txn = r.txn /\ q.op = r.op
    BY <1>1, <1>9 DEF FailPayment, OnlyRequest, Request
  <2>2. transaction[r.txn].status # "provisioned"
    BY <1>3, <1>9 DEF FailPayment, Settled
  <2>3. KnowsRows(request[h])'
    BY <1>1, <1>2, <1>3, <2>1, <2>2 DEF KnowsRows
  <2> QED  BY <1>5, <2>1, <2>3
<1> QED  BY <1>4, <1>6, <1>7, <1>8, <1>9

LEMMA InsertTransactionTurn ==
  ASSUME IInv, IInv', PaidInv, TurnInv, NEW h \in Requests,
         InsertTransaction(h) \/ ReopenTransaction(h),
         timers' = {}, faults' = 0
  PROVE  TurnInv'
<1> USE ConstantsOK DEF ConstantsOK
<1> DEFINE r == request[h]
           q == request'[h]
           t == r.txn
<1>1. /\ r \in Request /\ Linked(r) /\ KnowsRows(r)
      /\ request \in [Requests -> Request]
      /\ r.at \in {"insertTransaction", "reopenTransaction"}
      /\ Priced(r, transaction)
  BY InFlightTyped
  DEF IInv, TypeOK, TurnInv, AllKnow, InsertTransaction, ReopenTransaction,
      PaidInv, AllPriced
<1>2. PICK c \in Customers :
        /\ c = r.who /\ t \in Transactions /\ c = CustomerOf[t]
        /\ OnlyAbout(h, c) /\ r.writes = {} /\ ~r.notify
  BY <1>1, OneAbout DEF Linked, KnowsRows
<1>3. transaction[t].status \in {"absent", "failed"}
  BY <1>1 DEF Priced, KnowsRows
<1>4. /\ OnlyRequest(h) /\ q.at = "insertSession" /\ q.op = r.op
      /\ q.txn = t /\ q.who = c /\ q.writes = {} /\ q.notify = r.notify
  <2>1. request' = [request EXCEPT ![h].at = "insertSession"]
    BY DEF InsertTransaction, ReopenTransaction
  <2> QED  BY <1>1, <1>2, <2>1 DEF OnlyRequest, Request
<1>5. /\ UNCHANGED <<customer, session, fulfilled, units, spent, receipts,
                     instructed>>
      /\ \A u \in Transactions : u # t => transaction'[u] = transaction[u]
  BY DEF InsertTransaction, ReopenTransaction, history, IInv, TypeOK
<1>6. OthersKept(c)
  BY <1>2, <1>5 DEF OthersKept
<1>7. KnowsRows(request[h])'
  BY <1>1, <1>2, <1>4 DEF KnowsRows
<1>8. Exact(c)' /\ customer'[c].status = instructed'[c]
  <2>1. Exact(c)
    BY <1>2, ExactNow
  <2> QED  BY <1>2, <1>5, <2>1 DEF Exact, TurnInv, StatusSticks
<1>9. ASSUME NEW u \in Transactions, CustomerOf[u] = c, fulfilled'[u] > 0
      PROVE  transaction'[u].status = "provisioned"
  <2>1. ~Committed(u)
    BY <1>1, <1>2, <1>9, CommittedByOne
  <2>2. transaction[u].status = "provisioned"
    BY <1>5, <1>9, <2>1 DEF TurnInv, FulfilledIsCommitted
  <2> QED  BY <1>3, <1>5, <2>2
<1>10. ReceiptsAreFinal'
  <2> SUFFICES ASSUME NEW s \in receipts
               PROVE  transaction'[session[s].txn].status = "provisioned"
    BY <1>5 DEF ReceiptsAreFinal
  <2>1. transaction[session[s].txn].status = "provisioned"
    BY DEF TurnInv, ReceiptsAreFinal
  <2>2. session[s].txn \in Transactions
    BY DEF IInv, TypeOK, RowsLinked
  <2> QED  BY <1>3, <1>5, <2>1, <2>2
<1>11. request[h].who \in {c, None} /\ request'[h].who \in {c, None}
  BY <1>2, <1>4
<1> QED
  BY <1>2, <1>4, <1>6, <1>7, <1>8, <1>9, <1>10, <1>11, TurnStep

LEMMA InsertSessionTurn ==
  ASSUME IInv, IInv', TurnInv, NEW h \in Requests, InsertSession(h),
         timers' = {}, faults' = 0
  PROVE  TurnInv'
<1> DEFINE r == request[h]
           q == request'[h]
<1>1. /\ r \in Request /\ Linked(r) /\ KnowsRows(r)
      /\ request \in [Requests -> Request] /\ r.at = "insertSession"
  BY InFlightTyped DEF IInv, TypeOK, TurnInv, AllKnow, InsertSession
<1>2. /\ r.who \in Customers /\ OnlyAbout(h, r.who)
      /\ r.writes = {} /\ ~r.notify
  BY <1>1, OneAbout DEF Linked, KnowsRows
<1>3. PICK s \in SessionIds, m \in Methods :
        /\ IsNextSession(s)
        /\ session' = [session EXCEPT ![s] = NewSession(r, m)]
        /\ request' = [request EXCEPT ![h].at = "initiate", ![h].ses = s]
  BY DEF InsertSession
<1>4. /\ OnlyRequest(h) /\ q.at = "initiate" /\ q.op = r.op
      /\ q.txn = r.txn /\ q.who = r.who /\ q.writes = {}
      /\ q.notify = r.notify
  BY <1>1, <1>2, <1>3 DEF OnlyRequest, Request
<1>5. /\ UNCHANGED <<customer, transaction, fulfilled, units, spent, receipts,
                     instructed>>
      /\ \A p \in SessionIds : Exists(p) => session'[p] = session[p]
  BY <1>3 DEF InsertSession, IsNextSession, history, IInv, TypeOK
<1>6. KnowsRows(request[h])'
  BY <1>1, <1>2, <1>4 DEF KnowsRows
<1> QED  BY <1>1, <1>2, <1>4, <1>5, <1>6, QuietTurn

LEMMA InitiatedTurn ==
  ASSUME IInv, IInv', TurnInv, NEW h \in Requests,
         PaymentInitiated(h) \/ InitiationFails(h) \/ ProvisioningFails(h),
         timers' = {}, faults' = 0
  PROVE  TurnInv'
<1>1. /\ request[h].at \in {"initiate", "provision"}
      /\ UNCHANGED <<customer, transaction, fulfilled, units, spent, receipts,
                     instructed>>
  BY DEF PaymentInitiated, InitiationFails, ProvisioningFails, rows, history
<1>2. Leave(h)
  BY <1>1, OneAbout
  DEF PaymentInitiated, InitiationFails, ProvisioningFails, Raise
<1>3. ASSUME NEW s \in SessionIds
      PROVE  /\ session'[s].txn = session[s].txn
             /\ session'[s].count = session[s].count
             /\ session'[s].amount = session[s].amount
  BY DEF PaymentInitiated, InitiationFails, ProvisioningFails, rows, IInv,
     TypeOK, SessionRow
<1> QED  BY <1>1, <1>2, <1>3, LeaveTurn

LEMMA ProvisionedTurn ==
  ASSUME IInv, IInv', TurnInv, NEW h \in Requests, Provisioned(h),
         timers' = {}, faults' = 0
  PROVE  TurnInv'
<1> DEFINE r == request[h]
           q == request'[h]
           t == r.txn
<1>1. /\ r \in Request /\ Linked(r) /\ KnowsRows(r)
      /\ request \in [Requests -> Request] /\ r.at = "provision"
  BY InFlightTyped DEF IInv, TypeOK, TurnInv, AllKnow, Provisioned
<1>2. PICK c \in Customers :
        /\ c = r.who /\ t \in Transactions /\ c = CustomerOf[t]
        /\ OnlyAbout(h, c) /\ r.tStatus = "provisioned"
  BY <1>1, OneAbout DEF Linked, AboutSession, KnowsRows
<1>3. /\ OnlyRequest(h) /\ q.at = "saving" /\ q.op = r.op
      /\ q.txn = t /\ q.who = c /\ q.writes = Table /\ q.cus = r.cus
      /\ q.tStatus = r.tStatus
  BY <1>1, <1>2 DEF Provisioned, OnlyRequest, Request
<1>4. /\ UNCHANGED <<customer, transaction, session, receipts, instructed>>
      /\ fulfilled' = [fulfilled EXCEPT ![t] = @ + 1]
      /\ units' = [units EXCEPT ![c] = @ + session[r.ses].count]
      /\ spent' = [spent EXCEPT ![c] = @ + session[r.ses].amount]
  BY <1>2 DEF Provisioned, rows
<1>5. OthersKept(c)
  BY <1>2, <1>4 DEF OthersKept, IInv, TypeOK
<1>6. /\ units'[c] = units[c] + session[r.ses].count
      /\ spent'[c] = spent[c] + session[r.ses].amount
  BY <1>2, <1>4 DEF IInv, TypeOK
<1>7. KnowsRows(request[h])'
  BY <1>1, <1>2, <1>3, <1>4, <1>6 DEF KnowsRows, Table
<1>8. "customer" \in q.writes /\ customer'[c].status = instructed'[c]
  BY <1>2, <1>3, <1>4 DEF Table, TurnInv, StatusSticks
<1>9. ASSUME NEW u \in Transactions, CustomerOf[u] = c, fulfilled'[u] > 0
      PROVE  transaction'[u].status = "provisioned" \/ Committed(u)'
  <2>1. CASE u = t
    BY <1>2, <1>3, <2>1 DEF Committed, Table
  <2>2. CASE u # t
    <3>1. ~Committed(u)
      BY <1>1, <1>2, <1>9, CommittedByOne
    <3>2. fulfilled'[u] = fulfilled[u]
      BY <1>4, <2>2 DEF IInv, TypeOK
    <3> QED  BY <1>4, <1>9, <3>1, <3>2 DEF TurnInv, FulfilledIsCommitted
  <2> QED  BY <2>1, <2>2
<1>10. ReceiptsAreFinal'
  BY <1>4 DEF ReceiptsAreFinal, TurnInv
<1>11. request[h].who \in {c, None} /\ request'[h].who = c
  BY <1>2, <1>3
<1> QED
  BY <1>2, <1>3, <1>5, <1>7, <1>8, <1>9, <1>10, <1>11, TurnStep

\* A save, and what its table holds then.
LEMMA SaveTurn ==
  ASSUME IInv, IInv', TurnInv, NEW h \in Requests,
         \/ SaveTransaction(h) \/ SaveSession(h) \/ SaveCustomer(h)
         \/ SaveBalance(h),
         timers' = {}, faults' = 0
  PROVE  TurnInv'
<1> USE ConstantsOK DEF ConstantsOK
<1> DEFINE r == request[h]
           q == request'[h]
           t == r.txn
<1>1. PICK table \in r.writes :
        /\ request' = [request EXCEPT ![h].writes = @ \ {table}]
        /\ \/ table = "transaction" /\ SaveTransaction(h)
           \/ table = "session" /\ SaveSession(h)
           \/ table = "customer" /\ SaveCustomer(h)
           \/ table = "balance" /\ SaveBalance(h)
  BY DEF SaveTransaction, SaveSession, SaveCustomer, SaveBalance, Saved
<1>2. /\ r \in Request /\ Linked(r) /\ KnowsRows(r)
      /\ request \in [Requests -> Request] /\ r.at = "saving"
  BY InFlightTyped DEF IInv, TypeOK, TurnInv, AllKnow, SaveTransaction,
     SaveSession, SaveCustomer, SaveBalance, Saved
<1>3. PICK c \in Customers : c = r.who /\ OnlyAbout(h, c)
  BY <1>2, OneAbout
<1>4. /\ OnlyRequest(h) /\ q.at = "saving" /\ q.op = r.op
      /\ q.txn = t /\ q.who = c /\ q.writes = r.writes \ {table}
      /\ q.cus = r.cus /\ q.tStatus = r.tStatus /\ q.notify = r.notify
  BY <1>1, <1>2, <1>3 DEF OnlyRequest, Request
<1>5. UNCHANGED <<fulfilled, units, spent, receipts>>
  BY DEF SaveTransaction, SaveSession, SaveCustomer, SaveBalance, history
<1>6. ASSUME NEW s \in SessionIds
      PROVE  /\ session'[s].txn = session[s].txn
             /\ session'[s].count = session[s].count
             /\ session'[s].amount = session[s].amount
  BY SMTT(30), <1>1 DEF SaveTransaction, SaveSession, SaveCustomer, SaveBalance, IInv,
     TypeOK, SessionRow
<1>7. /\ table = "transaction" =>
           /\ t \in Transactions /\ c = CustomerOf[t]
           /\ transaction'[t].status = r.tStatus
           /\ \A u \in Transactions : u # t => transaction'[u] = transaction[u]
      /\ table # "transaction" => transaction' = transaction
  <2>1. ASSUME table = "transaction"
        PROVE  /\ t \in Transactions /\ c = CustomerOf[t]
               /\ transaction' = [transaction EXCEPT ![t].status = r.tStatus]
    BY <1>1, <1>2, <1>3, <2>1 DEF Linked, AboutSession, SaveTransaction
  <2>2. ASSUME table = "transaction"
        PROVE  /\ transaction'[t].status = r.tStatus
               /\ \A u \in Transactions : u # t => transaction'[u] = transaction[u]
    BY <2>1, <2>2 DEF IInv, TypeOK, TransactionRow
  <2>3. table # "transaction" => transaction' = transaction
    BY <1>1 DEF SaveSession, SaveCustomer, SaveBalance
  <2> QED  BY <2>1, <2>2, <2>3
<1>8. /\ \A d \in Customers \ {c} :
           customer'[d] = customer[d] /\ instructed'[d] = instructed[d]
      /\ table = "customer" =>
           /\ customer'[c] = r.cus
           /\ instructed'[c] = IF r.op = "status" THEN r.cus.status
                               ELSE instructed[c]
      /\ table # "customer" => UNCHANGED <<customer, instructed>>
  BY <1>1, <1>3 DEF SaveTransaction, SaveSession, SaveCustomer, SaveBalance,
     history, IInv, TypeOK
<1>9. OthersKept(c)
  BY <1>5, <1>6, <1>7, <1>8 DEF OthersKept
<1>10. KnowsRows(request[h])'
  <2>1. "transaction" \in q.writes => transaction' = transaction
    BY <1>4, <1>7
  <2>2. "customer" \in q.writes => instructed' = instructed
    BY <1>4, <1>8
  <2>3. q.notify => \/ "transaction" \in q.writes
                    \/ transaction'[t].status = "provisioned"
    BY <1>2, <1>4, <1>7 DEF KnowsRows
  <2> QED  BY <1>2, <1>3, <1>4, <1>5, <2>1, <2>2, <2>3 DEF KnowsRows
<1>11. customer'[c].status = instructed'[c]
  <2>1. customer[c].status = instructed[c]
    BY <1>3 DEF TurnInv, StatusSticks
  <2> QED  BY <1>1, <1>2, <1>3, <1>8, <2>1 DEF KnowsRows
<1>12. Exact(c)' \/ "customer" \in q.writes
  <2>1. CASE table = "customer"
    BY <1>1, <1>2, <1>3, <1>5, <1>8, <2>1 DEF KnowsRows, Exact
  <2>2. CASE table # "customer" /\ "customer" \notin r.writes
    <3>1. Exact(c)
      BY <1>3, <2>2, ExactNow
    <3> QED  BY <1>5, <1>8, <2>2, <3>1 DEF Exact
  <2> QED  BY <1>4, <2>1, <2>2
<1>13. ASSUME NEW u \in Transactions, CustomerOf[u] = c, fulfilled'[u] > 0
       PROVE  transaction'[u].status = "provisioned" \/ Committed(u)'
  <2>1. transaction[u].status = "provisioned" \/ Committed(u)
    BY <1>5, <1>13 DEF TurnInv, FulfilledIsCommitted
  <2>2. CASE Committed(u)
    <3>1. /\ u = t /\ "transaction" \in r.writes
          /\ r.tStatus = "provisioned"
      BY <1>3, <1>13, <2>2, CommittedByOne
    <3> QED  BY <1>4, <1>7, <3>1 DEF Committed
  <2>3. CASE transaction[u].status = "provisioned"
    BY <1>1, <1>2, <1>7, <2>3 DEF KnowsRows
  <2> QED  BY <2>1, <2>2, <2>3
<1>14. ReceiptsAreFinal'
  <2> SUFFICES ASSUME NEW s \in receipts
               PROVE  transaction'[session'[s].txn].status = "provisioned"
    BY <1>5 DEF ReceiptsAreFinal
  <2>1. transaction[session[s].txn].status = "provisioned"
    BY DEF TurnInv, ReceiptsAreFinal
  <2>2. session[s].txn \in Transactions /\ session'[s].txn = session[s].txn
    BY <1>6 DEF IInv, TypeOK, RowsLinked
  <2> QED  BY <1>1, <1>2, <1>7, <2>1, <2>2 DEF KnowsRows
<1>15. request[h].who \in {c, None} /\ request'[h].who = c
  BY <1>3, <1>4
<1> QED
  BY <1>3, <1>4, <1>9, <1>10, <1>11, <1>12, <1>13, <1>14, <1>15, TurnStep

LEMMA FinishTurn ==
  ASSUME IInv, IInv', TurnInv, NEW h \in Requests, Finish(h),
         timers' = {}, faults' = 0
  PROVE  TurnInv'
<1> DEFINE r == request[h]
<1>1. /\ r \in Request /\ Linked(r) /\ KnowsRows(r)
      /\ request \in [Requests -> Request] /\ r.at = "saving" /\ r.writes = {}
  BY InFlightTyped DEF IInv, TypeOK, TurnInv, AllKnow, Finish
<1>2. PICK c \in Customers : c = r.who /\ OnlyAbout(h, c)
  BY <1>1, OneAbout
<1>3. /\ OnlyRequest(h) /\ request'[h] = Idle
      /\ UNCHANGED <<customer, transaction, session, fulfilled, units, spent,
                     instructed>>
  BY <1>1 DEF Finish, Leave, OnlyRequest, rows
<1>4. OthersKept(c)
  BY <1>3 DEF OthersKept
<1>5. KnowsRows(request[h])'
  <2>1. KnowsRows(Idle)'
    BY DEF KnowsRows, Idle
  <2> QED  BY <1>3, <2>1
<1>6. Exact(c)' /\ customer'[c].status = instructed'[c]
  <2>1. Exact(c)
    BY <1>1, <1>2, ExactNow
  <2> QED  BY <1>2, <1>3, <2>1 DEF Exact, TurnInv, StatusSticks
<1>7. ASSUME NEW u \in Transactions, CustomerOf[u] = c, fulfilled'[u] > 0
      PROVE  transaction'[u].status = "provisioned"
  <2>1. ~Committed(u)
    BY <1>1, <1>2, <1>7, CommittedByOne
  <2> QED  BY <1>3, <1>7, <2>1 DEF TurnInv, FulfilledIsCommitted
<1>8. ReceiptsAreFinal'
  <2> SUFFICES ASSUME NEW s \in receipts'
               PROVE  transaction[session[s].txn].status = "provisioned"
    BY <1>3 DEF ReceiptsAreFinal
  <2>1. CASE s \in receipts
    BY <2>1 DEF TurnInv, ReceiptsAreFinal
  <2>2. CASE s \notin receipts
    <3>1. r.notify /\ s = r.ses
      BY <2>2 DEF Finish
    <3>2. session[s].txn = r.txn /\ transaction[r.txn].status = "provisioned"
      BY <1>1, <3>1 DEF Linked, AboutSession, KnowsRows
    <3> QED  BY <3>2
  <2> QED  BY <2>1, <2>2
<1>9. request[h].who \in {c, None} /\ request'[h].who = None
  BY <1>2, <1>3, IdleFields
<1> QED
  BY <1>2, <1>3, <1>4, <1>5, <1>6, <1>7, <1>8, <1>9, TurnStep

\* What a step of the scenario does while requests take turns.
LEMMA TurnNext == IInv /\ IInv' /\ PaidInv /\ TurnsInv
                    /\ [MCNext]_<<vars, scenario>> => TurnsInv'
<1> SUFFICES ASSUME IInv, IInv', PaidInv, TurnsInv,
                    [MCNext]_<<vars, scenario>>
             PROVE  TurnsInv'
  OBVIOUS
<1>1. CASE UNCHANGED <<vars, scenario>>
  BY <1>1 DEF vars, rows, memory, history, TurnsInv, Turns, TurnInv, AllKnow,
     KnowsRows, OnePerAccount, ExactUnlessSaving, Exact, FulfilledIsCommitted,
     Committed, ReceiptsAreFinal, StatusSticks
<1>2. CASE MCNext
  <2> SUFFICES ASSUME Turns
               PROVE  TurnInv'
    BY <1>2 DEF MCNext, TurnsInv, Turns
  <2>1. TurnInv /\ timers' = {} /\ faults' = 0
    BY <1>2 DEF MCNext, Fits, TurnsInv, Turns
  <2>2. ASSUME NEW h \in Requests, Arrive(h)
        PROVE  TurnInv'
    <3>1. Began(h) => ~Meets(h)
      BY <1>2 DEF MCNext, Plays, Turns
    <3>2. CASE Began(h)
      BY <2>1, <2>2, <3>1, <3>2, ArriveTurn
    <3>3. CASE ~Began(h)
      <4>1. request[h] = Idle
        BY <2>2 DEF Arrive, CreatePurchase, RetryPurchase, ConfirmPurchase,
           ProviderCallback, ChangeCustomerStatus
      <4>2. request'[h].who = None
        BY <3>3, <4>1, IdleFields DEF Began
      <4>3. ~Meets(h)
        BY <4>2 DEF Meets
      <4> QED  BY <2>1, <2>2, <4>3, ArriveTurn
    <3> QED  BY <3>2, <3>3
  <2>3. ASSUME NEW h \in Requests, TimerFires(h)
        PROVE  FALSE
    BY <2>1, <2>3 DEF TimerFires, SimulationTimer, TurnInv
  <2>4. ASSUME NEW h \in Requests, Proceed(h)
        PROVE  TurnInv'
    BY <2>1, <2>4, InsertTransactionTurn, InsertSessionTurn, InitiatedTurn,
       ReadTurn, DecisionTurn, ProvisionedTurn, SaveTurn, FinishTurn
    DEF Proceed
  <2>5. ASSUME NEW h \in Requests, Refused(h)
        PROVE  TurnInv'
    BY <2>1, <2>5, InitiatedTurn DEF Refused
  <2>6. ASSUME \/ \E h \in Requests : SaveFails(h) \/ RequestFails(h)
               \/ Crash
        PROVE  FALSE
    <3>1. faults' = faults + 1
      BY <2>6 DEF SaveFails, RequestFails, Crash
    <3> QED  BY <2>1, <3>1 DEF TurnInv
  <2> QED  BY <1>2, <2>2, <2>3, <2>4, <2>5, <2>6 DEF MCNext, Next
<1> QED  BY <1>1, <1>2

LEMMA TurnInit == Init => TurnInv
<1> SUFFICES ASSUME Init PROVE TurnInv
  OBVIOUS
<1> USE DEF Init
<1>1. \A h \in Requests : request[h] = Idle
  OBVIOUS
<1>2. KnowsRows(Idle)
  BY DEF KnowsRows, Idle
<1>3. AllKnow /\ OnePerAccount
  BY <1>1, <1>2, IdleFields DEF AllKnow, OnePerAccount
<1>4. ExactUnlessSaving /\ StatusSticks
  BY DEF ExactUnlessSaving, Exact, StatusSticks, NewCustomer
<1>5. FulfilledIsCommitted /\ ReceiptsAreFinal
  BY DEF FulfilledIsCommitted, ReceiptsAreFinal
<1> QED  BY <1>3, <1>4, <1>5 DEF TurnInv

\* A behaviour of a scenario is one of the system.
LEMMA ScenariosAreSpec == MCSpec => Spec
<1>1. MCInit => Init
  BY DEF MCInit
<1>2. [MCNext]_<<vars, scenario>> => [Next]_vars
  BY DEF MCNext
<1> QED  BY <1>1, <1>2, PTL DEF MCSpec, Spec

LEMMA ScenariosInv == MCSpec => [](IInv /\ PaidInv /\ TurnsInv)
<1>1. MCInit => TurnsInv
  BY TurnInit DEF MCInit, TurnsInv
<1>2. IInv /\ IInv' /\ PaidInv /\ TurnsInv /\ [MCNext]_<<vars, scenario>>
        => TurnsInv'
  BY TurnNext
<1> QED
  BY <1>1, <1>2, ScenariosAreSpec, SpecIInv, SpecPaid, PTL DEF MCSpec

\* createPurchase, retryPurchase, confirmPurchase, the provider's callback and
\* changeCustomerStatus keep their promises while an account's requests wait
\* for one another: a transaction whose receipt went out stays `provisioned`,
\* the account's totals count its subscriptions, each of them once, and its
\* status is the one that staff set last.
THEOREM RowsAreTrue == MCSpec => []RowsTrueInTurns
<1>1. TurnsInv => RowsTrueInTurns
  <2> SUFFICES ASSUME TurnInv
               PROVE  ReceiptsAreFinal /\ TotalsExact /\ StatusSticks
    BY DEF TurnsInv, RowsTrueInTurns
  <2>1. TotalsExact
    BY DEF TurnInv, ExactUnlessSaving, TotalsExact, InFlight, Exact
  <2> QED  BY <2>1 DEF TurnInv
<1> QED  BY <1>1, ScenariosInv, PTL

-----------------------------------------------------------------------------
(* Payments implements PurchaseLedger                                      *)

\* The ledger's variables while requests take turns.
Stage(t) == IF Committed(t) THEN "provisioned" ELSE transaction[t].status

Reported == {t \in Transactions : notices[t] > 0}

\* A step of the ledger, said with what the rows and the history show.
LEMMA LedgerIs ==
  ASSUME Turns, Turns', IInv, IInv',
         \/ /\ \A t \in Transactions : Stage(t)' = Stage(t)
            /\ Reported' = Reported /\ fulfilled' = fulfilled
         \/ \E t \in Transactions :
              /\ \A u \in Transactions \ {t} : Stage(u)' = Stage(u)
              /\ \/ /\ \/ Stage(t) = "absent" /\ Stage(t)' = "pending"
                       \/ Stage(t) = "pending" /\ Stage(t)' = "failed"
                       \/ Stage(t) = "failed" /\ Stage(t)' = "pending"
                    /\ Reported' = Reported /\ fulfilled' = fulfilled
                 \/ /\ Stage(t) # "absent" /\ Stage(t)' = Stage(t)
                    /\ Reported' = Reported \union {t}
                    /\ fulfilled' = fulfilled
                 \/ /\ t \in Reported
                    /\ Stage(t) \in {"pending", "failed"}
                    /\ Stage(t)' = "provisioned"
                    /\ fulfilled[t] = 0
                    /\ fulfilled' = [fulfilled EXCEPT ![t] = 1]
                    /\ Reported' = Reported
  PROVE  [Ledger!Next]_(Ledger!ledger)
<1>1. CASE /\ \A t \in Transactions : Stage(t)' = Stage(t)
           /\ Reported' = Reported /\ fulfilled' = fulfilled
  BY <1>1 DEF Ledger!ledger, Stage, Reported
<1>2. ASSUME NEW t \in Transactions,
             \A u \in Transactions \ {t} : Stage(u)' = Stage(u),
             Stage(t) = "absent", Stage(t)' = "pending",
             Reported' = Reported, fulfilled' = fulfilled
      PROVE  Ledger!Open(t)
  BY <1>2 DEF Ledger!Open, Stage, Reported
<1>3. ASSUME NEW t \in Transactions,
             \A u \in Transactions \ {t} : Stage(u)' = Stage(u),
             Stage(t) = "pending", Stage(t)' = "failed",
             Reported' = Reported, fulfilled' = fulfilled
      PROVE  Ledger!Fail(t)
  BY <1>3 DEF Ledger!Fail, Stage, Reported
<1>4. ASSUME NEW t \in Transactions,
             \A u \in Transactions \ {t} : Stage(u)' = Stage(u),
             Stage(t) = "failed", Stage(t)' = "pending",
             Reported' = Reported, fulfilled' = fulfilled
      PROVE  Ledger!Retry(t)
  BY <1>4 DEF Ledger!Retry, Stage, Reported
<1>5. ASSUME NEW t \in Transactions,
             \A u \in Transactions : Stage(u)' = Stage(u),
             Stage(t) # "absent",
             Reported' = Reported \union {t}, fulfilled' = fulfilled
      PROVE  Ledger!Notice(t)
  BY <1>5 DEF Ledger!Notice, Stage, Reported
<1>6. ASSUME NEW t \in Transactions,
             \A u \in Transactions \ {t} : Stage(u)' = Stage(u),
             t \in Reported, Stage(t) \in {"pending", "failed"},
             Stage(t)' = "provisioned", fulfilled[t] = 0,
             fulfilled' = [fulfilled EXCEPT ![t] = 1], Reported' = Reported
      PROVE  Ledger!Fulfil(t)
  BY <1>6 DEF Ledger!Fulfil, Stage, Reported
<1> QED
  BY Zenon, <1>1, <1>2, <1>3, <1>4, <1>5, <1>6 DEF Ledger!Next

\* What the ledger sees of transaction t when r is the one request about its
\* account.
StageFor(r, t) ==
  IF /\ r.txn = t /\ r.at = "saving" /\ "transaction" \in r.writes
     /\ r.tStatus = "provisioned"
  THEN "provisioned" ELSE transaction[t].status

\* A step about account c is one about the transactions of c.
LEMMA StageStep ==
  ASSUME TurnInv, TurnInv', NEW h \in Requests, NEW c \in Customers,
         OnlyRequest(h), OnlyAbout(h, c),
         request[h].who \in {c, None}, request'[h].who \in {c, None},
         \A t \in Transactions : CustomerOf[t] # c =>
           transaction'[t] = transaction[t]
  PROVE  \A t \in Transactions :
           /\ CustomerOf[t] # c => Stage(t)' = Stage(t)
           /\ CustomerOf[t] = c =>
                /\ Stage(t) = StageFor(request[h], t)
                /\ Stage(t)' = StageFor(request[h], t)'
<1> USE ConstantsOK DEF ConstantsOK
<1> TAKE t \in Transactions
<1>1. ASSUME NEW g \in Requests,
             request[g].txn = t \/ request'[g].txn = t
      PROVE  request[g].who = CustomerOf[t] \/ request'[g].who = CustomerOf[t]
  BY <1>1 DEF TurnInv, AllKnow, KnowsRows
<1>2. CustomerOf[t] \in Customers /\ CustomerOf[t] # None
  OBVIOUS
<1>3. ASSUME CustomerOf[t] # c, NEW g \in Requests,
             request[g].txn = t \/ request'[g].txn = t
      PROVE  request'[g] = request[g]
  BY <1>1, <1>2, <1>3 DEF OnlyRequest
<1>4. CustomerOf[t] # c => (Committed(t)' <=> Committed(t))
  BY <1>3 DEF Committed
<1>5. ASSUME CustomerOf[t] = c, NEW g \in Requests,
             request[g].txn = t \/ request'[g].txn = t
      PROVE  g = h
  BY <1>1, <1>5 DEF OnlyRequest, OnlyAbout
<1>6. CustomerOf[t] = c =>
        /\ Committed(t) <=>
             /\ request[h].txn = t /\ request[h].at = "saving"
             /\ "transaction" \in request[h].writes
             /\ request[h].tStatus = "provisioned"
        /\ Committed(t)' <=>
             /\ request'[h].txn = t /\ request'[h].at = "saving"
             /\ "transaction" \in request'[h].writes
             /\ request'[h].tStatus = "provisioned"
  BY <1>5 DEF Committed
<1> QED  BY <1>4, <1>6 DEF Stage, StageFor

\* A step in which no transaction moves and the request commits none.
LEMMA StagesStay ==
  ASSUME TurnInv, TurnInv', NEW h \in Requests, NEW c \in Customers,
         OnlyRequest(h), OnlyAbout(h, c),
         request[h].who \in {c, None}, request'[h].who \in {c, None},
         UNCHANGED transaction,
         \A t \in Transactions :
           StageFor(request[h], t)' = StageFor(request[h], t)
  PROVE  \A t \in Transactions : Stage(t)' = Stage(t)
BY StageStep

LEMMA StutterLedger ==
  ASSUME Turns, Turns', IInv, IInv', TurnInv, TurnInv', NEW h \in Requests,
         NEW c \in Customers, OnlyRequest(h), OnlyAbout(h, c),
         request[h].who \in {c, None}, request'[h].who \in {c, None},
         UNCHANGED <<transaction, fulfilled, notices>>,
         \A t \in Transactions :
           StageFor(request[h], t)' = StageFor(request[h], t)
  PROVE  [Ledger!Next]_(Ledger!ledger)
<1>1. \A t \in Transactions : Stage(t)' = Stage(t)
  BY StagesStay
<1>2. Reported' = Reported
  BY DEF Reported
<1> QED  BY <1>1, <1>2, LedgerIs

\* A purchase, a retry and a status change that arrive move nothing; a notice
\* is one.
LEMMA ArriveLedger ==
  ASSUME Turns, Turns', IInv, IInv', PaidInv, TurnInv, TurnInv',
         NEW h \in Requests, Arrive(h), ~Meets(h)
  PROVE  [Ledger!Next]_(Ledger!ledger)
<1>1. /\ request[h] = Idle /\ request \in [Requests -> Request]
      /\ UNCHANGED <<transaction, fulfilled>>
  BY DEF Arrive, CreatePurchase, RetryPurchase, ConfirmPurchase,
     ProviderCallback, ChangeCustomerStatus, rows, history, IInv, TypeOK
<1>2. /\ OnlyRequest(h)
      /\ request'[h].at # "idle" => request'[h].who \in Customers
      /\ "transaction" \notin request'[h].writes
  <2>1. ASSUME NEW t \in Transactions, NEW n \in Counts,
               CreatePurchase(h, t, n)
        PROVE  OnlyRequest(h) /\ "transaction" \notin request'[h].writes
    BY <1>1, <2>1 DEF CreatePurchase, Begin, Idle, OnlyRequest
  <2>2. ASSUME NEW t \in Transactions, RetryPurchase(h, t)
        PROVE  OnlyRequest(h) /\ "transaction" \notin request'[h].writes
    BY <1>1, <2>2 DEF RetryPurchase, Begin, Idle, OnlyRequest
  <2>3. ASSUME NEW s \in SessionIds, NEW want \in {"confirmed", "failed"},
               ConfirmPurchase(h, s, want)
        PROVE  OnlyRequest(h) /\ "transaction" \notin request'[h].writes
    BY <1>1, <2>3 DEF ConfirmPurchase, Begin, Idle, OnlyRequest
  <2>4. ASSUME NEW s \in SessionIds, NEW byTransaction \in BOOLEAN,
               NEW word \in Words, ProviderCallback(h, s, byTransaction, word)
        PROVE  OnlyRequest(h) /\ "transaction" \notin request'[h].writes
    BY <1>1, <2>4 DEF ProviderCallback, Begin, Idle, OnlyRequest
  <2>5. ASSUME NEW c \in Customers, NEW status \in Statuses,
               ChangeCustomerStatus(h, c, status)
        PROVE  OnlyRequest(h) /\ "transaction" \notin request'[h].writes
    BY <1>1, <2>5 DEF ChangeCustomerStatus, Idle, OnlyRequest
  <2>6. request'[h].at # "idle" => request'[h].who \in Customers
    BY DEF TurnInv, AllKnow, KnowsRows
  <2> QED  BY <2>1, <2>2, <2>3, <2>4, <2>5, <2>6 DEF Arrive
<1>3. \A t \in Transactions : Stage(t)' = Stage(t)
  <2>1. \A t \in Transactions : Committed(t)' <=> Committed(t)
    <3>1. request[h].writes = {}
      BY <1>1, IdleFields
    <3> QED  BY <1>2, <3>1 DEF OnlyRequest, Committed
  <2> QED  BY <1>1, <2>1 DEF Stage
<1>4. CASE notices' = notices
  BY <1>1, <1>3, <1>4, LedgerIs DEF Reported
<1>5. ASSUME NEW s \in SessionIds, Exists(s),
             notices' = [notices EXCEPT ![session[s].txn] = @ + 1]
      PROVE  [Ledger!Next]_(Ledger!ledger)
  <2>1. PICK t \in Transactions : t = session[s].txn
    BY <1>5, SessionOfAccount DEF IInv
  <2>2. Stage(t) # "absent"
    BY <1>5, <2>1 DEF PaidInv, RowsPriced, Stage
  <2>3. Reported' = Reported \union {t}
    BY <1>5, <2>1 DEF Reported, IInv, TypeOK
  <2> QED  BY <1>1, <1>3, <2>2, <2>3, LedgerIs
<1>6. ASSUME NEW s \in SessionIds, NEW want, Exists(s),
             Noticed(session[s].txn, want)
      PROVE  [Ledger!Next]_(Ledger!ledger)
  BY <1>4, <1>5, <1>6 DEF Noticed
<1>7. ASSUME NEW s \in SessionIds, NEW byTransaction \in BOOLEAN,
             NEW word \in Words, ProviderCallback(h, s, byTransaction, word)
      PROVE  [Ledger!Next]_(Ledger!ledger)
  <2>1. PICK f \in SessionIds :
          Noticed(session[s].txn, Normalized(word, session[f].method))
    BY <1>7 DEF ProviderCallback
  <2> QED  BY <1>6, <1>7, <2>1 DEF ProviderCallback
<1>8. ASSUME NEW s \in SessionIds, NEW want \in {"confirmed", "failed"},
             ConfirmPurchase(h, s, want)
      PROVE  [Ledger!Next]_(Ledger!ledger)
  BY <1>6, <1>8 DEF ConfirmPurchase
<1>9. CASE \/ \E t \in Transactions :
                (\E n \in Counts : CreatePurchase(h, t, n))
                \/ RetryPurchase(h, t)
           \/ \E c \in Customers, status \in Statuses :
                ChangeCustomerStatus(h, c, status)
  BY <1>4, <1>9 DEF CreatePurchase, RetryPurchase, ChangeCustomerStatus, history
<1> QED  BY Zenon, <1>7, <1>8, <1>9 DEF Arrive

\* A request in flight and its account.
LEMMA InFlightLedger ==
  ASSUME IInv, TurnInv, TurnInv', NEW h \in Requests, request[h].at # "idle",
         request'[h].who \in {request[h].who, None}
  PROVE  \E c \in Customers :
           /\ c = request[h].who /\ OnlyAbout(h, c)
           /\ request[h].who \in {c, None} /\ request'[h].who \in {c, None}
BY OneAbout

\* Steps that the ledger does not see.
LEMMA UnseenLedger ==
  ASSUME Turns, Turns', IInv, IInv', TurnInv, TurnInv', NEW h \in Requests,
         \/ ReadSession(h) \/ ReadTransaction(h) \/ LookupSession(h)
         \/ AlreadyConfirmed(h) \/ ConfirmAgain(h) \/ StartProvisioning(h)
         \/ RecordProgress(h) \/ FailPayment(h) \/ InsertSession(h)
         \/ PaymentInitiated(h) \/ InitiationFails(h) \/ ProvisioningFails(h)
         \/ Finish(h)
  PROVE  [Ledger!Next]_(Ledger!ledger)
<1> DEFINE r == request[h]
           q == request'[h]
<1>1. /\ r \in Request /\ Linked(r) /\ KnowsRows(r)
      /\ request \in [Requests -> Request]
  BY InFlightTyped DEF IInv, TypeOK, TurnInv, AllKnow
<1>2. /\ UNCHANGED <<transaction, fulfilled, notices>>
      /\ r.at # "idle" /\ (r.at = "saving" => r.writes = {})
  BY DEF ReadSession, ReadTransaction, LookupSession, AlreadyConfirmed,
     ConfirmAgain, StartProvisioning, RecordProgress, FailPayment,
     InsertSession, PaymentInitiated, InitiationFails, ProvisioningFails,
     Finish, rows, history
<1>3. r.writes = {}
  BY <1>1, <1>2 DEF Linked
<1>4. /\ OnlyRequest(h) /\ q.who \in {r.who, None}
      /\ \/ q.writes = {} \/ q.tStatus # "provisioned"
         \/ q.txn = r.txn /\ transaction[r.txn].status = "provisioned"
         \/ "transaction" \notin q.writes
  <2>1. CASE ReadSession(h)
    BY <1>1, <1>3, <2>1 DEF OnlyRequest, ReadSession, Request
  <2>2. CASE ReadTransaction(h)
    BY <1>1, <1>3, <2>2 DEF OnlyRequest, ReadTransaction, Request
  <2>3. CASE LookupSession(h)
    <3>1. PICK f \in SessionIds :
            request' = [request EXCEPT ![h].at = "readTransaction",
                                       ![h].ses = f,
                                       ![h].sStatus = session[f].status]
      BY <2>3 DEF LookupSession
    <3> QED  BY <1>1, <1>3, <3>1 DEF OnlyRequest, Request
  <2>4. CASE ConfirmAgain(h)
    <3>1. transaction[r.txn].status = "provisioned"
      BY <1>1, <2>4 DEF ConfirmAgain, KnowsRows
    <3> QED  BY <1>1, <2>4, <3>1 DEF OnlyRequest, ConfirmAgain, Request
  <2>5. CASE StartProvisioning(h)
    <3> DEFINE total == Charged(customer[r.who], r.ses)
    <3>1. request' = [request EXCEPT ![h] =
            [r EXCEPT !.at = "provision", !.tStatus = "provisioned",
                      !.sStatus = "confirmed", !.want = "none", !.cus = total]]
      BY <2>5 DEF StartProvisioning
    <3> HIDE DEF total
    <3> QED  BY <1>1, <1>3, <3>1 DEF OnlyRequest, Request
  <2>6. CASE RecordProgress(h)
    BY <1>1, <2>6 DEF OnlyRequest, RecordProgress, Request
  <2>7. CASE FailPayment(h)
    BY <1>1, <2>7 DEF OnlyRequest, FailPayment, Request
  <2>8. CASE InsertSession(h)
    <3>1. PICK s \in SessionIds :
            request' = [request EXCEPT ![h].at = "initiate", ![h].ses = s]
      BY <2>8 DEF InsertSession
    <3> QED  BY <1>1, <1>3, <3>1 DEF OnlyRequest, Request
  <2>9. CASE Leave(h)
    <3>1. OnlyRequest(h) /\ q = Idle
      BY <1>1, <2>9 DEF OnlyRequest, Leave
    <3> QED  BY <3>1, IdleFields
  <2>10. ProvisioningFails(h) => Leave(h)
    BY <1>2, OneAbout DEF ProvisioningFails, Raise
  <2> QED
    BY <2>1, <2>2, <2>3, <2>4, <2>5, <2>6, <2>7, <2>8, <2>9, <2>10
    DEF AlreadyConfirmed, PaymentInitiated, InitiationFails, Finish
<1>5. \A t \in Transactions :
        StageFor(request[h], t)' = StageFor(request[h], t)
  BY <1>2, <1>3, <1>4 DEF StageFor
<1>6. PICK c \in Customers :
        /\ c = request[h].who /\ OnlyAbout(h, c)
        /\ request[h].who \in {c, None} /\ request'[h].who \in {c, None}
  BY <1>2, <1>4, InFlightLedger
<1> QED  BY <1>2, <1>4, <1>5, <1>6, StutterLedger

LEMMA OpenLedger ==
  ASSUME Turns, Turns', IInv, IInv', PaidInv, TurnInv, TurnInv',
         NEW h \in Requests, InsertTransaction(h) \/ ReopenTransaction(h)
  PROVE  [Ledger!Next]_(Ledger!ledger)
<1> DEFINE r == request[h]
           q == request'[h]
<1>1. /\ r \in Request /\ Linked(r) /\ KnowsRows(r) /\ Priced(r, transaction)
      /\ request \in [Requests -> Request]
      /\ r.at \in {"insertTransaction", "reopenTransaction"}
      /\ r.txn \in Transactions
  BY InFlightTyped, EarlyTransaction
  DEF IInv, TypeOK, TurnInv, AllKnow, PaidInv, AllPriced, InsertTransaction,
      ReopenTransaction
<1>2. OnlyRequest(h) /\ q.who = r.who /\ q.at = "insertSession"
  <2>1. request' = [request EXCEPT ![h].at = "insertSession"]
    BY DEF InsertTransaction, ReopenTransaction
  <2> QED  BY <1>1, <2>1 DEF OnlyRequest, Request
<1>3. PICK t \in Transactions : t = r.txn
  BY <1>1
<1>4. /\ UNCHANGED <<fulfilled, notices>>
      /\ transaction'[t].status = "pending"
      /\ \A u \in Transactions \ {t} : transaction'[u] = transaction[u]
  BY <1>3 DEF InsertTransaction, ReopenTransaction, history, IInv, TypeOK,
     TransactionRow
<1>5. PICK c \in Customers :
        /\ c = request[h].who /\ OnlyAbout(h, c)
        /\ request[h].who \in {c, None} /\ request'[h].who \in {c, None}
  BY <1>1, <1>2, InFlightLedger
<1>6. CustomerOf[t] = c
  BY <1>1, <1>3, <1>5 DEF Linked
<1>7. \A u \in Transactions :
        /\ CustomerOf[u] # c => Stage(u)' = Stage(u)
        /\ CustomerOf[u] = c => /\ Stage(u) = StageFor(request[h], u)
                                /\ Stage(u)' = StageFor(request[h], u)'
  <2>1. \A u \in Transactions :
          CustomerOf[u] # c => transaction'[u] = transaction[u]
    BY <1>4, <1>6
  <2> QED  BY <1>2, <1>5, <2>1, StageStep
<1>8. \A u \in Transactions \ {t} : Stage(u)' = Stage(u)
  BY <1>1, <1>2, <1>4, <1>7 DEF StageFor
<1>9. Stage(t) = transaction[t].status /\ Stage(t)' = "pending"
  BY <1>1, <1>2, <1>4, <1>6, <1>7 DEF StageFor
<1>10. transaction[t].status \in {"absent", "failed"}
  BY <1>1, <1>3 DEF Priced, KnowsRows
<1>11. Reported' = Reported
  BY <1>4 DEF Reported
<1> QED  BY <1>4, <1>8, <1>9, <1>10, <1>11, LedgerIs

LEMMA FulfilLedger ==
  ASSUME Turns, Turns', IInv, IInv', PaidInv, TurnInv, TurnInv',
         NEW h \in Requests, Provisioned(h)
  PROVE  [Ledger!Next]_(Ledger!ledger)
<1> DEFINE r == request[h]
           q == request'[h]
<1>1. /\ r \in Request /\ Linked(r) /\ KnowsRows(r)
      /\ request \in [Requests -> Request] /\ r.at = "provision"
  BY InFlightTyped DEF IInv, TypeOK, TurnInv, AllKnow, Provisioned
<1>2. PICK t \in Transactions : /\ t = r.txn /\ r.who = CustomerOf[t]
                                /\ r.ses \in SessionIds
                                /\ session[r.ses].txn = t
  BY <1>1 DEF Linked, AboutSession
<1>3. /\ OnlyRequest(h) /\ q.at = "saving" /\ q.txn = t /\ q.who = r.who
      /\ "transaction" \in q.writes /\ q.tStatus = "provisioned"
  BY <1>1, <1>2 DEF Provisioned, OnlyRequest, Request, KnowsRows, Table
<1>4. /\ UNCHANGED <<transaction, notices>>
      /\ fulfilled' = [fulfilled EXCEPT ![t] = @ + 1]
  BY <1>2 DEF Provisioned, rows
<1>5. PICK c \in Customers :
        /\ c = request[h].who /\ OnlyAbout(h, c)
        /\ request[h].who \in {c, None} /\ request'[h].who \in {c, None}
  BY <1>1, <1>3, InFlightLedger
<1>6. \A u \in Transactions :
        /\ CustomerOf[u] # c => Stage(u)' = Stage(u)
        /\ CustomerOf[u] = c => /\ Stage(u) = StageFor(request[h], u)
                                /\ Stage(u)' = StageFor(request[h], u)'
  BY <1>3, <1>4, <1>5, StageStep
<1>7. \A u \in Transactions \ {t} : Stage(u)' = Stage(u)
  BY <1>1, <1>3, <1>4, <1>6 DEF StageFor
<1>8. Stage(t) = transaction[t].status /\ Stage(t)' = "provisioned"
  BY <1>1, <1>2, <1>3, <1>5, <1>6 DEF StageFor
<1>9. transaction[t].status \in {"pending", "failed"}
  <2>1. transaction[t].status # "provisioned"
    BY <1>1, <1>2 DEF KnowsRows
  <2>2. transaction[t].status # "absent"
    BY <1>2, ConstantsOK
    DEF PaidInv, RowsPriced, IInv, RowsLinked, ConstantsOK
  <2> QED  BY <2>1, <2>2 DEF IInv, TypeOK, TransactionRow, TransactionStatus
<1>10. fulfilled[t] = 0
  <2>1. ~Committed(t)
    BY <1>1, <1>2, <1>5, CommittedByOne
  <2>2. ~(fulfilled[t] > 0)
    BY <1>9, <2>1 DEF TurnInv, FulfilledIsCommitted
  <2> QED  BY <2>2 DEF IInv, TypeOK
<1>11. t \in Reported
  <2>1. h \in Owing(t)
    BY <1>1, <1>2 DEF Owing, Owes
  <2>2. Cardinality(Owing(t)) # 0 /\ Cardinality(Owing(t)) \in Nat
    BY <2>1, OwingFinite, FS_EmptySet
  <2>3. /\ subscribed[t] + Cardinality(Owing(t)) <= notices[t]
        /\ subscribed[t] \in Nat /\ notices[t] \in Nat
    BY DEF PaidInv, EachNoticeOnce, IInv, TypeOK
  <2> QED  BY <2>2, <2>3 DEF Reported
<1>12. Reported' = Reported /\ fulfilled' = [fulfilled EXCEPT ![t] = 1]
  BY <1>4, <1>10 DEF Reported, IInv, TypeOK
<1> QED  BY <1>7, <1>8, <1>9, <1>10, <1>11, <1>12, LedgerIs

\* A save of the transaction fails it, or shows what is committed; other saves
\* are not seen.
LEMMA SaveLedger ==
  ASSUME Turns, Turns', IInv, IInv', PaidInv, TurnInv, TurnInv',
         NEW h \in Requests,
         \/ SaveTransaction(h) \/ SaveSession(h) \/ SaveCustomer(h)
         \/ SaveBalance(h)
  PROVE  [Ledger!Next]_(Ledger!ledger)
<1> DEFINE r == request[h]
           q == request'[h]
<1>1. PICK table \in r.writes :
        /\ request' = [request EXCEPT ![h].writes = @ \ {table}]
        /\ \/ table = "transaction" /\ SaveTransaction(h)
           \/ /\ table # "transaction"
              /\ SaveSession(h) \/ SaveCustomer(h) \/ SaveBalance(h)
  BY DEF SaveTransaction, SaveSession, SaveCustomer, SaveBalance, Saved
<1>2. /\ r \in Request /\ Linked(r) /\ KnowsRows(r)
      /\ request \in [Requests -> Request] /\ r.at = "saving"
  BY InFlightTyped DEF IInv, TypeOK, TurnInv, AllKnow, SaveTransaction,
     SaveSession, SaveCustomer, SaveBalance, Saved
<1>3. /\ OnlyRequest(h) /\ q.at = "saving" /\ q.txn = r.txn
      /\ q.who = r.who /\ q.writes = r.writes \ {table}
      /\ q.tStatus = r.tStatus
  BY <1>1, <1>2 DEF OnlyRequest, Request
<1>4. UNCHANGED <<fulfilled, notices>>
  BY DEF SaveTransaction, SaveSession, SaveCustomer, SaveBalance, history
<1>5. PICK c \in Customers :
        /\ c = request[h].who /\ OnlyAbout(h, c)
        /\ request[h].who \in {c, None} /\ request'[h].who \in {c, None}
  BY <1>2, <1>3, InFlightLedger
<1>6. Reported' = Reported
  BY <1>4 DEF Reported
<1>7. CASE SaveSession(h) \/ SaveCustomer(h) \/ SaveBalance(h)
  <2>1. transaction' = transaction
    BY <1>7 DEF SaveSession, SaveCustomer, SaveBalance
  <2>2. table # "transaction"
    BY <1>1, <1>2, <1>7 DEF SaveSession, SaveCustomer, SaveBalance, Saved,
       SaveTransaction, Request
  <2>3. \A t \in Transactions :
          StageFor(request[h], t)' = StageFor(request[h], t)
    BY <1>2, <1>3, <2>1, <2>2 DEF StageFor
  <2> QED  BY <1>3, <1>4, <1>5, <2>1, <2>3, StutterLedger
<1>8. CASE table = "transaction" /\ SaveTransaction(h)
  <2>1. PICK t \in Transactions : /\ t = r.txn /\ r.who = CustomerOf[t]
                                  /\ r.ses \in SessionIds
                                  /\ session[r.ses].txn = t
    BY <1>1, <1>2, <1>8 DEF Linked, AboutSession
  <2>2. /\ transaction'[t].status = r.tStatus
        /\ \A u \in Transactions \ {t} : transaction'[u] = transaction[u]
    BY <1>8, <2>1 DEF SaveTransaction, IInv, TypeOK, TransactionRow
  <2>3. /\ r.tStatus \in {"failed", "provisioned"}
        /\ r.tStatus = "failed" => transaction[t].status \in {"pending", "failed"}
    <3>1. transaction[t].status # "absent"
      BY <2>1, ConstantsOK
      DEF PaidInv, RowsPriced, IInv, RowsLinked, ConstantsOK
    <3>2. transaction[t].status
            \in {"absent", "pending", "failed", "provisioned"}
      BY DEF IInv, TypeOK, TransactionRow, TransactionStatus
    <3> QED  BY <1>1, <1>2, <1>8, <2>1, <3>1, <3>2 DEF KnowsRows
  <2>4. \A u \in Transactions :
          /\ CustomerOf[u] # c => Stage(u)' = Stage(u)
          /\ CustomerOf[u] = c => /\ Stage(u) = StageFor(request[h], u)
                                  /\ Stage(u)' = StageFor(request[h], u)'
    <3>1. \A u \in Transactions :
            CustomerOf[u] # c => transaction'[u] = transaction[u]
      BY <1>5, <2>1, <2>2
    <3> QED  BY <1>3, <1>5, <3>1, StageStep
  <2>5. \A u \in Transactions \ {t} : Stage(u)' = Stage(u)
    BY <1>3, <2>1, <2>2, <2>4 DEF StageFor
  <2>6. CASE r.tStatus = "provisioned"
    <3>1. Stage(t) = "provisioned" /\ Stage(t)' = "provisioned"
      BY <1>2, <1>3, <1>5, <1>8, <2>1, <2>2, <2>4, <2>6 DEF StageFor
    <3> QED  BY <1>4, <1>6, <2>5, <3>1, LedgerIs
  <2>7. CASE r.tStatus = "failed"
    <3>1. Stage(t) \in {"pending", "failed"} /\ Stage(t)' = "failed"
      BY <1>2, <1>3, <1>5, <2>1, <2>2, <2>3, <2>4, <2>7 DEF StageFor
    <3> QED  BY <1>4, <1>6, <2>5, <3>1, LedgerIs
  <2> QED  BY <2>3, <2>6, <2>7
<1> QED  BY <1>1, <1>7, <1>8

\* Every step of a scenario is one of the ledger, or none.
LEMMA NextLedger ==
  ASSUME IInv, IInv', PaidInv, TurnsInv, TurnsInv',
         [MCNext]_<<vars, scenario>>
  PROVE  [Ledger!Next]_(Ledger!ledger)
<1>1. CASE ~Turns
  <2>1. ~Turns'
    BY <1>1 DEF MCNext, Turns
  <2> QED  BY <1>1, <2>1 DEF Ledger!ledger
<1>2. CASE UNCHANGED <<vars, scenario>>
  BY <1>2 DEF Ledger!ledger, vars, rows, memory, history, Turns, Committed
<1>3. CASE Turns /\ MCNext
  <2>1. Turns /\ Turns' /\ TurnInv /\ TurnInv' /\ faults' = 0
    BY <1>3 DEF MCNext, Fits, TurnsInv, Turns
  <2>2. ASSUME NEW h \in Requests, Arrive(h)
        PROVE  [Ledger!Next]_(Ledger!ledger)
    <3>1. Began(h) => ~Meets(h)
      BY <1>3 DEF MCNext, Plays, Turns
    <3>2. CASE Began(h)
      BY <2>1, <2>2, <3>1, <3>2, ArriveLedger
    <3>3. CASE ~Began(h)
      <4>1. request[h] = Idle
        BY <2>2 DEF Arrive, CreatePurchase, RetryPurchase, ConfirmPurchase,
           ProviderCallback, ChangeCustomerStatus
      <4>2. ~Meets(h)
        BY <3>3, <4>1, IdleFields DEF Began, Meets
      <4> QED  BY <2>1, <2>2, <4>2, ArriveLedger
    <3> QED  BY <3>2, <3>3
  <2>3. ASSUME NEW h \in Requests, TimerFires(h)
        PROVE  FALSE
    BY <2>1, <2>3 DEF TimerFires, SimulationTimer, TurnInv
  <2>4. ASSUME NEW h \in Requests, Proceed(h)
        PROVE  [Ledger!Next]_(Ledger!ledger)
    BY Zenon, <2>1, <2>4, OpenLedger, UnseenLedger, FulfilLedger, SaveLedger
    DEF Proceed
  <2>5. ASSUME NEW h \in Requests, Refused(h)
        PROVE  [Ledger!Next]_(Ledger!ledger)
    BY <2>1, <2>5, UnseenLedger DEF Refused
  <2>6. ASSUME \/ \E h \in Requests : SaveFails(h) \/ RequestFails(h)
               \/ Crash
        PROVE  FALSE
    <3>1. faults' = faults + 1
      BY <2>6 DEF SaveFails, RequestFails, Crash
    <3> QED  BY <2>1, <3>1 DEF TurnInv
  <2> QED  BY <1>3, <2>2, <2>3, <2>4, <2>5, <2>6 DEF MCNext, Next
<1> QED  BY <1>1, <1>2, <1>3

\* Initially no transaction exists.
LEMMA InitLedger == MCInit => Ledger!Init
<1> SUFFICES ASSUME MCInit PROVE Ledger!Init
  OBVIOUS
<1>1. \A t \in Transactions : ~Committed(t)
  BY IdleFields DEF MCInit, Init, Committed
<1> QED  BY <1>1 DEF MCInit, Init, Ledger!Init

\* createPurchase opens a transaction, failPayment and retryPurchase change it
\* back and forth, and finalizeConfirmedPurchase fulfils it once and for good,
\* after a notice: so the rows and the PCRF say, step by step, while an
\* account's requests wait for one another.
THEOREM PaymentsImplementLedger == MCSpec => ImplementsLedger
<1>1. MCInit => Ledger!Init
  BY InitLedger
<1>2. IInv /\ IInv' /\ PaidInv /\ TurnsInv /\ TurnsInv'
        /\ [MCNext]_<<vars, scenario>> => [Ledger!Next]_(Ledger!ledger)
  BY NextLedger
<1> QED
  BY <1>1, <1>2, ScenariosInv, PTL DEF MCSpec, ImplementsLedger, Ledger!Spec

=============================================================================
